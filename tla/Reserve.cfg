SPECIFICATION FairSpec
CONSTANTS
    Nodes = {n1, n2}
    Pods = {p1, p2}
    NoNode = NoNode
    NoPod = NoPod
    Bad = Bad
    Capacity = 2
    Sizes = {1}
    MaxTime = 2
    MaxEdits = 2
    MaxFaults = 1
    MaxTries = 2
INVARIANTS
    TypeOK
PROPERTIES
    FilterProtectsOthers
    WritesRemoveOnlyTheirOwn
    ExpiredAreCleaned
CHECK_DEADLOCK FALSE
