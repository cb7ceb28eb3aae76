SPECIFICATION FairSpec
CONSTANTS
    Templates = {A, B, C}
    NoRev = NoRev
    FirstTemplate = A
    Pods = {p1}
    Limits = {0, 1}
    MaxEdits = 1
    MaxFaults = 1
    MaxOthers = 1
INVARIANTS
    TypeOK
PROPERTIES
    InUseNotDeleted
    OldestGoFirst
    HistorySettles
