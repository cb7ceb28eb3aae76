SPECIFICATION FairSpec
CONSTANTS
    NumGangs = 1
    Size = 3
    Plain = 1
    Counted = 2
    Need = 2
    Slots = 3
    MaxTime = 1
    MaxFaults = 1
INVARIANTS
    TypeOK
    AdmittedTogether
    NoCompleteGangWaits
PROPERTIES
    GangDecided
CHECK_DEADLOCK FALSE
