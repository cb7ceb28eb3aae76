SPECIFICATION FairSpec
CONSTANTS
    MaxReplicas = 2
    Revs = {A, B}
    NoRev = NoRev
    FirstRev = A
    Policy = "OrderedReady"
    StrategyType = "RollingUpdate"
    InitReplicas = 1
    InitPartition = 1
    InitPaused = FALSE
    InitUnordered = FALSE
    InitComplete = FALSE
    ReadyValues = {"True"}
    UserOps = {"replicas", "delete", "partition"}
    MaxEdits = 1
    MaxApiFail = 0
    MaxPodLoss = 1
    MaxCrash = 1
INVARIANTS
    TypeOK
PROPERTIES
    Converges
    DeletionCompletes
CHECK_DEADLOCK FALSE
