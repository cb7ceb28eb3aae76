SPECIFICATION FairDeployedSpec
CONSTANTS
    MaxReplicas = 1
    Revs = {A, B}
    NoRev = NoRev
    FirstRev = A
    Policy = "OrderedReady"
    StrategyType = "RollingUpdate"
    InitReplicas = 1
    InitPartition = 0
    InitPaused = FALSE
    InitUnordered = FALSE
    InitComplete = TRUE
    ReadyValues = {"True"}
    UserOps = {"delete"}
    MaxEdits = 1
    MaxApiFail = 1
    MaxPodLoss = 0
    MaxCrash = 0
PROPERTIES
    DeletionCompletes
CHECK_DEADLOCK FALSE
