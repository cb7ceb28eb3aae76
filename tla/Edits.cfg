SPECIFICATION FairDeployedSpec
CONSTANTS
    MaxReplicas = 2
    Revs = {A, B}
    NoRev = NoRev
    FirstRev = A
    Policy = "OrderedReady"
    StrategyType = "RollingUpdate"
    InitReplicas = 2
    InitPartition = 0
    InitPaused = FALSE
    InitUnordered = FALSE
    InitComplete = TRUE
    ReadyValues = {"True"}
    UserOps = {"template", "partition", "paused"}
    MaxEdits = 2
    MaxApiFail = 1
    MaxPodLoss = 0
    MaxCrash = 0
INVARIANTS
    DoneMeansUpdated
PROPERTIES
    Converges
    ObservedNeverRegresses
