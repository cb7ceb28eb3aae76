SPECIFICATION FairDeployedSpec
CONSTANTS
    MaxReplicas = 2
    Revs = {A, B}
    NoRev = NoRev
    FirstRev = A
    Policy = "Parallel"
    StrategyType = "RollingUpdate"
    InitReplicas = 2
    InitPartition = 1
    InitPaused = FALSE
    InitUnordered = TRUE
    InitComplete = TRUE
    ReadyValues = {"True"}
    UserOps = {"template", "replicas", "partition"}
    MaxEdits = 2
    MaxApiFail = 1
    MaxPodLoss = 0
    MaxCrash = 0
PROPERTIES
    Converges
