SPECIFICATION DeployedSpec
CONSTANTS
    MaxReplicas = 3
    Revs = {A, B}
    NoRev = NoRev
    FirstRev = A
    Policy = "OrderedReady"
    StrategyType = "RollingUpdate"
    InitReplicas = 3
    InitPartition = 1
    InitPaused = FALSE
    InitUnordered = FALSE
    InitComplete = TRUE
    ReadyValues = {"True", "False"}
    UserOps = {"template"}
    MaxEdits = 1
    MaxApiFail = 1
    MaxPodLoss = 0
    MaxCrash = 1
INVARIANTS
    RolloutInv
    AtMostOneDown
    BelowPartitionUntouched
    UpdatedFromTheTop
PROPERTIES
    ImplementsRollingUpdate
