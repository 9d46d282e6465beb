SPECIFICATION FairSpec
CONSTANTS
    r1 = r1
    r2 = r2
    w1 = w1
    w2 = w2
    Task <- OneTask
    Run = {r1}
    RunOf <- OneRunOf
    MaxAttempts <- TwoAttempts
    Worker = {w1, w2}
    WorkerId <- OwnIds
    NoOwner = NoOwner
    NoTask = NoTask
    OperatorStatus <- PauseCancel
    MaxOperatorCalls = 1
    MaxFaults = 1
    MaxCheckpoints = 0
INVARIANTS
    Fenced
    RetryBudget
PROPERTIES
    LeaseRespected
    LifecycleSpec
    LeasesEnd
    StoppedRunsQuiesce
