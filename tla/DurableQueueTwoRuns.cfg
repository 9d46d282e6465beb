SPECIFICATION Spec
CONSTANTS
    r1 = r1
    r2 = r2
    w1 = w1
    w2 = w2
    Task <- TwoTasks
    Run = {r1, r2}
    RunOf <- OwnRunOf
    MaxAttempts <- OneAttempt
    Worker = {w1, w2}
    WorkerId <- OwnIds
    NoOwner = NoOwner
    NoTask = NoTask
    OperatorStatus <- StopOrEnd
    MaxOperatorCalls = 2
    MaxFaults = 0
    MaxCheckpoints = 1
SYMMETRY WorkerSymmetry
PROPERTIES
    LifecycleSpec
    CancelStaysInRun
