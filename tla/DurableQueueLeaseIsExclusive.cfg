SPECIFICATION Spec
CONSTANTS
    r1 = r1
    r2 = r2
    w1 = w1
    w2 = w2
    Task <- OneTask
    Run = {r1}
    RunOf <- OneRunOf
    MaxAttempts <- TwoAttempts
    Worker = {w1, w2}
    WorkerId <- OwnIds
    NoOwner = NoOwner
    NoTask = NoTask
    OperatorStatus <- PauseCancel
    MaxOperatorCalls = 2
    MaxFaults = 0
    MaxCheckpoints = 0
SYMMETRY WorkerSymmetry
PROPERTIES
    LeaseIsExclusive
