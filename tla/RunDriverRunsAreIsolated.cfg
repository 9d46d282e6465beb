SPECIFICATION Spec
\* every request and resume thread of the instance has ended
CHECK_DEADLOCK FALSE
CONSTANTS
    r1 = r1
    r2 = r2
    r3 = r3
    s1 = s1
    s2 = s2
    Run = {r1, r2}
    Slot = {}
    NoRun = NoRun
    MaxActiveRuns = 2
    MaxQueueDepth = 2
    MaxAttempts = 2
    MaxFaults = 0
SYMMETRY RunSymmetry
INVARIANTS
    RunsAreIsolated
