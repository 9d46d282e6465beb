SPECIFICATION Spec
\* every call of the instance has ended
CHECK_DEADLOCK FALSE
CONSTANTS
    c1 = c1
    c2 = c2
    c3 = c3
    a1 = a1
    a2 = a2
    Case = {c1}
    DayOf <- OneDay
    Today = 1
    Archiver = {a1, a2}
    BatchSize = 2
    MaxCalls = 2
    MaxFaults = 0
SYMMETRY ArchiverSymmetry
INVARIANTS
    NoCaseLost
