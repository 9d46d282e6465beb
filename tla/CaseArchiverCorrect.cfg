SPECIFICATION Spec
\* every call of the instance has ended
CHECK_DEADLOCK FALSE
CONSTANTS
    c1 = c1
    c2 = c2
    c3 = c3
    a1 = a1
    a2 = a2
    Case = {c1, c2, c3}
    DayOf <- TwoDays
    Today = 3
    Archiver = {a1}
    BatchSize = 2
    MaxCalls = 3
    MaxFaults = 2
INVARIANTS
    SavedIsKept
    NoCaseLost
    IndexedIsZipped
