SPECIFICATION FairSpec
\* a run ends
CHECK_DEADLOCK FALSE
CONSTANTS
    Tasks = 3
    Keys = {"cause"}
    Values = {"a", "b"}
    NoValue = NoValue
    Limit = 2
INVARIANTS
    RefusedIffCyclic
    ConcurrencyBounded
    StartedAfterDependencies
    SkippedBehindFailure
    JoinIsFailClosed
PROPERTIES
    RunEnds
