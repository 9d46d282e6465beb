SPECIFICATION FairSpec
CONSTANTS
    c1 = c1
    c2 = c2
    c3 = c3
    Caller = {c1, c2, c3}
    Threshold = 2
    MaxFailures = 6
INVARIANTS
    CircuitMatchesFailures
    OneProbePerRecovery
PROPERTIES
    ProbeDecides
