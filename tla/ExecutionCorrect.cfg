SPECIFICATION Spec
\* every call of the instance has ended
CHECK_DEADLOCK FALSE
CONSTANTS
    MaxCalls = 5
    MaxFaults = 2
INVARIANTS
    AtMostOneLateEffect
    FailureIsLocal
    UntestedFixIsExcused
    OnePullRequestPerCommit
PROPERTIES
    FailureRestoresFile
    PublishedIsPushed
