SPECIFICATION FairSpec
CONSTANTS
    o1 = o1
    q1 = q1
    q2 = q2
    implement = implement
    publish = publish
    Opener = {o1}
    Request = {q1, q2}
    Scope = {implement, publish}
    Allowed <- FirstScope
    None = None
    MaxFaults = 1
INVARIANTS
    GrantsBacked
    PausedHasReview
PROPERTIES
    NoApprovalLeftBehind
