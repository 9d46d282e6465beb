SPECIFICATION FairSpec
CONSTANTS
    none = none
    NoValue = none
    Answers <- SomeAnswers
    MaxPasses = 2
INVARIANTS
    ChangesAreAuthorized
    StopIsExplained
    HealingBounded
PROPERTIES
    EveryPassEnds
