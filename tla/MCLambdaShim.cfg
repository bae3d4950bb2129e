SPECIFICATION FairSpec
CONSTANTS
    MaxCalls = 3
    Size = 2
    Capacity = 1
INVARIANTS
    TypeOK
    AnswersMatch
    NoStrays
PROPERTIES
    Returns
CHECK_DEADLOCK FALSE
