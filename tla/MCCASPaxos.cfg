SPECIFICATION FairSpec
CONSTANTS
    N = 3
    Proposers = {p, q}
    Values = {dict, number}
    Dicts = {dict}
    MaxBallot = 3
    MaxRequests = 3
INVARIANTS
    TypeOK
    ResetIsSafe
    KeptByMajority
    NoStaleAnswer
PROPERTY
    GreatestAnswered
CHECK_DEADLOCK FALSE
