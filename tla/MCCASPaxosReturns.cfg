SPECIFICATION FairSpec
CONSTANTS
    N = 3
    Proposers = {p}
    Values = {dict, number}
    Dicts = {dict}
    MaxBallot = 3
    MaxRequests = 2
PROPERTY
    ReceiveReturns
CHECK_DEADLOCK FALSE
