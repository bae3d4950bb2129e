SPECIFICATION Spec
CONSTANTS
    N = 3
    Proposers = {p}
    Values = {dict, number}
    Dicts = {dict}
    MaxBallot = 3
    MaxRequests = 2
PROPERTY
    ConflictIfGreater
CHECK_DEADLOCK FALSE
