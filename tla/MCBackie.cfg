SPECIFICATION FairSpec
CONSTANTS
    mail1 = mail1
    mail2 = mail2
    email = email
    order = order
    TaskNames = {email, order}
    Callers = {shop}
    Workers = {mail1, mail2}
    Serves <- MCServes
    MaxCalls = 2
    Faults = TRUE
INVARIANTS
    TypeOK
    AtMostOnce
    NoSilentLoss
    CallerOrder
PROPERTIES
    Served
    Queues
CHECK_DEADLOCK FALSE
