SPECIFICATION FairSpec
CONSTANTS
    Emitters = {etl}
    PipeLines = 2
    MaxLogs = 3
    WholeSeconds = {TRUE, FALSE}
    ChunkLines = 2
    MaxRestarts = 1
    Faults = TRUE
INVARIANTS
    NoSilentLoss
    AtMostOnce
PROPERTIES
    LockGranted
    BufferSent
    Collected
    Delivers
CHECK_DEADLOCK FALSE
