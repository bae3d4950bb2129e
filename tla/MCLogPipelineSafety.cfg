SPECIFICATION Spec
CONSTANTS
    Emitters = {web, etl}
    PipeLines = 2
    MaxLogs = 2
    WholeSeconds = {FALSE}
    ChunkLines = 2
    MaxRestarts = 0
    Faults = TRUE
INVARIANTS
    TypeOK
    BatchFrozen
    NoSilentLoss
    AtMostOnce
    NoOvertaking
    LockHandover
    FifoReady
CHECK_DEADLOCK FALSE
