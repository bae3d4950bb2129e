SPECIFICATION Spec
CONSTANTS
    Emitters = {web, etl}
    PipeLines = 2
    MaxLogs = 2
    WholeSeconds = {TRUE, FALSE}
    ChunkLines = 2
    MaxRestarts = 0
    Faults = FALSE
INVARIANT
    NothingLost
CHECK_DEADLOCK FALSE
