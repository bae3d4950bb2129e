SPECIFICATION HealthySpec
CONSTANTS
    Emitters = {web, etl}
    PipeLines = 1
    MaxLogs = 1
    WholeSeconds = {FALSE}
    ChunkLines = 2
    MaxRestarts = 0
    Faults = FALSE
PROPERTY
    EmitReturns
CHECK_DEADLOCK FALSE
