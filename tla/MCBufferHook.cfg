SPECIFICATION Spec
CONSTANTS
    Traces = {twitter, facebook}
    Levels = {"info", "error", "fatal"}
    MaxEntries = 3
INVARIANTS
    TypeOK
    ErrorInContext
PROPERTIES
    EmitsContext
CHECK_DEADLOCK FALSE
