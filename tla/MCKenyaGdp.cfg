SPECIFICATION Spec
CONSTANTS
    con = con
    inv = inv
    fix = fix
    net = net
    C <- con
    G <- con
    I <- inv
    FI <- fix
    NX <- net
    INDICATORS <- MCIndicators
    LEVELS = {}
    Editions = 2
    Published <- MCPublished
    ICSD <- MCIcsd
    Scale = 10
    Noise = 1
    MaxRuns = 3
INVARIANTS
    TypeOK
    NoSilentMix
    DataKept
    ChartsFollow
    SplitReconciles
CHECK_DEADLOCK FALSE
