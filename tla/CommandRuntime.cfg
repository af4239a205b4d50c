SPECIFICATION FairSpec
CONSTANTS
    k1 = k1
    e1 = e1
    e2 = e2
    Command <- MCCommand
    Echo <- MCEcho
    Inputs = 2
    Chunks = 3
    Pool = 2
    MaxActive = 1
    MaxPerSession = 1
    MaxQueued = 1
CHECK_DEADLOCK FALSE
INVARIANTS
    OutcomeReported
    PoolDrained
PROPERTIES
    ReturnsToMenu
