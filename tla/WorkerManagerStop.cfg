SPECIFICATION ManagerSpec
CONSTANTS
    r1 = r1
    r2 = r2
    r3 = r3
    NoRequest = NoRequest
    Request <- MCRequest
    Concurrency = 2
CHECK_DEADLOCK FALSE
SYMMETRY Symmetry
INVARIANTS
    AbortStopsWork
