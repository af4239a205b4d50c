SPECIFICATION ManagerFairSpec
CONSTANTS
    r1 = r1
    r2 = r2
    r3 = r3
    NoRequest = NoRequest
    Request <- SmallRequest
    Concurrency = 2
CHECK_DEADLOCK FALSE
PROPERTIES
    AbortedEnds
    DeadWorkerNotAwaited
