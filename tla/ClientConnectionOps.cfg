SPECIFICATION Spec
CONSTANTS
    w1 = w1
    w2 = w2
    NoSocket = NoSocket
    Socket <- MCSocket
    MaxAttempts = 2
    MaxOutbox = 2
    MaxOpens = 3
CHECK_DEADLOCK FALSE
INVARIANTS
    OpsBeforeTools
