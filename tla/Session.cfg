SPECIFICATION SessionSpec
CONSTANTS
    w1 = w1
    w2 = w2
    NoSocket = NoSocket
    Socket <- MCSocket
    MaxAttempts = 2
    MaxOutbox = 2
    MaxOpens = 2
    MaxCommands = 3
CHECK_DEADLOCK FALSE
INVARIANTS
    OneAttempt
    SentOnceInOrder
    FilesInOwnSession
    TurnsKept
PROPERTIES
    NeverLeftAlone
