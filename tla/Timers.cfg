SPECIFICATION TimersSpec
CONSTANTS
    p1 = p1
    p2 = p2
    p3 = p3
    c1 = c1
    c2 = c2
    s1 = s1
    s2 = s2
    a1 = a1
    a2 = a2
    b1 = b1
    NoProc = NoProc
    Proc <- MCProc
    Caller <- MCCaller
    MaxRestarts = 2
    MaxActive = 1
    MaxPerSession = 1
    MaxQueued = 2
INVARIANTS
    Owned
PROPERTIES
    CrashIsSupervised
    StopQuiesces
    EveryCommandSettles
    QueueWaitBounded
