SPECIFICATION FairSpec
CONSTANTS
    Request = {r1, r2}
    Fields = 1
    Strategies <- MCStrategies
    Windows <- MCWindows
    Length <- MCLength
CHECK_DEADLOCK FALSE
INVARIANTS
    TraceAccounted
    OutcomeHonest
PROPERTIES
    GiveUpJustified
    EveryLineAnswered
