SPECIFICATION Spec
CONSTANTS
    Request = {r1, r2}
    Fields = 1
    Strategies = {"compiler"}
    Windows <- MCWindows
    Length <- MCLength
CHECK_DEADLOCK FALSE
INVARIANTS
    FallbackDelivers
