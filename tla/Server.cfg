SPECIFICATION ServerSpec
CONSTANTS
    x1 = x1
    x2 = x2
    x3 = x3
    y1 = y1
    y2 = y2
    z1 = z1
    z2 = z2
    z3 = z3
    s1 = s1
    s2 = s2
    Session <- MCSession
    Key <- MCKey
    SessionOf <- MCSessionOf
    MaxActive = 2
    MaxPerSession = 1
    MaxQueued = 2
    Challenge <- MCChallenge
    Command <- MCCommand
    ChallengeTtl = 1
    MaxChallenges = 2
    ReplayTtl = 1
    MaxEntries = 2
    MaxTime = 3
    MaxAccepted = 4
    Request <- MCChallenge
    Concurrency = 2
    NoRequest = NoRequest
CHECK_DEADLOCK FALSE
SYMMETRY Symmetry
INVARIANTS
    SlotsAccounted
    NoTaskLost
    WorkConserving
    DeadlineCovers
    Bounded
    SingleUse
    NoEarlyDuplicate
    GateAccounted
    AwaitedIsPending
    HandleUsable
PROPERTIES
    NoOvertaking
    FirstReasonReported
    ImplementsAdmissionControl
    FirstTryInTime
