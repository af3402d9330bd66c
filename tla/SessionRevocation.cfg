SPECIFICATION Spec
CONSTANTS
    Proc = {p1, p2}
    TicksPerSecond = 2
    ResetTTL = 2
    LockTicks = 1
    SessionSeconds = 1
    Threshold = 2
    MaxClock = 2
    MaxIssued = 2
    MaxSessions = 2
SYMMETRY Symmetry
INVARIANT TypeOK
INVARIANT ResetRevokesEarlierSessions
INVARIANT CurrentSessionsAccepted
INVARIANT FailuresAlwaysCounted
PROPERTY ResetRedeemsNewestTokenOnce
PROPERTY LockoutBlocksLogin
PROPERTY SwitchNeverRevives
