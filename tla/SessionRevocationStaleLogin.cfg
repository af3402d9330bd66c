SPECIFICATION Spec
CONSTANTS
    Proc = {p1, p2}
    TicksPerSecond = 1
    ResetTTL = 2
    LockTicks = 1
    SessionSeconds = 4
    Threshold = 2
    MaxClock = 0
    MaxIssued = 1
    MaxSessions = 1
INVARIANT ReplacedPasswordGrantsNothing
