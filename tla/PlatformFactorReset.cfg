SPECIFICATION Spec
CONSTANTS
    Proc = {p1, p2}
    PendingTTL = 1
    ChallengeTTL = 1
    MaxAttempts = 1
    MaxClock = 1
    MaxGrants = 1
    MaxResets = 1
    MaxChallenges = 1
    MaxPendings = 2
    MaxSessions = 1
SYMMETRY Symmetry
INVARIANT PostResetSessionsAccepted
CHECK_DEADLOCK FALSE
