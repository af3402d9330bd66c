SPECIFICATION Spec
CONSTANTS
    Proc = {p1, p2}
    PendingTTL = 1
    ChallengeTTL = 1
    MaxAttempts = 1
    MaxClock = 1
    MaxGrants = 2
    MaxResets = 1
    MaxChallenges = 3
    MaxPendings = 2
    MaxSessions = 1
SYMMETRY Symmetry
INVARIANT TypeOK
INVARIANT SessionsOfCurrentSeed
INVARIANT OneEnrollmentPerGrant
INVARIANT GuessesBounded
INVARIANT PendingBindsSession
PROPERTY DeadSessionsStayDead
PROPERTY AcceptedOnce
CHECK_DEADLOCK FALSE
