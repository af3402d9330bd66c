SPECIFICATION Spec
CONSTANTS
    Proc = {p1, p2}
    Custom = {}
    MaxInvitations = 2
    MaxRequests = 1
    MaxResets = 1
VIEW WithoutAnswer
SYMMETRY Symmetry
INVARIANT TypeOK
INVARIANT OneLiveInvitation
INVARIANT CreatorOnlyByApproval
INVARIANT KnownDeadlocks
PROPERTY UsedInvitationsAdmitNobody
PROPERTY DecidedOnceByAdmin
PROPERTY AcceptedOnLiveFacts
PROPERTY ImplementsJoining
PROPERTY AnswersTellMembership
