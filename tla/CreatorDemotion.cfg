SPECIFICATION Spec
CONSTANTS
    Proc = {p1, p2}
    Custom = {staff}
    MaxInvitations = 2
    MaxRequests = 1
    MaxResets = 1
VIEW WithoutAnswer
SYMMETRY Symmetry
PROPERTY CreatorKeepsRole
