SPECIFICATION Spec
CONSTANTS
    Member = {m1, m2}
    RoleId = {r1, r2}
    Name = {"Admin", "Tutor"}
    Permission <- SmallPermission
    Proc = {p1, p2}
    Grants <- SmallGrants
    TenantName = {"ours", "theirs"}
    InitialRoles = 2
    MaxWrites = 2
    Bystanders = 2
    MaxRows = 4
    PageLimit = 3
    DefaultSize = 2
VIEW WithoutAnswer
SYMMETRY Symmetry
INVARIANT TypeOK
INVARIANT PermissionsOfLastUpdate
INVARIANT DecisionsNest
INVARIANT PagesPartitionMembers
PROPERTY ImplementsRegister
PROPERTY AnswersTellOutcome
PROPERTY StaleTokensChangeNothing
PROPERTY LastMemberOnlyByCrossing

