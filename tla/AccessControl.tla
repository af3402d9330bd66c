--------------------------- MODULE AccessControl ---------------------------
(***************************************************************************)
(* The rows of a tenant that decide who may do what, and the decisions     *)
(* taken from them: the HTTP permission check, the gRPC CheckPermission    *)
(* in its three forms, CheckActiveMembership, and the guards in front of   *)
(* a handler.                                                              *)
(*                                                                         *)
(* One tenant is modelled, called "here"; its members, its custom roles    *)
(* and the two system roles.  UUIDs of anything else name no row.          *)
(***************************************************************************)
EXTENDS Naturals, FiniteSets, HandlerStatus

CONSTANTS
    Member,        \* tenant_members rows of the tenant, each of another user
    RoleId,        \* ids of custom roles, in use or not yet
    Name,          \* names of custom roles
    Permission     \* names in the permissions table

SystemRole == {"Teacher", "Creator"}

ASSUME AccessAssumption ==
    /\ RoleId \cap SystemRole = {}
    /\ Name # {}
    /\ "none" \notin Member
    /\ IsFiniteSet(Member) /\ IsFiniteSet(RoleId)

VARIABLES
    roles,         \* the tenant's custom roles, with their role_permissions rows
    members        \* the tenant_members rows

-----------------------------------------------------------------------------

AnyRole == SystemRole \cup RoleId

\* tenant_id is "here" for every custom role and NULL for a system role.
Role == [state: {"unused", "live", "deleted"}, name: Name, perms: SUBSET Permission]

\* active is false for a row that is deactivated or soft-deleted.
MemberRow == [active: BOOLEAN, role: AnyRole]

\* What the seeder grants: everything to the Creator, to the Teacher nothing that this
\* service checks.
SystemGrants(r) == IF r = "Creator" THEN Permission ELSE {}

LiveRoles == {r \in RoleId : roles[r].state = "live"}

\* Mutation: the lookup does not compare the tenant.
AnyTenantsRoles == SystemRole \cup LiveRoles \cup {"foreign"}

ExistingRoles == SystemRole \cup LiveRoles

\* No role has an id that was not given out; a deleted one is never given out again.
Vacant(state) == [state |-> state, name |-> CHOOSE n \in Name : TRUE, perms |-> {}]

\* uq_roles_tenant_name
NamesDiffer == \A r, s \in LiveRoles : r # s => roles[r].name # roles[s].name

PermissionsOf(r) == IF r \in RoleId THEN roles[r].perms ELSE SystemGrants(r)

\* roles.tenant_id = t OR roles.tenant_id IS NULL
BelongsTo(r, t) == r \in SystemRole \/ (r \in LiveRoles /\ t = "here")

isSystemCreatorRole(r) == r = "Creator"

-----------------------------------------------------------------------------
\* A token names a membership and the role it had when the token was signed.

Token == [member: Member, role: AnyRole]

\* "none" is an absent tenant_id or member_id.
Tenant == {"here", "elsewhere", "none"}

Complete(q) == q.tenant # "none" /\ q.member # "none"

\* Mutation: the membership need not carry the token's role any more.
PinnedToRow(q) ==
    /\ members[q.member].active /\ q.tenant = "here"
    /\ BelongsTo(members[q.member].role, q.tenant)
    /\ q.permission \in PermissionsOf(members[q.member].role)

\* Mutation: a soft-deleted membership still counts.
PinnedToRole(q) ==
    /\ members[q.member].role = q.role /\ q.tenant = "here"
    /\ BelongsTo(q.role, q.tenant)
    /\ q.permission \in PermissionsOf(q.role)

\* tm.id, tm.user_id: a user has one membership row per tenant, so either names it.
ActiveMemberHasPermission(q) ==
    /\ Complete(q)
    /\ q.tenant = "here"
    /\ members[q.member].active /\ members[q.member].role = q.role
    /\ BelongsTo(q.role, q.tenant)
    /\ q.permission \in PermissionsOf(q.role)

\* The HTTP decision: a verified caller, its tenant and the role of its token.
callerHasPermission(token, permission) ==
    ActiveMemberHasPermission([tenant |-> "here", role |-> token.role,
                               member |-> token.member, permission |-> permission])

\* The decision without a membership: of a tenant, or of any.
checkPermission(q) ==
    /\ q.tenant # "none" => BelongsTo(q.role, q.tenant)
    /\ q.role \in ExistingRoles
    /\ q.permission \in PermissionsOf(q.role)

\* tenant_id may be missing during the transition; with a member_id it may not.
CheckPermission(q) ==
    IF q.member # "none" /\ q.tenant = "none" THEN "InvalidArgument"
    ELSE IF (IF q.member # "none" THEN ActiveMemberHasPermission(q) ELSE checkPermission(q))
         THEN "allowed" ELSE "denied"

CheckActiveMembership(t, m) == t = "here" /\ members[m].active

\* The role row, read with the membership that still carries it.
FindActiveMembership(t, token) ==
    /\ CheckActiveMembership(t, token.member)
    /\ members[token.member].role = token.role
    /\ BelongsTo(token.role, t)

isOwnMembership(token, m) == token.member = m

-----------------------------------------------------------------------------
\* In front of a handler.  A verified token of a member is a Token; the other
\* credentials a request may come with never get to one.

Credential == {"absent", "malformed", "expired", "pending", "legacyPlatform",
               "platform", "parent"}

\* The bearer token must verify and be no pending or legacy platform token.
AuthMiddleware(c) ==
    IF c \in {"absent", "malformed", "expired", "pending", "legacyPlatform"} THEN 401 ELSE 200

\* A platform administrator's token has no tenant.
RejectTenantlessPlatform(c) == IF c = "platform" THEN 403 ELSE 200

\* Nor has a parent's; a tenant named by a header is ignored.
tenantIDFromContext(c) == IF c = "parent" THEN 403 ELSE 200

\* The invitation handlers check the tenant themselves, each in its way.
InvitationTenant(c) == IF c = "parent" THEN 400 ELSE 200

invitationTenantID(c) == IF c = "parent" THEN 403 ELSE 200

Admission(c) ==
    IF AuthMiddleware(c) # 200 THEN AuthMiddleware(c)
    ELSE IF RejectTenantlessPlatform(c) # 200 THEN RejectTenantlessPlatform(c)
    ELSE tenantIDFromContext(c)

\* What a request must be permitted.
Needed(op) ==
    CASE op = "createRole" -> "role:create"
      [] op = "updateRole" -> "role:update"
      [] op = "deleteRole" -> "role:delete"
      [] op = "updateMemberRole" -> "member:update"
      [] op = "deleteMember" -> "member:delete"
      [] op = "invite" -> "member:invite"
      [] OTHER -> "tenant:update"

-----------------------------------------------------------------------------
\* Properties.

\* A looser form of the decision never refuses what a stricter one allows: a yes
\* of the HTTP check implies the gRPC answer with the membership, that implies the
\* one with the tenant, that the legacy one; and a tenant's custom role decides nothing in
\* another tenant ("a role lifted from another tenant never satisfies the check").
DecisionsNest ==
    \A m \in Member, r \in AnyRole, perm \in Permission :
        LET ask(t, n) ==
                CheckPermission([tenant |-> t, role |-> r, member |-> n, permission |-> perm])
            token == [member |-> m, role |-> r]
        IN  /\ callerHasPermission(token, perm) =>
                   ask("here", m) = "allowed" /\ FindActiveMembership("here", token)
            /\ ask("here", m) = "allowed" =>
                   ask("here", "none") = "allowed" /\ CheckActiveMembership("here", m)
            /\ ask("here", "none") = "allowed" => ask("none", "none") = "allowed"
            /\ r \in RoleId => ask("elsewhere", "none") = "denied"
            /\ ask("elsewhere", m) = "denied"
=============================================================================
