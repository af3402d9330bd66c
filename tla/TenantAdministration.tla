------------------------ MODULE TenantAdministration ------------------------
(***************************************************************************)
(* What the members of one tenant change about it: custom roles and their  *)
(* permissions, the roles of members, removals, invitations, the profile   *)
(* and the location.  Every request is first allowed or refused by a       *)
(* permission check of its own (AccessControl), and only then, in other    *)
(* statements and transactions, read and written.                          *)
(*                                                                         *)
(* Statements are steps, as PostgreSQL runs them at READ COMMITTED.  A     *)
(* transaction that holds a row lock while it waits for another one is     *)
(* split at that wait; the locks it holds follow from its pc.              *)
(***************************************************************************)
EXTENDS AccessControl, MemberListing

CONSTANTS
    Proc,          \* request goroutines
    Grants,        \* bound: the permission lists a request may carry
    TenantName,    \* tenants.name values
    Bystanders,    \* further members, that no request is about
    InitialRoles,  \* bound: custom roles at first
    MaxWrites      \* bound: writes committed

ASSUME AdministrationAssumption ==
    /\ Grants \subseteq SUBSET Permission
    /\ TenantName # {}
    /\ MaxWrites \in Nat /\ InitialRoles \in Nat /\ Bystanders \in Nat

VARIABLES
    invited,       \* roles that tenant_invitations rows refer to, used ones included
    sessions,      \* tokens that were signed for the members
    tenant,        \* the tenants row, of which only the name matters
    taken,         \* names of other tenants
    pc,            \* where each process is in its handler
    req,           \* the request it answers
    seen,          \* role_permissions rows its DELETE found, that still exist
    current,       \* the role its first SELECT found on the member
    copy,          \* the tenants row its SELECT found
    \* history, read by no property of the code
    writes,        \* writes committed so far
    answer,        \* the answer given by the last step, if it gave one
    wrote,         \* has the request committed a write?
    overtaken,     \* was the caller removed or moved after its permission check?
    granted        \* the permissions last asked for of each role

database == <<roles, members, invited, sessions, tenant, taken>>
history == <<wrote, overtaken, granted, writes>>
vars == <<database, pc, req, seen, current, copy, answer, history>>

-----------------------------------------------------------------------------

\* "foreign" is a role of another tenant.
RoleArgument == AnyRole \cup {"foreign"}

\* Who is invited: the user of a membership, or a stranger to this tenant, who may have an
\* account and may teach for another one.
Invitee == Member \cup {"stranger"}

Op == {"createRole", "updateRole", "deleteRole", "updateMemberRole", "deleteMember", "invite",
       "settings", "location"}

RequestBy(tokens) ==
    [op: {"createRole", "updateRole"}, by: tokens, role: RoleArgument, name: Name,
     perms: Grants]
    \cup [op: {"deleteRole"}, by: tokens, role: RoleArgument]
    \cup [op: {"invite"}, by: tokens, role: RoleArgument, to: Invitee]
    \cup [op: {"updateMemberRole"}, by: tokens, member: Member, role: RoleArgument]
    \cup [op: {"deleteMember"}, by: tokens, member: Member]
    \cup [op: {"settings"}, by: tokens, name: TenantName]
    \cup [op: {"location"}, by: tokens]

Request == RequestBy(Token)

NoRequest == [op |-> "none"]

Name0 == CHOOSE n \in TenantName : TRUE

NoAnswer == [op |-> "none", status |-> 0, wrote |-> FALSE]

Step == {"idle", "createName", "createInsert", "createTenant", "createRead",
         "updateRead", "updateName", "updateRow", "updateUnique", "updateDelete",
         "updatePermissions", "updateCommit", "updateReadBack",
         "deleteRead", "deleteCount", "deleteDelete", "deletePermissions", "deleteRow",
         "deleteKeys",
         "memberRead", "memberRole", "memberWrite", "memberKey", "memberReadBack",
         "removeRead", "removeWrite", "inviteRole", "validateTeacher", "validateTenant",
         "validateMember", "validateOther", "inviteTenant", "inviteWrite",
         "tenantRead", "settingsName", "geocode", "tenantSave", "locationReadBack"}

TypeOK ==
    /\ roles \in [RoleId -> Role]
    /\ members \in [Member -> MemberRow]
    /\ invited \subseteq AnyRole
    /\ sessions \subseteq Token
    /\ tenant \in TenantName
    /\ taken \subseteq TenantName
    /\ pc \in [Proc -> Step]
    /\ req \in [Proc -> Request \cup {NoRequest}]
    /\ seen \in [Proc -> SUBSET Permission]
    /\ current \in [Proc -> AnyRole]
    /\ copy \in [Proc -> TenantName]
    /\ writes \in Nat
    /\ answer.status \in Nat /\ answer.wrote \in BOOLEAN
    /\ wrote \in [Proc -> BOOLEAN]
    /\ overtaken \in [Proc -> BOOLEAN]
    /\ granted \in [RoleId -> SUBSET Permission]

\* A tenant in use: a Creator, some custom roles, and members with these.
Init ==
    /\ roles \in [RoleId -> {Vacant("unused")} \cup [state: {"live"}, name: Name, perms: Grants]]
    /\ Cardinality(LiveRoles) <= InitialRoles /\ NamesDiffer
    /\ members \in [Member -> [active: {TRUE}, role: SystemRole \cup LiveRoles]]
    /\ \E m \in Member : members[m].role = "Creator"
    /\ invited = {}
    /\ sessions = {[member |-> m, role |-> members[m].role] : m \in Member}
    /\ tenant = Name0
    /\ taken = {}
    /\ pc = [p \in Proc |-> "idle"]
    /\ req = [p \in Proc |-> NoRequest]
    /\ seen = [p \in Proc |-> {}]
    /\ current = [p \in Proc |-> "Teacher"]
    /\ copy = [p \in Proc |-> Name0]
    /\ writes = 0
    /\ answer = NoAnswer
    /\ wrote = [p \in Proc |-> FALSE]
    /\ overtaken = [p \in Proc |-> FALSE]
    /\ granted = [r \in RoleId |-> roles[r].perms]

-----------------------------------------------------------------------------
\* Beginning and ending a request.

First(op) ==
    CASE op = "createRole" -> "createName"
      [] op = "updateRole" -> "updateRead"
      [] op = "deleteRole" -> "deleteRead"
      [] op = "updateMemberRole" -> "memberRead"
      [] op = "deleteMember" -> "removeRead"
      [] op = "invite" -> "inviteRole"
      [] OTHER -> "tenantRead"

Table(op) ==
    CASE op = "createRole" -> CreateRoleStatus
      [] op = "updateRole" -> UpdateRoleStatus
      [] op = "deleteRole" -> DeleteRoleStatus
      [] op = "updateMemberRole" -> UpdateMemberRoleStatus
      [] op = "deleteMember" -> DeleteMemberStatus
      [] op = "invite" -> CreateInvitationStatus
      [] op = "settings" -> UpdateSettingsStatus
      [] OTHER -> UpdateLocationStatus

Responds(op, error, w) ==
    answer' = [op |-> op, status |-> Status(Table(op), error), wrote |-> w]

Busy(p) == pc[p] # "idle"

\* Every request in progress may write once.
BelowBound == writes + Cardinality({p \in Proc : Busy(p) /\ ~wrote[p]}) < MaxWrites

Written == writes' = writes + 1

\* A new role gets an id nobody has: not in the table, not in another request.
FreshId(r) ==
    /\ roles[r].state = "unused"
    /\ \A q \in Proc : req[q].op = "createRole" => req[q].role # r

\* Requests with a member's token: the permission check comes first.
Begin(p) ==
    /\ pc[p] = "idle"
    /\ BelowBound
    /\ \E r \in RequestBy(sessions) :
          /\ callerHasPermission(r.by, Needed(r.op))
          /\ r.op = "createRole" => r.role \in RoleId /\ FreshId(r.role)
          /\ pc' = [pc EXCEPT ![p] = First(r.op)]
          /\ req' = [req EXCEPT ![p] = r]
    /\ answer' = NoAnswer
    /\ UNCHANGED <<database, seen, current, copy, history>>

Denied ==
    \E t \in sessions, op \in Op :
        /\ ~callerHasPermission(t, Needed(op))
        /\ Responds(op, "denied", FALSE)
        /\ UNCHANGED <<database, pc, req, seen, current, copy, history>>

\* Every other request is answered without a write: no member's token, a body that cannot
\* be bound, or a read, which is one SELECT after the other of committed rows.
Turned(status) ==
    /\ answer' = [op |-> "other", status |-> status, wrote |-> FALSE]
    /\ UNCHANGED <<database, pc, req, seen, current, copy, history>>

Malformed == Turned(400)

NoMember ==
    \E status \in UNION {{Admission(c), InvitationTenant(c), invitationTenantID(c)} :
                             c \in Credential} :
        Turned(status)

Permitted(t, permission) ==
    IF callerHasPermission(t, permission) THEN "success" ELSE "denied"

GetRoles(t) == Status(GetRolesStatus, Permitted(t, "role:read"))

GetSettings(t) == Status(GetSettingsStatus, Permitted(t, "tenant:read"))

GetLocation(t) == Status(GetLocationStatus, Permitted(t, "tenant:read"))

ListInvitations(t) == Status(ListInvitationsStatus, Permitted(t, "member:invite"))

GetMember(t, m) ==
    Status(GetMemberStatus,
           IF ~callerHasPermission(t, "member:read") THEN "denied"
           ELSE IF members[m].active THEN "success" ELSE "notFound")

ListMembers(t) == ListMembersAnswers[callerHasPermission(t, "member:read")]

GetMyMembership(t) ==
    Status(GetMyMembershipStatus,
           IF FindActiveMembership("here", t) THEN "success" ELSE "inactive")

Read ==
    \E status \in ListTutorsAnswers \cup
          UNION {{GetRoles(t), GetSettings(t), GetLocation(t), ListInvitations(t),
                  GetMyMembership(t)} \cup ListMembers(t) \cup {GetMember(t, m) : m \in Member} :
                     t \in sessions} :
        Turned(status)

Goto(p, to) ==
    /\ pc' = [pc EXCEPT ![p] = to]
    /\ answer' = NoAnswer

\* A step that only reads.
Look(p, to) ==
    /\ Goto(p, to)
    /\ UNCHANGED <<database, req, seen, current, copy, history>>

\* The handler returns: its variables are gone and its transaction is over.
Leave(p, error, w) ==
    /\ pc' = [pc EXCEPT ![p] = "idle"]
    /\ req' = [req EXCEPT ![p] = NoRequest]
    /\ current' = [current EXCEPT ![p] = "Teacher"]
    /\ copy' = [copy EXCEPT ![p] = Name0]
    /\ Responds(req[p].op, error, w)
    /\ wrote' = [wrote EXCEPT ![p] = FALSE]

Forget(p) ==
    /\ seen' = [seen EXCEPT ![p] = {}]
    /\ overtaken' = [overtaken EXCEPT ![p] = FALSE]

Return(p, error) ==
    /\ Leave(p, error, wrote[p])
    /\ Forget(p)
    /\ UNCHANGED <<database, granted, writes>>

\* The transaction commits, and the handler goes on.
Commit(p) ==
    /\ Written
    /\ wrote' = [wrote EXCEPT ![p] = TRUE]
    /\ UNCHANGED <<req, current, copy>>

\* The requests that are in progress when the row of their caller, m, changes.
Overtaken(m) == [q \in Proc |-> overtaken[q] \/ (Busy(q) /\ req[q].by.member = m)]

NameTaken(n) == \E r \in LiveRoles : roles[r].name = n

-----------------------------------------------------------------------------
\* Row locks, which the statements of an open transaction hold.

HoldsRole(q, r) ==
    /\ pc[q] \in {"updateUnique", "updateDelete", "updatePermissions", "updateCommit",
                  "deleteKeys"}
    /\ req[q].role = r /\ r \in LiveRoles

\* A DELETE, and an UPDATE that changes the name, which is a key, exclude foreign key checks.
HoldsKey(q, r) == HoldsRole(q, r) /\ (pc[q] = "deleteKeys" \/ roles[r].name # req[q].name)

\* A name whose unique index entry an open transaction puts out of use, or in.
HoldsName(q, n) ==
    \/ pc[q] = "createTenant" /\ n = req[q].name
    \/ \E r \in LiveRoles :
          /\ HoldsRole(q, r)
          /\ \/ n = roles[r].name
             \/ pc[q] \notin {"updateUnique", "deleteKeys"} /\ n = req[q].name

HoldsPermissions(q, r) ==
    /\ pc[q] \in {"updateCommit", "deleteRow", "deleteKeys"}
    /\ req[q].role = r /\ seen[q] # {}

WritesMember(q, m) == pc[q] = "memberKey" /\ req[q].member = m

\* A membership, updated or held FOR SHARE.
HoldsMember(q, m) ==
    WritesMember(q, m) \/ (pc[q] \in {"validateTenant", "validateMember"} /\ req[q].to = m)

\* The tenants row, FOR UPDATE and FOR SHARE.
HoldsTenant(q) == pc[q] = "inviteWrite"

SharesTenant(q) == pc[q] = "validateMember"

\* Removed memberships included.
Assigned(r) == \E m \in Member : members[m].role = r

Teaches(m) == m \in Member /\ members[m].active /\ members[m].role = "Teacher"

Others(p) == Proc \ {p}

\* Mutation: the role's row is not updated, and locked, first.
NoRow(p) == {}

RowOf(p) == {q \in Others(p) : HoldsRole(q, req[p].role)}

\* The processes whose transactions the next statement of p waits for.
WaitsFor(p) ==
    CASE pc[p] = "updateRow" -> RowOf(p)
      [] pc[p] = "deleteRow" -> {q \in Others(p) : HoldsRole(q, req[p].role)}
      [] pc[p] \in {"createInsert", "updateUnique"} ->
           {q \in Others(p) : HoldsName(q, req[p].name)}
      [] pc[p] \in {"updatePermissions", "deletePermissions"} ->
           {q \in Others(p) : seen[p] # {} /\ HoldsPermissions(q, req[p].role)}
      [] pc[p] = "deleteKeys" ->
           {q \in Others(p) : /\ ~Assigned(req[p].role)
                              /\ seen[p] = {} /\ HoldsPermissions(q, req[p].role)}
      [] pc[p] \in {"memberWrite", "removeWrite"} ->
           {q \in Others(p) : HoldsMember(q, req[p].member)}
      [] pc[p] \in {"memberKey", "inviteWrite"} ->
           {q \in Others(p) : HoldsKey(q, req[p].role)}
      [] pc[p] = "validateTeacher" ->
           {q \in Others(p) : \/ HoldsRole(q, req[p].role)
                              \/ Teaches(req[p].to) /\ req[p].role = "Teacher"
                                   /\ WritesMember(q, req[p].to)}
      [] pc[p] \in {"validateMember", "validateOther"} ->
           {q \in Others(p) : HoldsMember(q, req[p].to)}
      [] pc[p] \in {"createTenant", "validateTenant"} -> {q \in Others(p) : HoldsTenant(q)}
      [] pc[p] \in {"inviteTenant", "tenantSave"} ->
           {q \in Others(p) : HoldsTenant(q) \/ SharesTenant(q)}
      [] OTHER -> {}

-----------------------------------------------------------------------------
\* Creating a role: the name is looked up, the unique constraint decides.

CreateName(p) ==
    /\ pc[p] = "createName"
    /\ \/ ~NameTaken(req[p].name) /\ Look(p, "createInsert")
       \/ NameTaken(req[p].name) /\ Return(p, "nameExists")

CreateInsert(p) ==
    /\ pc[p] = "createInsert"
    /\ WaitsFor(p) = {}
    /\ \/ ~NameTaken(req[p].name) /\ Look(p, "createTenant")
       \/ NameTaken(req[p].name) /\ Return(p, "database")

\* The foreign key of the new row, which needs its tenant.
CreateTenant(p) ==
    LET r == req[p].role IN
    /\ pc[p] = "createTenant"
    /\ WaitsFor(p) = {}
    /\ Goto(p, "createRead")
    /\ roles' = [roles EXCEPT ![r] =
          [state |-> "live", name |-> req[p].name, perms |-> req[p].perms]]
    /\ granted' = [granted EXCEPT ![r] = req[p].perms]
    /\ Commit(p)
    /\ UNCHANGED <<members, invited, sessions, tenant, taken, seen, overtaken>>

ReadBack(p) == IF req[p].role \in LiveRoles THEN "success" ELSE "notFound"

CreateRead(p) == pc[p] = "createRead" /\ Return(p, ReadBack(p))

\* The guards of a change to a role.
RoleError(r) ==
    IF r \in SystemRole THEN "systemRole" ELSE IF r = "foreign" THEN "foreign" ELSE "notFound"

-----------------------------------------------------------------------------
\* Updating a role: the row, then its permissions, all deleted and inserted again.

UpdateRead(p) ==
    LET r == req[p].role IN
    /\ pc[p] = "updateRead"
    /\ \/ /\ r \in LiveRoles
          /\ Look(p, IF roles[r].name = req[p].name THEN "updateRow" ELSE "updateName")
       \/ r \notin LiveRoles /\ Return(p, RoleError(r))

UpdateName(p) ==
    /\ pc[p] = "updateName"
    /\ \/ ~NameTaken(req[p].name) /\ Look(p, "updateRow")
       \/ NameTaken(req[p].name) /\ Return(p, "nameExists")

\* A role deleted meanwhile is no row to update, which is no error.
UpdateRow(p) ==
    /\ pc[p] = "updateRow"
    /\ WaitsFor(p) = {}
    /\ Look(p, IF req[p].role \in LiveRoles /\ roles[req[p].role].name # req[p].name
            THEN "updateUnique" ELSE "updateDelete")

UpdateUnique(p) ==
    /\ pc[p] = "updateUnique"
    /\ WaitsFor(p) = {}
    /\ \/ ~NameTaken(req[p].name) /\ Look(p, "updateDelete")
       \/ NameTaken(req[p].name) /\ Return(p, "database")

\* A DELETE finds its rows first and waits for those that others are deleting.
Finds(p, to) ==
    /\ Goto(p, to)
    /\ seen' = [seen EXCEPT ![p] = PermissionsOf(req[p].role)]
    /\ UNCHANGED <<database, req, current, copy, history>>

UpdateDelete(p) == pc[p] = "updateDelete" /\ Finds(p, "updatePermissions")

UpdatePermissions(p) ==
    /\ pc[p] = "updatePermissions"
    /\ WaitsFor(p) = {}
    /\ Look(p, "updateCommit")

\* Rows that a committed transaction removed are no longer found by the others.
Replaced(p) ==
    seen' = [q \in Proc |-> IF Busy(q) /\ (q = p \/ (req[q].op \in {"updateRole", "deleteRole"}
                                                      /\ req[q].role = req[p].role))
                            THEN {} ELSE seen[q]]

\* Rows a DELETE did not find stay.  A permission that is there already violates the
\* primary key, one of a deleted role the foreign key.
UpdateCommit(p) ==
    LET r == req[p].role
        kept == PermissionsOf(r) \ seen[p]
    IN
    /\ pc[p] = "updateCommit"
    /\ \/ /\ IF r \in LiveRoles THEN kept \cap req[p].perms # {} ELSE req[p].perms # {}
          /\ Return(p, "database")
       \/ /\ r \in LiveRoles /\ kept \cap req[p].perms = {}
          /\ Goto(p, "updateReadBack")
          /\ roles' = [roles EXCEPT ![r] =
                [state |-> "live", name |-> req[p].name, perms |-> kept \cup req[p].perms]]
          /\ granted' = [granted EXCEPT ![r] = req[p].perms]
          /\ Replaced(p)
          /\ Commit(p)
          /\ UNCHANGED <<members, invited, sessions, tenant, taken, overtaken>>
       \/ /\ r \notin LiveRoles /\ req[p].perms = {}
          /\ Look(p, "updateReadBack")

UpdateReadBack(p) == pc[p] = "updateReadBack" /\ Return(p, ReadBack(p))

-----------------------------------------------------------------------------
\* Deleting a role: its active members are counted before the transaction.

DeleteRead(p) ==
    /\ pc[p] = "deleteRead"
    /\ \/ req[p].role \in LiveRoles /\ Look(p, "deleteCount")
       \/ req[p].role \notin LiveRoles /\ Return(p, RoleError(req[p].role))

ActiveMembers(r) == {m \in Member : members[m].active /\ members[m].role = r}

DeleteCount(p) ==
    /\ pc[p] = "deleteCount"
    /\ \/ ActiveMembers(req[p].role) = {} /\ Look(p, "deleteDelete")
       \/ ActiveMembers(req[p].role) # {} /\ Return(p, "assigned")

DeleteDelete(p) == pc[p] = "deleteDelete" /\ Finds(p, "deletePermissions")

DeletePermissions(p) ==
    /\ pc[p] = "deletePermissions"
    /\ WaitsFor(p) = {}
    /\ Look(p, "deleteRow")

\* Mutation: the foreign keys cascade or are not there.
Unreferenced(p) == FALSE

\* Foreign keys: of permissions this DELETE did not find, of every membership, removed
\* ones included, and of every invitation.
Referenced(p) ==
    \/ PermissionsOf(req[p].role) \ seen[p] # {}
    \/ Assigned(req[p].role)
    \/ req[p].role \in invited

\* Of a role that is gone already no row is deleted, which is no error.
DeleteRow(p) ==
    /\ pc[p] = "deleteRow"
    /\ WaitsFor(p) = {}
    /\ \/ req[p].role \in LiveRoles /\ Look(p, "deleteKeys")
       \/ req[p].role \notin LiveRoles /\ Return(p, "success")

\* The foreign keys are checked: of the memberships first, then of the permissions, where
\* those that another deletion holds are waited for.
DeleteKeys(p) ==
    LET r == req[p].role IN
    /\ pc[p] = "deleteKeys"
    /\ WaitsFor(p) = {}
    /\ IF Referenced(p) THEN Return(p, "database")
       ELSE /\ roles' = [roles EXCEPT ![r] = Vacant("deleted")]
            /\ granted' = [granted EXCEPT ![r] = {}]
            /\ Leave(p, "success", TRUE)
            /\ Replaced(p)
            /\ overtaken' = [overtaken EXCEPT ![p] = FALSE]
            /\ Written
            /\ UNCHANGED <<members, invited, sessions, tenant, taken>>

-----------------------------------------------------------------------------
\* Changing a member's role: membership, new role and old one are read without a lock.

Own(p) == isOwnMembership(req[p].by, req[p].member)

MemberRead(p) ==
    LET m == members[req[p].member] IN
    /\ pc[p] = "memberRead"
    /\ \/ /\ m.active /\ ~Own(p)
          /\ Goto(p, "memberRole")
          /\ current' = [current EXCEPT ![p] = m.role]
          /\ UNCHANGED <<database, req, seen, copy, history>>
       \/ ~m.active /\ Return(p, "notFound")
       \/ m.active /\ Own(p) /\ Return(p, "self")

GrantError(p) ==
    IF req[p].role \notin ExistingRoles THEN "roleConflict"
    ELSE IF isSystemCreatorRole(req[p].role) THEN "creatorGrant"
    ELSE IF current[p] \notin ExistingRoles THEN "database"
    ELSE IF isSystemCreatorRole(current[p]) THEN "roleForbidden"
    ELSE "success"

MemberRole(p) ==
    /\ pc[p] = "memberRole"
    /\ \/ GrantError(p) = "success" /\ Look(p, "memberWrite")
       \/ GrantError(p) # "success" /\ Return(p, GrantError(p))

\* A membership removed meanwhile is no row to update.
MemberWrite(p) ==
    /\ pc[p] = "memberWrite"
    /\ WaitsFor(p) = {}
    /\ Look(p, IF members[req[p].member].active THEN "memberKey" ELSE "memberReadBack")

\* A role deleted meanwhile violates the foreign key.  The member can then log in with the
\* new role.
MemberKey(p) ==
    LET m == req[p].member
        r == req[p].role
    IN
    /\ pc[p] = "memberKey"
    /\ WaitsFor(p) = {}
    /\ \/ r \notin ExistingRoles /\ Return(p, "database")
       \/ /\ r \in ExistingRoles
          /\ Goto(p, "memberReadBack")
          /\ members' = [members EXCEPT ![m].role = r]
          /\ sessions' = sessions \cup {[member |-> m, role |-> r]}
          /\ Commit(p)
          /\ overtaken' = Overtaken(m)
          /\ UNCHANGED <<roles, invited, tenant, taken, seen, granted>>

MemberReadBack(p) ==
    /\ pc[p] = "memberReadBack"
    /\ Return(p, IF members[req[p].member].active THEN "success" ELSE "notFound")

-----------------------------------------------------------------------------
\* Removing a member.

\* Mutation: members may remove themselves.
RemoveErrorOfOthers(p) ==
    IF members[req[p].member].active THEN "success" ELSE "notFound"

RemoveError(p) ==
    IF Own(p) THEN "self"
    ELSE IF members[req[p].member].active THEN "success" ELSE "notFound"

RemoveRead(p) ==
    /\ pc[p] = "removeRead"
    /\ \/ RemoveError(p) = "success" /\ Look(p, "removeWrite")
       \/ RemoveError(p) # "success" /\ Return(p, RemoveError(p))

RemoveWrite(p) ==
    LET m == req[p].member IN
    /\ pc[p] = "removeWrite"
    /\ WaitsFor(p) = {}
    /\ IF ~members[m].active THEN Return(p, "notFound")
       ELSE /\ members' = [members EXCEPT ![m].active = FALSE]
            /\ Leave(p, "success", TRUE)
            /\ overtaken' = [Overtaken(m) EXCEPT ![p] = FALSE]
            /\ Written
            /\ UNCHANGED <<roles, invited, sessions, tenant, taken, seen, granted>>

-----------------------------------------------------------------------------
\* Inviting, of which only the role matters here (Membership has the rest).

InviteError(r) ==
    IF r \notin ExistingRoles THEN "roleInvalid"
    ELSE IF isSystemCreatorRole(r) THEN "creatorGrant" ELSE "success"

\* Whose email is of no account is not validated.
InviteRole(p) ==
    LET e == InviteError(req[p].role) IN
    /\ pc[p] = "inviteRole"
    /\ \/ e = "success" /\ Look(p, "validateTeacher")
       \/ e = "success" /\ req[p].to \notin Member /\ Look(p, "inviteTenant")
       \/ e # "success" /\ Return(p, e)

\* Role and Teacher membership are locked FOR SHARE, of whichever tenant is found first.
ValidateTeacher(p) ==
    LET r == req[p].role
        m == req[p].to
    IN
    /\ pc[p] = "validateTeacher"
    /\ \/ r # "Teacher" /\ WaitsFor(p) = {}
          /\ Return(p, IF r \in ExistingRoles THEN "existingTeacher" ELSE "database")
       \/ r = "Teacher" /\ Teaches(m) /\ WaitsFor(p) = {} /\ Look(p, "validateTenant")
       \/ r = "Teacher" /\ Look(p, "validateOther")
       \/ r = "Teacher" /\ ~Teaches(m) /\ Return(p, "existingTeacher")

ValidateTenant(p) ==
    /\ pc[p] = "validateTenant"
    /\ WaitsFor(p) = {}
    /\ Look(p, "validateMember")

\* A membership of this tenant is locked FOR UPDATE, and ends it.
ValidateMember(p) ==
    /\ pc[p] \in {"validateMember", "validateOther"}
    /\ WaitsFor(p) = {}
    /\ \/ req[p].to \notin Member /\ Look(p, "inviteTenant")
       \/ /\ req[p].to \in Member
          /\ Return(p, IF members[req[p].to].active THEN "already" ELSE "inactive")

InviteTenant(p) ==
    /\ pc[p] = "inviteTenant"
    /\ WaitsFor(p) = {}
    /\ Look(p, "inviteWrite")

InviteWrite(p) ==
    LET r == req[p].role IN
    /\ pc[p] = "inviteWrite"
    /\ WaitsFor(p) = {}
    /\ IF r \notin ExistingRoles THEN Return(p, "database")
       ELSE /\ invited' = invited \cup {r}
            /\ Leave(p, "success", TRUE)
            /\ Forget(p)
            /\ Written
            /\ UNCHANGED <<roles, members, sessions, tenant, taken, granted>>

-----------------------------------------------------------------------------
\* Profile and location: the row is read, changed and saved as a whole.

TenantRead(p) ==
    /\ pc[p] = "tenantRead"
    /\ Goto(p, IF req[p].op = "settings" THEN "settingsName" ELSE "geocode")
    /\ copy' = [copy EXCEPT ![p] = tenant]
    /\ UNCHANGED <<database, req, seen, current, history>>

SettingsName(p) ==
    /\ pc[p] = "settingsName"
    /\ \/ req[p].name \notin taken /\ Look(p, "tenantSave")
       \/ req[p].name \in taken /\ Return(p, "nameExists")

\* Coordinates come with the request or from the maps service, which is asked twice at
\* most and may be disabled, unreachable or without a result.
Geocode(p) ==
    /\ pc[p] = "geocode"
    /\ \/ Look(p, "tenantSave")
       \/ Return(p, "geocode")

Saved(p) == IF req[p].op = "settings" THEN req[p].name ELSE copy[p]

TenantSave(p) ==
    /\ pc[p] = "tenantSave"
    /\ WaitsFor(p) = {}
    /\ IF Saved(p) \in taken THEN Return(p, "database")
       ELSE /\ tenant' = Saved(p)
            /\ UNCHANGED <<roles, members, invited, sessions, taken, granted>>
            /\ \/ /\ req[p].op = "settings"
                  /\ Leave(p, "success", TRUE)
                  /\ Forget(p)
                  /\ Written
               \/ /\ req[p].op = "location"
                  /\ Goto(p, "locationReadBack")
                  /\ Commit(p)
                  /\ UNCHANGED <<seen, overtaken>>

LocationReadBack(p) == pc[p] = "locationReadBack" /\ Return(p, "success")

-----------------------------------------------------------------------------
\* Another tenant registers with a name, or takes it.
OtherTenant(n) ==
    /\ n # tenant /\ n \notin taken
    /\ BelowBound
    /\ Written
    /\ taken' = taken \cup {n}
    /\ answer' = NoAnswer
    /\ UNCHANGED <<roles, members, invited, sessions, tenant, pc, req, seen, current, copy,
                   wrote, overtaken, granted>>

\* An error of the database or a cancelled request: the open transaction rolls back.
Fail(p) == Busy(p) /\ Return(p, "database")

\* The same for a victim of a deadlock of two, which PostgreSQL always finds.  (Larger ones
\* end in a Fail.)
Victim(p) == (\E q \in WaitsFor(p) : p \in WaitsFor(q)) /\ Return(p, "database")

Roles(p) ==
    \/ CreateName(p) \/ CreateInsert(p) \/ CreateTenant(p) \/ CreateRead(p)
    \/ UpdateRead(p) \/ UpdateName(p) \/ UpdateRow(p) \/ UpdateUnique(p) \/ UpdateDelete(p)
    \/ UpdatePermissions(p) \/ UpdateCommit(p) \/ UpdateReadBack(p)
    \/ DeleteRead(p) \/ DeleteCount(p) \/ DeleteDelete(p) \/ DeletePermissions(p) \/ DeleteRow(p)
    \/ DeleteKeys(p)

Members(p) ==
    \/ MemberRead(p) \/ MemberRole(p) \/ MemberWrite(p) \/ MemberKey(p) \/ MemberReadBack(p)
    \/ RemoveRead(p) \/ RemoveWrite(p)
    \/ InviteRole(p) \/ ValidateTeacher(p) \/ ValidateTenant(p) \/ ValidateMember(p)
    \/ InviteTenant(p) \/ InviteWrite(p)

Profile(p) ==
    \/ TenantRead(p) \/ SettingsName(p) \/ Geocode(p) \/ TenantSave(p) \/ LocationReadBack(p)

Proceed(p) == Roles(p) \/ Members(p) \/ Profile(p)

Next ==
    \/ \E p \in Proc : \/ Begin(p) \/ Proceed(p) \/ Fail(p) \/ Victim(p)
    \/ Denied \/ Malformed \/ NoMember \/ Read
    \/ \E n \in TenantName : OtherTenant(n)

Spec == Init /\ [][Next]_vars

-----------------------------------------------------------------------------
\* Properties.

\* A role carries exactly the permissions of the last update or creation that was
\* committed, whatever updates and deletions ran beside it: permissions of two requests
\* are never mixed (UpdateRoleTx).
PermissionsOfLastUpdate == \A r \in RoleId : roles[r].perms = granted[r]

\* No membership, removed or not, and no invitation refers to a role that was deleted,
\* although the members are counted before the deletion and the role is looked up before
\* it is assigned (DeleteCustomRole, UpdateRole, CreateInvitation).
AssignedRolesExist ==
    /\ \A m \in Member : members[m].role \in ExistingRoles
    /\ invited \subseteq ExistingRoles

\* The listing of the members shows every member on exactly one page, whatever it is sorted
\* by, in full pages but the last (memberRepository.List, KEL-165).
PagesPartitionMembers ==
    LET rows == Bystanders + Cardinality({m \in Member : members[m].active})
    IN  rows <= MaxRows => AlwaysPartitioned[rows]

Commits(p) ==
    \/ wrote'[p] /\ ~wrote[p]
    \/ Busy(p) /\ ~Busy(p)' /\ answer'.wrote /\ ~wrote[p]

\* A token signed for a membership that was removed, or for a role the member was moved
\* away from, changes nothing any more, except through a request that had passed its
\* permission check when that was committed (callerHasPermission, KEL-76).
StaleTokensChangeNothing ==
    [][\A p \in Proc : Commits(p) =>
          LET m == members[req[p].by.member]
          IN  (m.active /\ m.role = req[p].by.role) \/ overtaken[p]]_vars

Empty == \A m \in Member : ~members[m].active

\* The last member of a tenant is only lost when members remove each other at the same
\* time: nobody removes their own membership, and who was removed removes nobody
\* (memberUsecase.Delete, KEL-81).
LastMemberOnlyByCrossing ==
    [][Empty' /\ ~Empty => \E p \in Proc : RemoveWrite(p) /\ overtaken[p]]_vars

\* The answer tells what was done: a request that is answered as refused wrote nothing,
\* unless its change was committed and what it changed was removed before it was read
\* back; one that is answered as done was done, or its role was deleted by another.
AnswersTellOutcome ==
    [][ /\ answer'.status \in 400..409 /\ answer'.wrote =>
               answer'.status = 404 /\ answer'.op \in {"updateRole", "updateMemberRole"}
        /\ answer'.status \in {200, 201} /\ answer'.op # "other" =>
               answer'.wrote \/ answer'.op = "deleteRole" ]_vars

Register == INSTANCE TenantRegister WITH done <- wrote

\* Requests that were permitted seem to run one after the other: each of them changes roles,
\* memberships and invitations once at most, in one instant and exactly as asked, and only if
\* at that instant they allow it: an id and a name nobody has, a role nothing refers to, a
\* member other than the caller and the Creators, a role that exists and is not the Creator's.
ImplementsRegister == Register!Spec
=============================================================================
