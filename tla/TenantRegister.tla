--------------------------- MODULE TenantRegister ---------------------------
(***************************************************************************)
(* What the administration of a tenant promises: every request that was    *)
(* permitted takes effect once at most, at one instant and exactly as it   *)
(* was asked, and only if the rows it is about allow it at that instant.   *)
(* Requests seem to run one after the other, however their statements are  *)
(* interleaved (TenantAdministration, whose req and wrote these are).      *)
(***************************************************************************)
EXTENDS AccessControl

CONSTANTS
    Proc,          \* request goroutines
    Request        \* what can be asked for

VARIABLES
    invited,       \* roles that tenant_invitations rows refer to
    req,           \* the request a process answers
    done           \* has it taken effect?

vars == <<roles, members, invited, req, done>>

NoRequest == [op |-> "none"]

Init ==
    /\ roles \in [RoleId -> Role] /\ NamesDiffer
    /\ members \in [Member -> [active: BOOLEAN, role: ExistingRoles]]
    /\ invited = {}
    /\ req = [p \in Proc |-> NoRequest]
    /\ done = [p \in Proc |-> FALSE]

-----------------------------------------------------------------------------
\* The effects of a request r.

Assignable == ExistingRoles \ {"Creator"}

Free(name, r) == \A s \in LiveRoles \ {r} : roles[s].name # name

Carries(r, q) == roles' = [roles EXCEPT ![r] =
                      [state |-> "live", name |-> q.name, perms |-> q.perms]]

CreateRole(r) ==
    /\ r.op = "createRole"
    /\ r.role \in RoleId /\ roles[r.role].state = "unused" /\ Free(r.name, r.role)
    /\ Carries(r.role, r)
    /\ UNCHANGED <<members, invited>>

UpdateRole(r) ==
    /\ r.op = "updateRole"
    /\ r.role \in LiveRoles /\ Free(r.name, r.role)
    /\ Carries(r.role, r)
    /\ UNCHANGED <<members, invited>>

DeleteRole(r) ==
    /\ r.op = "deleteRole"
    /\ r.role \in LiveRoles \ invited
    /\ \A m \in Member : members[m].role # r.role
    /\ roles' = [roles EXCEPT ![r.role] = Vacant("deleted")]
    /\ UNCHANGED <<members, invited>>

UpdateMemberRole(r) ==
    /\ r.op = "updateMemberRole"
    /\ members[r.member].active /\ ~isOwnMembership(r.by, r.member)
    /\ members[r.member].role \in Assignable /\ r.role \in Assignable
    /\ members' = [members EXCEPT ![r.member].role = r.role]
    /\ UNCHANGED <<roles, invited>>

DeleteMember(r) ==
    /\ r.op = "deleteMember"
    /\ members[r.member].active /\ ~isOwnMembership(r.by, r.member)
    /\ members' = [members EXCEPT ![r.member].active = FALSE]
    /\ UNCHANGED <<roles, invited>>

Invite(r) ==
    /\ r.op = "invite"
    /\ r.role \in Assignable
    /\ invited' = invited \cup {r.role}
    /\ UNCHANGED <<roles, members>>

\* The profile and the location are in other rows.
Elsewhere(r) == r.op \in {"settings", "location"} /\ UNCHANGED <<roles, members, invited>>

Effect(r) ==
    \/ CreateRole(r) \/ UpdateRole(r) \/ DeleteRole(r) \/ UpdateMemberRole(r)
    \/ DeleteMember(r) \/ Invite(r) \/ Elsewhere(r)

-----------------------------------------------------------------------------

Admit(p) ==
    LET r == req'[p] IN
    /\ req[p] = NoRequest /\ r \in Request
    /\ callerHasPermission(r.by, Needed(r.op))
    /\ req' = [req EXCEPT ![p] = r]
    /\ UNCHANGED <<roles, members, invited, done>>

Close(p) ==
    /\ req' = [req EXCEPT ![p] = NoRequest]
    /\ done' = [done EXCEPT ![p] = FALSE]

\* The answer may come with the effect or later, or without one.
Apply(p) ==
    /\ ~done[p]
    /\ Effect(req[p])
    /\ \/ done' = [done EXCEPT ![p] = TRUE] /\ UNCHANGED req
       \/ Close(p)

Answer(p) == req[p] # NoRequest /\ Close(p) /\ UNCHANGED <<roles, members, invited>>

Next == \E p \in Proc : Admit(p) \/ Apply(p) \/ Answer(p)

Spec == Init /\ [][Next]_vars
=============================================================================
