-------------------- MODULE TenantAdministration_proofs --------------------
(***************************************************************************)
(* Proofs about TenantAdministration, for any number of requests, members, *)
(* custom roles and names.                                                 *)
(*                                                                         *)
(* Handlers read, and write what they decided in a later statement.  Knows *)
(* says what is still so when they write: by a row lock (of roles), by a   *)
(* foreign key, or because nobody ever takes it back (Progress).           *)
(***************************************************************************)
EXTENDS TenantAdministration, MemberListing_proofs, TLAPS

-----------------------------------------------------------------------------
(***************************************************************************)
(* Types of the parts.                                                     *)
(***************************************************************************)

LEMMA StatusIsNat == \A op, error : Status(Table(op), error) \in Nat
<1> SUFFICES ASSUME NEW op, NEW error PROVE Status(Table(op), error) \in Nat
  OBVIOUS
<1>1. CASE error \notin DOMAIN Table(op)
  BY <1>1 DEF Status
<1>2. CASE error \in DOMAIN Table(op)
  <2>1. Table(op) \in {CreateRoleStatus, UpdateRoleStatus, DeleteRoleStatus,
                       UpdateMemberRoleStatus, DeleteMemberStatus, CreateInvitationStatus,
                       UpdateSettingsStatus, UpdateLocationStatus}
    BY DEF Table
  <2>2. \A e \in DOMAIN CreateRoleStatus : CreateRoleStatus[e] \in Nat
    BY DEF CreateRoleStatus
  <2>3. \A e \in DOMAIN UpdateRoleStatus : UpdateRoleStatus[e] \in Nat
    BY DEF UpdateRoleStatus
  <2>4. \A e \in DOMAIN DeleteRoleStatus : DeleteRoleStatus[e] \in Nat
    BY DEF DeleteRoleStatus
  <2>5. \A e \in DOMAIN UpdateMemberRoleStatus : UpdateMemberRoleStatus[e] \in Nat
    BY DEF UpdateMemberRoleStatus
  <2>6. \A e \in DOMAIN DeleteMemberStatus : DeleteMemberStatus[e] \in Nat
    BY DEF DeleteMemberStatus
  <2>7. \A e \in DOMAIN CreateInvitationStatus : CreateInvitationStatus[e] \in Nat
    BY DEF CreateInvitationStatus
  <2>8. \A e \in DOMAIN UpdateSettingsStatus : UpdateSettingsStatus[e] \in Nat
    BY DEF UpdateSettingsStatus
  <2>9. \A e \in DOMAIN UpdateLocationStatus : UpdateLocationStatus[e] \in Nat
    BY DEF UpdateLocationStatus
  <2> QED
    BY <1>2, <2>1, <2>2, <2>3, <2>4, <2>5, <2>6, <2>7, <2>8, <2>9 DEF Status
<1> QED
  BY <1>1, <1>2

AnswerOK == answer.status \in Nat /\ answer.wrote \in BOOLEAN

LEMMA RespondsType ==
    ASSUME NEW op, NEW error, NEW w \in BOOLEAN, Responds(op, error, w)
    PROVE  AnswerOK'
BY StatusIsNat DEF Responds, AnswerOK

LEMMA NoAnswerType == ASSUME answer' = NoAnswer PROVE AnswerOK'
BY DEF NoAnswer, AnswerOK

\* What a request carries.
LEMMA RequestFields ==
    ASSUME NEW r \in Request
    PROVE  /\ r.by \in Token /\ r.by.member \in Member
           /\ r.op \in {"createRole", "updateRole"} =>
                r.role \in RoleArgument /\ r.name \in Name /\ r.perms \in Grants
           /\ r.op \in {"deleteRole", "invite"} => r.role \in RoleArgument
           /\ r.op = "invite" => r.to \in Invitee
           /\ r.op = "updateMemberRole" => r.member \in Member /\ r.role \in RoleArgument
           /\ r.op = "deleteMember" => r.member \in Member
           /\ r.op = "settings" => r.name \in TenantName
BY DEF Request, RequestBy, Token

LEMMA RequestOps ==
    ASSUME NEW r \in Request
    PROVE  r.op \in Op /\ r # NoRequest /\ r.op # "none"
BY DEF Request, RequestBy, NoRequest, Op

LEMMA RequestOfSession ==
    ASSUME TypeOK, NEW r \in RequestBy(sessions)
    PROVE  r \in Request /\ r.by \in sessions
BY DEF TypeOK, Request, RequestBy

LEMMA NameZero == Name0 \in TenantName
BY AdministrationAssumption DEF Name0

LEMMA VacantType == \A state \in {"unused", "deleted"} : Vacant(state) \in Role
BY AccessAssumption DEF Vacant, Role

LEMMA PermissionsType == ASSUME TypeOK, NEW r PROVE PermissionsOf(r) \subseteq Permission
BY DEF TypeOK, Role, PermissionsOf, SystemGrants

LEMMA ExistingType == ExistingRoles \subseteq AnyRole
BY DEF ExistingRoles, LiveRoles, AnyRole

\* The variables of the handlers.
LocalsOK ==
    /\ pc \in [Proc -> Step]
    /\ req \in [Proc -> Request \cup {NoRequest}]
    /\ seen \in [Proc -> SUBSET Permission]
    /\ current \in [Proc -> AnyRole]
    /\ copy \in [Proc -> TenantName]
    /\ wrote \in [Proc -> BOOLEAN]
    /\ overtaken \in [Proc -> BOOLEAN]

LEMMA LookType ==
    ASSUME TypeOK, NEW p \in Proc, NEW to \in Step, Look(p, to)
    PROVE  TypeOK'
<1>1. AnswerOK'
  BY NoAnswerType DEF Look, Goto
<1> QED
  BY <1>1 DEF Look, Goto, TypeOK, AnswerOK, database, history

\* A handler that leaves.
LEMMA LeaveType ==
    ASSUME TypeOK, NEW p \in Proc, NEW error, NEW w \in BOOLEAN, Leave(p, error, w)
    PROVE  /\ pc' \in [Proc -> Step]
           /\ req' \in [Proc -> Request \cup {NoRequest}]
           /\ current' \in [Proc -> AnyRole]
           /\ copy' \in [Proc -> TenantName]
           /\ wrote' \in [Proc -> BOOLEAN]
           /\ AnswerOK'
<1>1. AnswerOK'
  BY RespondsType DEF Leave
<1> QED
  BY <1>1, NameZero DEF Leave, TypeOK, Step, AnyRole, SystemRole

LEMMA ForgetType ==
    ASSUME TypeOK, NEW p \in Proc, Forget(p)
    PROVE  seen' \in [Proc -> SUBSET Permission] /\ overtaken' \in [Proc -> BOOLEAN]
BY DEF TypeOK, Forget

LEMMA ReturnType ==
    ASSUME TypeOK, NEW p \in Proc, NEW error, Return(p, error)
    PROVE  TypeOK'
<1>1. wrote[p] \in BOOLEAN
  BY DEF TypeOK
<1>2. Leave(p, error, wrote[p]) /\ Forget(p) /\ UNCHANGED <<database, granted, writes>>
  BY DEF Return
<1> QED
  BY <1>1, <1>2, LeaveType, ForgetType DEF TypeOK, AnswerOK, database

-----------------------------------------------------------------------------
(***************************************************************************)
(* The inductive invariant.                                                *)
(***************************************************************************)

CreateStep == {"createName", "createInsert", "createTenant", "createRead"}
UpdateStep == {"updateRead", "updateName", "updateRow", "updateUnique", "updateDelete",
               "updatePermissions", "updateCommit", "updateReadBack"}
DeleteStep == {"deleteRead", "deleteCount", "deleteDelete", "deletePermissions", "deleteRow",
               "deleteKeys"}
MemberStep == {"memberRead", "memberRole", "memberWrite", "memberKey", "memberReadBack"}
RemoveStep == {"removeRead", "removeWrite"}
InviteStep == {"inviteRole", "validateTeacher", "validateTenant", "validateMember",
               "validateOther", "inviteTenant", "inviteWrite"}
ProfileStep == {"tenantRead", "settingsName", "geocode", "tenantSave", "locationReadBack"}

\* The steps in which an update or a deletion has locked the row of its role.
LockedStep == {"updateUnique", "updateDelete", "updatePermissions", "updateCommit",
               "deleteKeys"}

\* The steps before the insert of a new role.
UnusedStep == {"createName", "createInsert", "createTenant"}

\* The steps after a commit, at which nothing is left but to answer.
LastStep == {"createRead", "updateReadBack", "memberReadBack", "locationReadBack"}

\* The request a step belongs to.
Serves(p) ==
    /\ pc[p] = "idle" => req[p] = NoRequest
    /\ pc[p] # "idle" => req[p] \in Request
    /\ pc[p] \in CreateStep => req[p].op = "createRole"
    /\ pc[p] \in UpdateStep => req[p].op = "updateRole"
    /\ pc[p] \in DeleteStep => req[p].op = "deleteRole"
    /\ pc[p] \in MemberStep => req[p].op = "updateMemberRole"
    /\ pc[p] \in RemoveStep => req[p].op = "deleteMember"
    /\ pc[p] \in InviteStep => req[p].op = "invite"
    /\ pc[p] \in ProfileStep => req[p].op \in {"settings", "location"}
    /\ pc[p] = "settingsName" => req[p].op = "settings"
    /\ pc[p] \in {"geocode", "locationReadBack"} => req[p].op = "location"

\* What it knows of the role it is about.
KnowsRole(p) ==
    /\ pc[p] \in CreateStep => req[p].role \in RoleId
    /\ pc[p] \in UnusedStep => roles[req[p].role].state = "unused"
    /\ pc[p] = "deleteKeys" => req[p].role \in LiveRoles
    /\ pc[p] \in UpdateStep \ {"updateRead"} =>
         req[p].role \in RoleId /\ roles[req[p].role].state # "unused"
    /\ pc[p] \in {"updatePermissions", "updateCommit"} /\ req[p].role \in LiveRoles =>
         seen[p] = roles[req[p].role].perms

\* The caller may still do it, or could when it was allowed to.
KnowsCaller(p) ==
    pc[p] # "idle" =>
        LET m == members[req[p].by.member] IN (m.active /\ m.role = req[p].by.role) \/ overtaken[p]

\* What it has written.
KnowsWritten(p) ==
    /\ wrote[p] => pc[p] \in LastStep
    /\ pc[p] \in {"createRead", "locationReadBack"} => wrote[p]
    /\ pc[p] = "updateReadBack" => wrote[p] \/ req[p].role \notin LiveRoles
    /\ pc[p] = "memberReadBack" => wrote[p] \/ ~members[req[p].member].active

Knows(p) ==
    /\ Serves(p) /\ KnowsRole(p) /\ KnowsCaller(p) /\ KnowsWritten(p)
    /\ pc[p] = "removeWrite" => ~Own(p)
    /\ pc[p] = "memberKey" => members[req[p].member].active

\* Two requests never create a role with the same id.
DistinctIds ==
    \A p, q \in Proc :
        p # q /\ req[p].op = "createRole" /\ req[q].op = "createRole" => req[p].role # req[q].role

\* The row of a role is locked by one update or deletion at a time.
LockedOnce ==
    \A p, q \in Proc :
        p # q /\ pc[p] \in LockedStep /\ pc[q] \in LockedStep /\ req[p].role = req[q].role =>
            req[p].role \notin LiveRoles

IInv ==
    /\ TypeOK
    /\ AssignedRolesExist
    /\ PermissionsOfLastUpdate
    /\ \A p \in Proc : Knows(p)
    /\ DistinctIds
    /\ LockedOnce

-----------------------------------------------------------------------------
(***************************************************************************)
(* What a step leaves alone.                                               *)
(***************************************************************************)

\* Of a handler that does not take the step, and of the rows it relies on.
Stable(q) ==
    /\ pc'[q] = pc[q] /\ req'[q] = req[q] /\ wrote'[q] = wrote[q]
    /\ overtaken[q] => overtaken'[q]
    /\ pc[q] # "idle" =>
         members'[req[q].by.member] = members[req[q].by.member] \/ overtaken'[q]
    /\ pc[q] \in UnusedStep => roles'[req[q].role] = roles[req[q].role]
    /\ pc[q] = "memberKey" =>
         members'[req[q].member].active = members[req[q].member].active
    /\ pc[q] \in LockedStep /\ req[q].role \in LiveRoles =>
         roles'[req[q].role] = roles[req[q].role] /\ seen'[q] = seen[q]

\* What nobody takes back: an id that was given out, a deletion, a removal.
Progress ==
    /\ \A r \in RoleId : /\ roles[r].state # "unused" => roles'[r].state # "unused"
                         /\ roles[r].state = "deleted" => roles'[r].state = "deleted"
    /\ \A m \in Member : ~members[m].active => ~members'[m].active

\* A role that was in use and is live was live.
LEMMA LiveBefore ==
    ASSUME TypeOK, Progress, NEW r \in RoleId, roles[r].state # "unused", r \in LiveRoles'
    PROVE  r \in LiveRoles
BY DEF TypeOK, Role, Progress, LiveRoles

LEMMA LockedKnows ==
    ASSUME NEW q, Knows(q), pc[q] \in LockedStep
    PROVE  req[q].role \in RoleId /\ roles[req[q].role].state # "unused"
BY DEF Knows, KnowsRole, LockedStep, UpdateStep, LiveRoles

LEMMA KnowsStable ==
    ASSUME TypeOK, NEW q \in Proc, Knows(q), Stable(q), Progress
    PROVE  Knows(q)'
<1>1. pc'[q] = pc[q] /\ req'[q] = req[q] /\ wrote'[q] = wrote[q]
  BY DEF Stable
<1>2. Serves(q)'
  BY <1>1 DEF Knows, Serves
<1>3. KnowsRole(q)'
  <2>1. pc[q] \in CreateStep => req[q].role \in RoleId
    BY DEF Knows, KnowsRole
  <2>2. pc[q] \in UnusedStep => roles'[req[q].role].state = "unused"
    BY DEF Knows, KnowsRole, Stable
  <2>3. pc[q] = "deleteKeys" => req[q].role \in LiveRoles'
    BY DEF Knows, KnowsRole, Stable, LockedStep, LiveRoles
  <2>4. pc[q] \in UpdateStep \ {"updateRead"} =>
           req[q].role \in RoleId /\ roles'[req[q].role].state # "unused"
    BY DEF Knows, KnowsRole, Progress
  <2>5. ASSUME pc[q] \in {"updatePermissions", "updateCommit"}, req[q].role \in LiveRoles'
        PROVE  seen'[q] = roles'[req[q].role].perms
    <3>1. req[q].role \in LiveRoles
      BY <2>5, LockedKnows, LiveBefore DEF LockedStep
    <3> QED
      BY <2>5, <3>1 DEF Knows, KnowsRole, Stable, LockedStep
  <2> QED
    BY <1>1, <2>1, <2>2, <2>3, <2>4, <2>5 DEF KnowsRole, LiveRoles
<1>4. KnowsCaller(q)'
  BY <1>1 DEF Knows, KnowsCaller, Stable
<1>5. KnowsWritten(q)'
  <2>1. ASSUME pc[q] = "updateReadBack", ~wrote[q] PROVE req[q].role \notin LiveRoles'
    <3>1. /\ req[q].role \in RoleId /\ roles[req[q].role].state # "unused"
          /\ req[q].role \notin LiveRoles
      BY <2>1 DEF Knows, KnowsRole, KnowsWritten, UpdateStep
    <3> QED
      BY <3>1, LiveBefore
  <2>2. ASSUME pc[q] = "memberReadBack", ~wrote[q] PROVE ~members'[req[q].member].active
    <3>1. req[q].member \in Member /\ ~members[req[q].member].active
      BY <2>2, RequestFields DEF Knows, KnowsWritten, Serves, MemberStep
    <3> QED
      BY <3>1 DEF Progress
  <2> QED
    BY <1>1, <2>1, <2>2 DEF Knows, KnowsWritten, LiveRoles
<1>6. pc[q] = "removeWrite" => ~Own(q)'
  BY <1>1 DEF Knows, Own, isOwnMembership
<1>7. pc[q] = "memberKey" => members'[req[q].member].active
  BY DEF Knows, Stable
<1> QED
  BY <1>1, <1>2, <1>3, <1>4, <1>5, <1>6, <1>7 DEF Knows

\* A step of p keeps the invariant if it keeps what is said of p and of the rows.
LEMMA StepKeeps ==
    ASSUME IInv, TypeOK', AssignedRolesExist', PermissionsOfLastUpdate', Progress,
           NEW p \in Proc, \A q \in Proc \ {p} : Stable(q), Knows(p)',
           \/ req'[p] = req[p]
           \/ req'[p].op # "createRole"
           \/ \A q \in Proc \ {p} : req[q].op = "createRole" => req[q].role # req'[p].role,
           pc'[p] \in LockedStep =>
              /\ req'[p] = req[p]
              /\ \/ pc[p] \in LockedStep
                 \/ \A q \in Proc \ {p} : ~HoldsRole(q, req[p].role)
    PROVE  IInv'
<1>1. \A q \in Proc : Knows(q)'
  BY KnowsStable DEF IInv
<1>2. DistinctIds'
  BY DEF IInv, DistinctIds, Stable
<1>3. LockedOnce'
  <2> SUFFICES ASSUME NEW q \in Proc, NEW r \in Proc, q # r, pc'[q] \in LockedStep,
                      pc'[r] \in LockedStep, req'[q].role = req'[r].role,
                      req'[q].role \in LiveRoles'
               PROVE  FALSE
    BY DEF LockedOnce, LiveRoles
  <2>1. ASSUME NEW s \in Proc \ {p}, pc'[s] \in LockedStep, req'[s].role \in LiveRoles'
        PROVE  pc[s] \in LockedStep /\ req'[s] = req[s] /\ req[s].role \in LiveRoles
    <3>1. pc[s] \in LockedStep /\ req'[s] = req[s]
      BY <2>1 DEF Stable
    <3> QED
      BY <2>1, <3>1, LockedKnows, LiveBefore DEF IInv
  <2>2. ASSUME NEW s \in Proc \ {p}, pc'[s] \in LockedStep, pc'[p] \in LockedStep,
               req'[s].role = req'[p].role, req'[s].role \in LiveRoles'
        PROVE  FALSE
    <3>1. pc[s] \in LockedStep /\ req'[s] = req[s] /\ req[s].role \in LiveRoles
      BY <2>1, <2>2
    <3>2. req'[p] = req[p] /\ req[p].role = req[s].role
      BY <2>2, <3>1
    <3>3. HoldsRole(s, req[p].role)
      BY <3>1, <3>2 DEF HoldsRole, LockedStep
    <3>4. pc[p] \in LockedStep
      BY <2>2, <3>3
    <3> QED
      BY <3>1, <3>2, <3>4 DEF IInv, LockedOnce
  <2>3. CASE q = p \/ r = p
    BY <2>2, <2>3
  <2>4. CASE q # p /\ r # p
    BY <2>1, <2>4 DEF IInv, LockedOnce
  <2> QED
    BY <2>3, <2>4
<1> QED
  BY <1>1, <1>2, <1>3 DEF IInv

\* Nobody else, and none of the rows the invariant is about.
Quiet(p) ==
    /\ UNCHANGED <<roles, members, invited, granted>>
    /\ \A q \in Proc \ {p} :
          /\ pc'[q] = pc[q] /\ req'[q] = req[q] /\ wrote'[q] = wrote[q]
          /\ seen'[q] = seen[q] /\ overtaken'[q] = overtaken[q]

LEMMA QuietKeeps ==
    ASSUME IInv, TypeOK', NEW p \in Proc, Quiet(p), Knows(p)',
           req'[p] = req[p] \/ req'[p].op # "createRole",
           pc'[p] \in LockedStep =>
              /\ req'[p] = req[p]
              /\ \/ pc[p] \in LockedStep
                 \/ \A q \in Proc \ {p} : ~HoldsRole(q, req[p].role)
    PROVE  IInv'
<1>1. AssignedRolesExist' /\ PermissionsOfLastUpdate'
  BY DEF Quiet, IInv, AssignedRolesExist, PermissionsOfLastUpdate, ExistingRoles, LiveRoles
<1>2. Progress /\ \A q \in Proc \ {p} : Stable(q)
  BY DEF Quiet, Progress, Stable
<1> QED
  BY <1>1, <1>2, StepKeeps

\* A handler that has returned need not know anything.
LEMMA KnowsNothing ==
    ASSUME NEW p \in Proc, pc'[p] = "idle", req'[p] = NoRequest, wrote'[p] = FALSE
    PROVE  Knows(p)'
BY DEF Knows, Serves, KnowsRole, KnowsCaller, KnowsWritten, CreateStep, UnusedStep, UpdateStep,
       DeleteStep, MemberStep, RemoveStep, InviteStep, ProfileStep

LEMMA LeaveFrame ==
    ASSUME TypeOK, NEW p \in Proc, NEW error, NEW w, Leave(p, error, w)
    PROVE  /\ pc'[p] = "idle" /\ req'[p] = NoRequest /\ wrote'[p] = FALSE
           /\ req'[p].op # "createRole"
           /\ \A q \in Proc \ {p} : pc'[q] = pc[q] /\ req'[q] = req[q] /\ wrote'[q] = wrote[q]
BY DEF Leave, TypeOK, NoRequest

LEMMA ReturnKeeps == ASSUME IInv, NEW p \in Proc, NEW error, Return(p, error) PROVE IInv'
<1>1. /\ TypeOK' /\ Leave(p, error, wrote[p]) /\ Forget(p)
      /\ UNCHANGED <<roles, members, invited, granted>>
  BY ReturnType DEF IInv, Return, database
<1>2. /\ pc'[p] = "idle" /\ req'[p] = NoRequest /\ wrote'[p] = FALSE
      /\ req'[p].op # "createRole"
      /\ \A q \in Proc \ {p} : pc'[q] = pc[q] /\ req'[q] = req[q] /\ wrote'[q] = wrote[q]
  BY <1>1, LeaveFrame DEF IInv
<1>3. Quiet(p)
  BY <1>1, <1>2 DEF Quiet, Forget, IInv, TypeOK
<1>4. Knows(p)' /\ pc'[p] \notin LockedStep
  BY <1>2, KnowsNothing DEF LockedStep
<1> QED
  BY <1>1, <1>2, <1>3, <1>4, QuietKeeps
-----------------------------------------------------------------------------
(***************************************************************************)
(* The steps.                                                              *)
(***************************************************************************)

\* A step that only reads, to a step at which the handler knows more.
LEMMA LookKeeps ==
    ASSUME IInv, NEW p \in Proc, NEW to \in Step, Look(p, to), Knows(p)',
           to \in LockedStep =>
              pc[p] \in LockedStep \/ \A q \in Proc \ {p} : ~HoldsRole(q, req[p].role)
    PROVE  IInv'
<1>1. TypeOK'
  BY LookType DEF IInv
<1>2. Quiet(p) /\ req' = req /\ pc'[p] = to
  BY DEF Look, Goto, Quiet, database, history, IInv, TypeOK
<1> QED
  BY <1>1, <1>2, QuietKeeps

\* What a handler that only reads carries on.
LEMMA LookFrame ==
    ASSUME TypeOK, NEW p \in Proc, NEW to \in Step, Look(p, to)
    PROVE  /\ pc'[p] = to
           /\ UNCHANGED <<roles, members, req, seen, wrote, overtaken>>
BY DEF Look, Goto, database, history, TypeOK

USE DEF Step, CreateStep, UpdateStep, DeleteStep, MemberStep, RemoveStep, InviteStep,
        ProfileStep, LockedStep, LastStep, UnusedStep

\* The steps that go on knowing what the handler knew before.
Onward ==
    {<<"createName", "createInsert">>, <<"createInsert", "createTenant">>,
     <<"updateName", "updateRow">>,
     <<"updateUnique", "updateDelete">>, <<"updatePermissions", "updateCommit">>,
     <<"deleteRead", "deleteCount">>, <<"deleteCount", "deleteDelete">>,
     <<"deletePermissions", "deleteRow">>, <<"memberRole", "memberWrite">>,
     <<"inviteRole", "validateTeacher">>, <<"inviteRole", "inviteTenant">>,
     <<"validateTeacher", "validateTenant">>, <<"validateTeacher", "validateOther">>,
     <<"validateTenant", "validateMember">>, <<"validateMember", "inviteTenant">>,
     <<"validateOther", "inviteTenant">>, <<"inviteTenant", "inviteWrite">>,
     <<"settingsName", "tenantSave">>,
     <<"geocode", "tenantSave">>}

LEMMA OnwardKeeps ==
    ASSUME IInv, NEW p \in Proc, NEW to, Look(p, to), <<pc[p], to>> \in Onward
    PROVE  IInv'
<1>1. to \in Step /\ to \notin LastStep /\ to \notin {"removeWrite", "memberKey"}
  BY DEF Onward
<1>2. /\ pc'[p] = to
      /\ UNCHANGED <<roles, members, req, seen, wrote, overtaken>>
  BY <1>1, LookFrame DEF IInv
<1>3. Knows(p)
  BY DEF IInv
<1>4. Serves(p)'
  BY <1>2, <1>3 DEF Onward, Knows, Serves
<1>5. KnowsRole(p)'
  BY <1>2, <1>3 DEF Onward, Knows, KnowsRole, LiveRoles
<1>6. KnowsCaller(p)' /\ KnowsWritten(p)'
  BY <1>1, <1>2, <1>3 DEF Onward, Knows, KnowsCaller, KnowsWritten
<1>7. to \in LockedStep => pc[p] \in LockedStep
  BY DEF Onward
<1> QED
  BY <1>1, <1>2, <1>4, <1>5, <1>6, <1>7, LookKeeps DEF Knows

LEMMA CreateNameKeeps == ASSUME IInv, NEW p \in Proc, CreateName(p) PROVE IInv'
BY OnwardKeeps, ReturnKeeps DEF CreateName, Onward

LEMMA CreateInsertKeeps == ASSUME IInv, NEW p \in Proc, CreateInsert(p) PROVE IInv'
BY OnwardKeeps, ReturnKeeps DEF CreateInsert, Onward

LEMMA UpdateNameKeeps == ASSUME IInv, NEW p \in Proc, UpdateName(p) PROVE IInv'
BY OnwardKeeps, ReturnKeeps DEF UpdateName, Onward

LEMMA UpdateUniqueKeeps == ASSUME IInv, NEW p \in Proc, UpdateUnique(p) PROVE IInv'
BY OnwardKeeps, ReturnKeeps DEF UpdateUnique, Onward

LEMMA UpdatePermissionsKeeps == ASSUME IInv, NEW p \in Proc, UpdatePermissions(p) PROVE IInv'
BY OnwardKeeps DEF UpdatePermissions, Onward

LEMMA DeleteReadKeeps == ASSUME IInv, NEW p \in Proc, DeleteRead(p) PROVE IInv'
BY OnwardKeeps, ReturnKeeps DEF DeleteRead, Onward

LEMMA DeleteCountKeeps == ASSUME IInv, NEW p \in Proc, DeleteCount(p) PROVE IInv'
BY OnwardKeeps, ReturnKeeps DEF DeleteCount, Onward

LEMMA DeletePermissionsKeeps == ASSUME IInv, NEW p \in Proc, DeletePermissions(p) PROVE IInv'
BY OnwardKeeps DEF DeletePermissions, Onward

LEMMA MemberRoleKeeps == ASSUME IInv, NEW p \in Proc, MemberRole(p) PROVE IInv'
BY OnwardKeeps, ReturnKeeps DEF MemberRole, Onward

LEMMA InviteRoleKeeps == ASSUME IInv, NEW p \in Proc, InviteRole(p) PROVE IInv'
BY OnwardKeeps, ReturnKeeps DEF InviteRole, Onward

LEMMA ValidatingKeeps ==
    ASSUME IInv, NEW p \in Proc, ValidateTeacher(p) \/ ValidateTenant(p) \/ ValidateMember(p)
    PROVE  IInv'
<1>1. CASE ValidateTeacher(p)
  BY <1>1, OnwardKeeps, ReturnKeeps DEF ValidateTeacher, Onward
<1>2. CASE ValidateTenant(p)
  BY <1>2, OnwardKeeps DEF ValidateTenant, Onward
<1>3. CASE ValidateMember(p)
  BY <1>3, OnwardKeeps, ReturnKeeps DEF ValidateMember, Onward
<1> QED
  BY <1>1, <1>2, <1>3

LEMMA InviteTenantKeeps == ASSUME IInv, NEW p \in Proc, InviteTenant(p) PROVE IInv'
BY OnwardKeeps DEF InviteTenant, Onward

LEMMA SettingsNameKeeps == ASSUME IInv, NEW p \in Proc, SettingsName(p) PROVE IInv'
BY OnwardKeeps, ReturnKeeps DEF SettingsName, Onward

LEMMA GeocodeKeeps == ASSUME IInv, NEW p \in Proc, Geocode(p) PROVE IInv'
BY OnwardKeeps, ReturnKeeps DEF Geocode, Onward
\* The steps that only return.
LEMMA ReturnsKeep ==
    ASSUME IInv, NEW p \in Proc,
           CreateRead(p) \/ UpdateReadBack(p) \/ MemberReadBack(p) \/ LocationReadBack(p)
              \/ Fail(p) \/ Victim(p)
    PROVE  IInv'
BY ReturnKeeps DEF CreateRead, UpdateReadBack, MemberReadBack, LocationReadBack, Fail, Victim

LEMMA UpdateReadKeeps == ASSUME IInv, NEW p \in Proc, UpdateRead(p) PROVE IInv'
<1>1. ASSUME NEW to \in {"updateRow", "updateName"}, req[p].role \in LiveRoles, Look(p, to)
      PROVE  IInv'
  <2>1. pc'[p] = to /\ UNCHANGED <<roles, members, req, seen, wrote, overtaken>>
    BY <1>1, LookFrame DEF IInv
  <2>2. Knows(p) /\ pc[p] = "updateRead"
    BY DEF IInv, UpdateRead
  <2>3. Knows(p)'
    BY <1>1, <2>1, <2>2 DEF Knows, Serves, KnowsRole, KnowsCaller, KnowsWritten, LiveRoles
  <2> QED
    BY <1>1, <2>3, LookKeeps
<1> QED
  BY <1>1, ReturnKeeps DEF UpdateRead

\* The UPDATE has waited until nobody else has the row.
LEMMA UpdateRowKeeps == ASSUME IInv, NEW p \in Proc, UpdateRow(p) PROVE IInv'
<1>1. PICK to \in {"updateUnique", "updateDelete"} : Look(p, to)
  BY DEF UpdateRow
<1>2. pc'[p] = to /\ UNCHANGED <<roles, members, req, seen, wrote, overtaken>>
  BY <1>1, LookFrame DEF IInv
<1>3. Knows(p) /\ pc[p] = "updateRow"
  BY DEF IInv, UpdateRow
<1>4. Knows(p)'
  BY <1>2, <1>3 DEF Knows, Serves, KnowsRole, KnowsCaller, KnowsWritten, LiveRoles
<1>5. \A q \in Proc \ {p} : ~HoldsRole(q, req[p].role)
  BY <1>3 DEF UpdateRow, WaitsFor, RowOf, Others
<1> QED
  BY <1>1, <1>4, <1>5, LookKeeps

\* The DELETE has waited for it too.
LEMMA DeleteRowKeeps == ASSUME IInv, NEW p \in Proc, DeleteRow(p) PROVE IInv'
<1>1. ASSUME req[p].role \in LiveRoles, Look(p, "deleteKeys") PROVE IInv'
  <2>1. pc'[p] = "deleteKeys" /\ UNCHANGED <<roles, members, req, seen, wrote, overtaken>>
    BY <1>1, LookFrame DEF IInv
  <2>2. Knows(p) /\ pc[p] = "deleteRow"
    BY DEF IInv, DeleteRow
  <2>3. Knows(p)'
    BY <1>1, <2>1, <2>2 DEF Knows, Serves, KnowsRole, KnowsCaller, KnowsWritten, LiveRoles
  <2>4. \A q \in Proc \ {p} : ~HoldsRole(q, req[p].role)
    BY <2>2 DEF DeleteRow, WaitsFor, Others
  <2> QED
    BY <1>1, <2>3, <2>4, LookKeeps
<1> QED
  BY <1>1, ReturnKeeps DEF DeleteRow

\* A membership that was found stays active while its row is locked.
LEMMA MemberWriteKeeps == ASSUME IInv, NEW p \in Proc, MemberWrite(p) PROVE IInv'
<1>1. PICK to \in {"memberKey", "memberReadBack"} :
         Look(p, to) /\ (to = "memberKey" <=> members[req[p].member].active)
  BY DEF MemberWrite
<1>2. pc'[p] = to /\ UNCHANGED <<roles, members, req, seen, wrote, overtaken>>
  BY <1>1, LookFrame DEF IInv
<1>3. Knows(p) /\ pc[p] = "memberWrite"
  BY DEF IInv, MemberWrite
<1>4. Knows(p)'
  BY <1>1, <1>2, <1>3 DEF Knows, Serves, KnowsRole, KnowsCaller, KnowsWritten
<1> QED
  BY <1>1, <1>4, LookKeeps

LEMMA RemoveReadKeeps == ASSUME IInv, NEW p \in Proc, RemoveRead(p) PROVE IInv'
<1>1. ASSUME RemoveError(p) = "success", Look(p, "removeWrite") PROVE IInv'
  <2>1. pc'[p] = "removeWrite" /\ UNCHANGED <<roles, members, req, seen, wrote, overtaken>>
    BY <1>1, LookFrame DEF IInv
  <2>2. Knows(p) /\ pc[p] = "removeRead"
    BY DEF IInv, RemoveRead
  <2>3. ~Own(p)
    BY <1>1 DEF RemoveError
  <2>4. ~Own(p)'
    BY <2>1, <2>3 DEF Own, isOwnMembership
  <2>5. Knows(p)'
    BY <2>1, <2>2, <2>4 DEF Knows, Serves, KnowsRole, KnowsCaller, KnowsWritten
  <2> QED
    BY <1>1, <2>5, LookKeeps
<1> QED
  BY <1>1, ReturnKeeps DEF RemoveRead

\* What a DELETE finds are the role's permissions.
LEMMA FindsKeeps ==
    ASSUME IInv, NEW p \in Proc, NEW to \in {"updatePermissions", "deletePermissions"},
           Finds(p, to),
           <<pc[p], to>> \in {<<"updateDelete", "updatePermissions">>,
                              <<"deleteDelete", "deletePermissions">>}
    PROVE  IInv'
<1>1. TypeOK'
  <2>1. AnswerOK'
    BY NoAnswerType DEF Finds, Goto
  <2>2. PermissionsOf(req[p].role) \subseteq Permission
    BY PermissionsType DEF IInv
  <2> QED
    BY <2>1, <2>2 DEF Finds, Goto, IInv, TypeOK, AnswerOK, database, history
<1>2. /\ pc'[p] = to /\ seen'[p] = PermissionsOf(req[p].role)
      /\ UNCHANGED <<roles, members, req, wrote, overtaken>> /\ Quiet(p)
  BY DEF Finds, Goto, Quiet, database, history, IInv, TypeOK
<1>3. Knows(p)
  BY DEF IInv
<1>4. Serves(p)' /\ KnowsCaller(p)' /\ KnowsWritten(p)'
  BY <1>2, <1>3 DEF Knows, Serves, KnowsCaller, KnowsWritten
<1>5. KnowsRole(p)'
  BY <1>2, <1>3 DEF Knows, KnowsRole, PermissionsOf, LiveRoles
<1> QED
  BY <1>1, <1>2, <1>4, <1>5, QuietKeeps DEF Knows

LEMMA UpdateDeleteKeeps == ASSUME IInv, NEW p \in Proc, UpdateDelete(p) PROVE IInv'
BY FindsKeeps DEF UpdateDelete

LEMMA DeleteDeleteKeeps == ASSUME IInv, NEW p \in Proc, DeleteDelete(p) PROVE IInv'
BY FindsKeeps DEF DeleteDelete

LEMMA MemberReadKeeps == ASSUME IInv, NEW p \in Proc, MemberRead(p) PROVE IInv'
<1>1. ASSUME Goto(p, "memberRole"),
             current' = [current EXCEPT ![p] = members[req[p].member].role],
             UNCHANGED <<database, req, seen, copy, history>>
      PROVE  IInv'
  <2>1. Knows(p) /\ pc[p] = "memberRead" /\ TypeOK
    BY DEF IInv, MemberRead
  <2>2. req[p].member \in Member
    BY <2>1, RequestFields DEF Knows, Serves
  <2>3. AnswerOK'
    BY <1>1, NoAnswerType DEF Goto
  <2>4. TypeOK'
    BY <1>1, <2>1, <2>2, <2>3 DEF Goto, TypeOK, AnswerOK, MemberRow, database, history
  <2>5. /\ pc'[p] = "memberRole"
        /\ UNCHANGED <<roles, members, req, wrote, overtaken>> /\ Quiet(p)
    BY <1>1, <2>1 DEF Goto, Quiet, database, history, TypeOK
  <2>6. Knows(p)'
    BY <2>1, <2>5 DEF Knows, Serves, KnowsRole, KnowsCaller, KnowsWritten
  <2> QED
    BY <2>4, <2>5, <2>6, QuietKeeps
<1> QED
  BY <1>1, ReturnKeeps DEF MemberRead

LEMMA TenantReadKeeps == ASSUME IInv, NEW p \in Proc, TenantRead(p) PROVE IInv'
<1>1. PICK to \in {"settingsName", "geocode"} :
         /\ Goto(p, to) /\ (to = "settingsName" <=> req[p].op = "settings")
         /\ copy' = [copy EXCEPT ![p] = tenant]
         /\ UNCHANGED <<database, req, seen, current, history>>
  BY DEF TenantRead
<1>2. Knows(p) /\ pc[p] = "tenantRead" /\ TypeOK
  BY DEF IInv, TenantRead
<1>3. AnswerOK'
  BY <1>1, NoAnswerType DEF Goto
<1>4. TypeOK'
  BY <1>1, <1>2, <1>3 DEF Goto, TypeOK, AnswerOK, database, history
<1>5. pc'[p] = to /\ UNCHANGED <<roles, members, req, wrote, overtaken>> /\ Quiet(p)
  BY <1>1, <1>2 DEF Goto, Quiet, database, history, TypeOK
<1>6. Knows(p)'
  BY <1>1, <1>2, <1>5 DEF Knows, Serves, KnowsRole, KnowsCaller, KnowsWritten
<1> QED
  BY <1>4, <1>5, <1>6, QuietKeeps
\* A step at which the handler writes and goes on.
LEMMA CommitFrame ==
    ASSUME TypeOK, NEW p \in Proc, NEW to \in Step, Goto(p, to), Commit(p)
    PROVE  /\ pc' = [pc EXCEPT ![p] = to] /\ pc' \in [Proc -> Step] /\ pc'[p] = to
           /\ wrote' = [wrote EXCEPT ![p] = TRUE] /\ wrote' \in [Proc -> BOOLEAN] /\ wrote'[p]
           /\ writes' \in Nat
           /\ UNCHANGED <<req, current, copy>>
           /\ AnswerOK'
<1>1. AnswerOK'
  BY NoAnswerType DEF Goto
<1> QED
  BY <1>1 DEF TypeOK, Goto, Commit, Written

\* The permission check lets only tokens through that carry the caller's role.
LEMMA AllowedCaller ==
    ASSUME NEW t, NEW permission, callerHasPermission(t, permission)
    PROVE  members[t.member].active /\ members[t.member].role = t.role
BY DEF callerHasPermission, ActiveMemberHasPermission

LEMMA BeginKeeps == ASSUME IInv, NEW p \in Proc, Begin(p) PROVE IInv'
<1>1. PICK r \in RequestBy(sessions) :
         /\ callerHasPermission(r.by, Needed(r.op))
         /\ r.op = "createRole" => r.role \in RoleId /\ FreshId(r.role)
         /\ pc' = [pc EXCEPT ![p] = First(r.op)]
         /\ req' = [req EXCEPT ![p] = r]
  BY DEF Begin
<1>2. /\ pc[p] = "idle" /\ answer' = NoAnswer
      /\ UNCHANGED <<database, seen, current, copy, history>>
  BY DEF Begin
<1>3. r \in Request /\ r.op \in Op /\ TypeOK
  BY RequestOfSession, RequestOps DEF IInv
<1>4. First(r.op) \in Step \ ({"idle", "removeWrite"} \cup LockedStep \cup LastStep)
  BY <1>3 DEF First
<1>5. pc'[p] = First(r.op) /\ req'[p] = r
  BY <1>1, <1>3 DEF TypeOK
<1>6. TypeOK'
  <2>1. AnswerOK'
    BY <1>2, NoAnswerType
  <2> QED
    BY <1>1, <1>2, <1>3, <1>4, <2>1 DEF TypeOK, AnswerOK, database, history
<1>7. AssignedRolesExist' /\ PermissionsOfLastUpdate'
  BY <1>2 DEF IInv, AssignedRolesExist, PermissionsOfLastUpdate, ExistingRoles, LiveRoles,
              database, history
<1>8. Progress
  BY <1>2 DEF Progress, database
<1>9. \A q \in Proc \ {p} : Stable(q)
  BY <1>1, <1>2, <1>3 DEF Stable, database, history, TypeOK
<1>10. Knows(p)'
  <2>1. Serves(p)'
    BY <1>3, <1>5 DEF Serves, First, Op
  <2>5. pc'[p] # "memberKey"
    BY <1>3, <1>5 DEF First, Op
  <2>2. KnowsRole(p)'
    BY <1>1, <1>2, <1>3, <1>5 DEF KnowsRole, First, Op, FreshId, database
  <2>3. KnowsCaller(p)'
    BY <1>1, <1>2, <1>5, AllowedCaller DEF KnowsCaller, database
  <2>4. KnowsWritten(p)'
    BY <1>2, <1>4, <1>5 DEF KnowsWritten, history, IInv, Knows
  <2> QED
    BY <1>4, <1>5, <2>1, <2>2, <2>3, <2>4, <2>5 DEF Knows
<1>11. r.op = "createRole" =>
          \A q \in Proc \ {p} : req[q].op = "createRole" => req[q].role # r.role
  BY <1>1 DEF FreshId
<1> QED
  BY <1>4, <1>5, <1>6, <1>7, <1>8, <1>9, <1>10, <1>11, StepKeeps

LEMMA CreateTenantKeeps == ASSUME IInv, NEW p \in Proc, CreateTenant(p) PROVE IInv'
<1> DEFINE r == req[p].role
           row == [state |-> "live", name |-> req[p].name, perms |-> req[p].perms]
<1>1. ASSUME Goto(p, "createRead"), roles' = [roles EXCEPT ![r] = row],
             granted' = [granted EXCEPT ![r] = req[p].perms], Commit(p),
             UNCHANGED <<members, invited, sessions, tenant, taken, seen, overtaken>>
      PROVE  IInv'
  <2>1. Knows(p) /\ pc[p] = "createTenant" /\ TypeOK
    BY DEF IInv, CreateTenant
  <2>2. /\ req[p] \in Request /\ req[p].op = "createRole"
        /\ r \in RoleId /\ roles[r].state = "unused"
    BY <2>1 DEF Knows, Serves, KnowsRole
  <2>3. row \in Role /\ req[p].perms \in SUBSET Permission
    BY <2>2, RequestFields, AdministrationAssumption DEF Role
  <2>4. /\ pc' = [pc EXCEPT ![p] = "createRead"] /\ pc' \in [Proc -> Step]
        /\ wrote' = [wrote EXCEPT ![p] = TRUE] /\ wrote' \in [Proc -> BOOLEAN]
        /\ pc'[p] = "createRead" /\ wrote'[p] /\ writes' \in Nat
        /\ UNCHANGED <<req, current, copy>> /\ AnswerOK'
    BY <1>1, <2>1, CommitFrame
  <2>5. TypeOK'
    BY <1>1, <2>1, <2>2, <2>3, <2>4 DEF TypeOK, AnswerOK
  <2>6. roles'[r] = row /\ \A s \in RoleId \ {r} : roles'[s] = roles[s]
    BY <1>1, <2>1, <2>2 DEF TypeOK
  <2>7. AssignedRolesExist'
    <3>1. ExistingRoles \subseteq ExistingRoles'
      BY <2>2, <2>6 DEF ExistingRoles, LiveRoles
    <3> QED
      BY <1>1, <3>1 DEF IInv, AssignedRolesExist
  <2>8. PermissionsOfLastUpdate'
    BY <1>1, <2>1, <2>2, <2>6 DEF IInv, PermissionsOfLastUpdate, TypeOK
  <2>9. Progress
    BY <1>1, <2>2, <2>6 DEF Progress
  <2>10. ASSUME NEW q \in Proc \ {p} PROVE Stable(q)
    <3>1. pc[q] \in UnusedStep =>
             req[q].role \in RoleId /\ req[q].role # r
      BY <2>2 DEF IInv, Knows, Serves, KnowsRole, DistinctIds
    <3>2. pc[q] \in LockedStep => req[q].role \in RoleId /\ req[q].role # r
      BY <2>2, LockedKnows DEF IInv
    <3>3. pc'[q] = pc[q] /\ wrote'[q] = wrote[q]
      BY <2>1, <2>4 DEF TypeOK
    <3> QED
      BY <1>1, <2>4, <2>6, <3>1, <3>2, <3>3 DEF Stable
  <2>11. Knows(p)'
    BY <1>1, <2>1, <2>2, <2>4 DEF Knows, Serves, KnowsRole, KnowsCaller, KnowsWritten
  <2> QED
    BY <2>4, <2>5, <2>7, <2>8, <2>9, <2>10, <2>11, StepKeeps
<1> QED
  BY <1>1 DEF CreateTenant

\* An update that commits replaces what its DELETE found: that is all there is.
LEMMA UpdateCommitKeeps == ASSUME IInv, NEW p \in Proc, UpdateCommit(p) PROVE IInv'
<1> DEFINE r == req[p].role
           kept == PermissionsOf(r) \ seen[p]
           row == [state |-> "live", name |-> req[p].name, perms |-> kept \cup req[p].perms]
<1>1. Knows(p) /\ pc[p] = "updateCommit" /\ TypeOK
  BY DEF IInv, UpdateCommit
<1>2. req[p] \in Request /\ req[p].op = "updateRole" /\ r \in RoleId
  BY <1>1 DEF Knows, Serves, KnowsRole
<1>3. ASSUME r \in LiveRoles, Goto(p, "updateReadBack"), roles' = [roles EXCEPT ![r] = row],
             granted' = [granted EXCEPT ![r] = req[p].perms], Replaced(p), Commit(p),
             UNCHANGED <<members, invited, sessions, tenant, taken, overtaken>>
      PROVE  IInv'
  <2>1. kept = {}
    BY <1>1, <1>2, <1>3 DEF Knows, KnowsRole, PermissionsOf
  <2>2. row \in Role /\ row.perms = req[p].perms /\ req[p].perms \in SUBSET Permission
    BY <1>2, <2>1, RequestFields, AdministrationAssumption DEF Role
  <2>3. /\ pc' = [pc EXCEPT ![p] = "updateReadBack"] /\ pc' \in [Proc -> Step]
        /\ wrote' = [wrote EXCEPT ![p] = TRUE] /\ wrote' \in [Proc -> BOOLEAN]
        /\ pc'[p] = "updateReadBack" /\ wrote'[p] /\ writes' \in Nat
        /\ UNCHANGED <<req, current, copy>> /\ AnswerOK'
    BY <1>1, <1>3, CommitFrame
  <2>4. seen' \in [Proc -> SUBSET Permission]
    BY <1>1, <1>3 DEF Replaced, TypeOK
  <2>5. TypeOK'
    BY <1>1, <1>2, <1>3, <2>2, <2>3, <2>4 DEF TypeOK, AnswerOK
  <2>6. roles'[r] = row /\ \A s \in RoleId \ {r} : roles'[s] = roles[s]
    BY <1>1, <1>2, <1>3 DEF TypeOK
  <2>7. LiveRoles' = LiveRoles
    BY <1>2, <1>3, <2>6 DEF LiveRoles
  <2>8. AssignedRolesExist'
    BY <1>3, <2>7 DEF IInv, AssignedRolesExist, ExistingRoles
  <2>9. PermissionsOfLastUpdate'
    BY <1>1, <1>2, <1>3, <2>2, <2>6 DEF IInv, PermissionsOfLastUpdate, TypeOK
  <2>10. roles[r].state = "live"
    BY <1>3 DEF LiveRoles
  <2>11. Progress
    BY <1>2, <1>3, <2>6, <2>10 DEF Progress
  <2>12. ASSUME NEW q \in Proc \ {p} PROVE Stable(q)
    <3>1. pc[q] \in UnusedStep =>
             req[q].role \in RoleId /\ req[q].role # r
      BY <2>10 DEF IInv, Knows, KnowsRole
    <3>2. pc[q] \in LockedStep => req[q].role \in RoleId /\ req[q].role # r
      BY <1>1, <1>3, LockedKnows DEF IInv, LockedOnce
    <3>3. pc'[q] = pc[q] /\ wrote'[q] = wrote[q]
      BY <1>1, <2>3 DEF TypeOK
    <3>4. pc[q] \in LockedStep => seen'[q] = seen[q]
      BY <1>3, <3>2 DEF Replaced
    <3> QED
      BY <1>3, <2>3, <2>6, <3>1, <3>2, <3>3, <3>4 DEF Stable
  <2>13. Knows(p)'
    BY <1>1, <1>2, <1>3, <2>3, <2>6 DEF Knows, Serves, KnowsRole, KnowsCaller, KnowsWritten
  <2> QED
    BY <2>3, <2>5, <2>8, <2>9, <2>11, <2>12, <2>13, StepKeeps
<1>4. ASSUME r \notin LiveRoles, Look(p, "updateReadBack") PROVE IInv'
  <2>1. /\ pc'[p] = "updateReadBack"
        /\ UNCHANGED <<roles, members, req, seen, wrote, overtaken>>
    BY <1>4, LookFrame DEF IInv
  <2>2. Knows(p)'
    BY <1>1, <1>4, <2>1 DEF Knows, Serves, KnowsRole, KnowsCaller, KnowsWritten, LiveRoles
  <2> QED
    BY <1>4, <2>2, LookKeeps
<1> QED
  BY <1>3, <1>4, ReturnKeeps DEF UpdateCommit

\* A role is deleted when nothing refers to it and nobody holds its row.
LEMMA DeleteKeysKeeps == ASSUME IInv, NEW p \in Proc, DeleteKeys(p) PROVE IInv'
<1> DEFINE r == req[p].role
<1>1. ASSUME ~Referenced(p), roles' = [roles EXCEPT ![r] = Vacant("deleted")],
             granted' = [granted EXCEPT ![r] = {}], Leave(p, "success", TRUE), Replaced(p),
             overtaken' = [overtaken EXCEPT ![p] = FALSE], Written,
             UNCHANGED <<members, invited, sessions, tenant, taken>>
      PROVE  IInv'
  <2>1. TypeOK /\ pc[p] = "deleteKeys"
    BY DEF IInv, DeleteKeys
  <2>2. r \in RoleId /\ roles[r].state = "live" /\ r \in LiveRoles
    BY <2>1 DEF IInv, Knows, KnowsRole, LiveRoles
  <2>3. Vacant("deleted") \in Role /\ Vacant("deleted").state = "deleted"
        /\ Vacant("deleted").perms = {}
    BY VacantType DEF Vacant
  <2>4. seen' \in [Proc -> SUBSET Permission] /\ overtaken' \in [Proc -> BOOLEAN]
    BY <1>1, <2>1 DEF Replaced, TypeOK
  <2>5. TypeOK'
    <3>1. roles' \in [RoleId -> Role] /\ granted' \in [RoleId -> SUBSET Permission]
      BY <1>1, <2>1, <2>2, <2>3 DEF TypeOK
    <3>2. writes' \in Nat
      BY <1>1, <2>1 DEF TypeOK, Written
    <3>3. LocalsOK' /\ AnswerOK'
      BY <1>1, <2>1, <2>4, LeaveType DEF LocalsOK
    <3> QED
      BY <1>1, <2>1, <3>1, <3>2, <3>3 DEF TypeOK, LocalsOK, AnswerOK
  <2>6. roles'[r] = Vacant("deleted") /\ \A s \in RoleId \ {r} : roles'[s] = roles[s]
    BY <1>1, <2>1, <2>2 DEF TypeOK
  <2>7. AssignedRolesExist'
    <3>1. ExistingRoles \ {r} \subseteq ExistingRoles'
      BY <2>6 DEF ExistingRoles, LiveRoles
    <3>2. r \notin invited /\ \A m \in Member : members[m].role # r
      BY <1>1 DEF Referenced, Assigned
    <3> QED
      BY <1>1, <3>1, <3>2 DEF IInv, AssignedRolesExist
  <2>8. PermissionsOfLastUpdate'
    BY <1>1, <2>1, <2>2, <2>3, <2>6 DEF IInv, PermissionsOfLastUpdate, TypeOK
  <2>9. Progress
    BY <1>1, <2>2, <2>3, <2>6 DEF Progress
  <2>10. /\ pc'[p] = "idle" /\ req'[p] = NoRequest /\ wrote'[p] = FALSE
         /\ req'[p].op # "createRole"
         /\ \A q \in Proc \ {p} : pc'[q] = pc[q] /\ req'[q] = req[q] /\ wrote'[q] = wrote[q]
    BY <1>1, <2>1, LeaveFrame
  <2>11. ASSUME NEW q \in Proc \ {p} PROVE Stable(q)
    <3>1. pc[q] \in UnusedStep =>
             req[q].role \in RoleId /\ req[q].role # r
      BY <2>2 DEF IInv, Knows, KnowsRole
    <3>3. pc[q] \in LockedStep => req[q].role \in RoleId /\ req[q].role # r
      BY <2>1, <2>2, LockedKnows DEF IInv, LockedOnce
    <3>4. pc[q] \in LockedStep => seen'[q] = seen[q]
      BY <1>1, <3>3 DEF Replaced
    <3>5. overtaken'[q] = overtaken[q]
      BY <1>1, <2>1 DEF TypeOK
    <3> QED
      BY <1>1, <2>6, <2>10, <3>1, <3>3, <3>4, <3>5 DEF Stable
  <2>12. Knows(p)' /\ pc'[p] \notin LockedStep
    BY <2>10, KnowsNothing
  <2> QED
    BY <2>5, <2>7, <2>8, <2>9, <2>10, <2>11, <2>12, StepKeeps
<1> QED
  BY <1>1, ReturnKeeps DEF DeleteKeys
\* The others still rely on the rows they know when one membership changes.
LEMMA MemberChange ==
    ASSUME TypeOK, NEW p \in Proc, NEW m \in Member, NEW row \in MemberRow,
           members' = [members EXCEPT ![m] = row], UNCHANGED <<roles, seen>>,
           row.active => members[m].active,
           row.active \/ \A q \in Proc \ {p} : ~WritesMember(q, m),
           \A q \in Proc \ {p} : pc[q] = "memberKey" => req[q].member \in Member,
           \A q \in Proc \ {p} :
              /\ pc'[q] = pc[q] /\ req'[q] = req[q] /\ wrote'[q] = wrote[q]
              /\ overtaken'[q] = Overtaken(m)[q]
    PROVE  Progress /\ \A q \in Proc \ {p} : Stable(q)
<1>1. members'[m] = row /\ \A n \in Member \ {m} : members'[n] = members[n]
  BY DEF TypeOK
<1>2. Progress
  BY <1>1 DEF Progress
<1>3. ASSUME NEW q \in Proc \ {p} PROVE Stable(q)
  <2>1. overtaken'[q] = (overtaken[q] \/ (Busy(q) /\ req[q].by.member = m))
    BY DEF Overtaken
  <2>2. ASSUME pc[q] # "idle"
        PROVE  members'[req[q].by.member] = members[req[q].by.member] \/ overtaken'[q]
    <3>1. CASE req[q].by.member = m
      BY <2>1, <2>2, <3>1 DEF Busy
    <3>2. CASE req[q].by.member # m
      BY <3>2
    <3> QED
      BY <3>1, <3>2
  <2>3. ASSUME pc[q] = "memberKey"
        PROVE  members'[req[q].member].active = members[req[q].member].active
    <3>1. CASE req[q].member = m
      BY <1>1, <2>3, <3>1 DEF WritesMember, TypeOK, MemberRow
    <3>2. CASE req[q].member # m
      BY <1>1, <2>3, <3>2
    <3> QED
      BY <3>1, <3>2
  <2> QED
    BY <2>1, <2>2, <2>3 DEF Stable
<1> QED
  BY <1>2, <1>3

LEMMA KeyMember ==
    ASSUME IInv PROVE \A q \in Proc : pc[q] = "memberKey" => req[q].member \in Member
BY RequestFields DEF IInv, Knows, Serves

\* The foreign key of the membership finds the role.
LEMMA MemberKeyKeeps == ASSUME IInv, NEW p \in Proc, MemberKey(p) PROVE IInv'
<1> DEFINE m == req[p].member
           r == req[p].role
           row == [members[m] EXCEPT !.role = r]
<1>1. Knows(p) /\ pc[p] = "memberKey" /\ TypeOK
  BY DEF IInv, MemberKey
<1>2. req[p] \in Request /\ req[p].op = "updateMemberRole" /\ m \in Member
  BY <1>1, RequestFields DEF Knows, Serves
<1>3. members[m].active
  BY <1>1 DEF Knows
<1>4. ASSUME r \in ExistingRoles, Goto(p, "memberReadBack"),
             members' = [members EXCEPT ![m].role = r],
             sessions' = sessions \cup {[member |-> m, role |-> r]}, Commit(p),
             overtaken' = Overtaken(m),
             UNCHANGED <<roles, invited, tenant, taken, seen, granted>>
      PROVE  IInv'
  <2>1. /\ pc' = [pc EXCEPT ![p] = "memberReadBack"] /\ pc' \in [Proc -> Step]
        /\ wrote' = [wrote EXCEPT ![p] = TRUE] /\ wrote' \in [Proc -> BOOLEAN]
        /\ pc'[p] = "memberReadBack" /\ wrote'[p] /\ writes' \in Nat
        /\ UNCHANGED <<req, current, copy>> /\ AnswerOK'
    BY <1>1, <1>4, CommitFrame
  <2>2. r \in AnyRole /\ members[m] \in MemberRow
    BY <1>1, <1>2, <1>4, ExistingType DEF TypeOK
  <2>3. row \in MemberRow /\ row.role = r /\ row.active
    BY <1>3, <2>2 DEF MemberRow
  <2>4. members' = [members EXCEPT ![m] = row]
    BY <1>1, <1>2, <1>4 DEF TypeOK
  <2> HIDE DEF row
  <2>5. overtaken' \in [Proc -> BOOLEAN]
    BY <1>1, <1>4 DEF Overtaken, TypeOK, Busy
  <2>6. sessions' \subseteq Token
    BY <1>1, <1>2, <1>4, <2>2 DEF Token, TypeOK
  <2>7. TypeOK'
    <3>1. members' \in [Member -> MemberRow]
      BY <1>1, <2>3, <2>4 DEF TypeOK
    <3> QED
      BY <1>1, <1>4, <2>1, <2>5, <2>6, <3>1 DEF TypeOK, AnswerOK
  <2>8. AssignedRolesExist'
    <3>1. ExistingRoles' = ExistingRoles
      BY <1>4 DEF ExistingRoles, LiveRoles
    <3>2. \A n \in Member : members'[n].role \in {members[n].role, r}
      BY <1>1, <1>2, <2>3, <2>4 DEF TypeOK
    <3> QED
      BY <1>4, <3>1, <3>2 DEF IInv, AssignedRolesExist
  <2>9. PermissionsOfLastUpdate'
    BY <1>4 DEF IInv, PermissionsOfLastUpdate
  <2>10. \A q \in Proc \ {p} : pc'[q] = pc[q] /\ wrote'[q] = wrote[q] /\ req'[q] = req[q]
    BY <1>1, <2>1 DEF TypeOK
  <2>11. Progress /\ \A q \in Proc \ {p} : Stable(q)
    BY <1>1, <1>2, <1>3, <1>4, <2>3, <2>4, <2>10, MemberChange, KeyMember
  <2>12. Knows(p)'
    <3>1. KnowsCaller(p)'
      <4>1. overtaken'[p] = (overtaken[p] \/ req[p].by.member = m)
        BY <1>1, <1>4 DEF Overtaken, Busy
      <4>2. req[p].by.member # m => members'[req[p].by.member] = members[req[p].by.member]
        BY <1>1, <2>4 DEF TypeOK
      <4> QED
        BY <1>1, <2>1, <4>1, <4>2 DEF Knows, KnowsCaller
    <3> QED
      BY <1>1, <2>1, <3>1 DEF Knows, Serves, KnowsRole, KnowsWritten
  <2> QED
    BY <2>1, <2>7, <2>8, <2>9, <2>11, <2>12, StepKeeps
<1> QED
  BY <1>4, ReturnKeeps DEF MemberKey

LEMMA RemoveWriteKeeps == ASSUME IInv, NEW p \in Proc, RemoveWrite(p) PROVE IInv'
<1> DEFINE m == req[p].member
           row == [members[m] EXCEPT !.active = FALSE]
<1>1. Knows(p) /\ pc[p] = "removeWrite" /\ TypeOK
  BY DEF IInv, RemoveWrite
<1>2. req[p] \in Request /\ m \in Member
  BY <1>1, RequestFields DEF Knows, Serves
<1>3. \A q \in Proc \ {p} : ~WritesMember(q, m)
  BY <1>1 DEF RemoveWrite, WaitsFor, HoldsMember, Others
<1>4. ASSUME members[m].active, members' = [members EXCEPT ![m].active = FALSE],
             Leave(p, "success", TRUE), overtaken' = [Overtaken(m) EXCEPT ![p] = FALSE], Written,
             UNCHANGED <<roles, invited, sessions, tenant, taken, seen, granted>>
      PROVE  IInv'
  <2>1. members[m] \in MemberRow
    BY <1>1, <1>2 DEF TypeOK
  <2>2. row \in MemberRow /\ row.role = members[m].role /\ ~row.active
    BY <2>1 DEF MemberRow
  <2>3. members' = [members EXCEPT ![m] = row]
    BY <1>1, <1>2, <1>4 DEF TypeOK
  <2> HIDE DEF row
  <2>4. overtaken' \in [Proc -> BOOLEAN]
    BY <1>1, <1>4 DEF Overtaken, TypeOK, Busy
  <2>5. TypeOK'
    <3>1. members' \in [Member -> MemberRow]
      BY <1>1, <2>2, <2>3 DEF TypeOK
    <3>2. writes' \in Nat
      BY <1>1, <1>4 DEF TypeOK, Written
    <3> QED
      BY <1>1, <1>4, <2>4, <3>1, <3>2, LeaveType DEF TypeOK, AnswerOK
  <2>6. AssignedRolesExist'
    <3>1. ExistingRoles' = ExistingRoles
      BY <1>4 DEF ExistingRoles, LiveRoles
    <3>2. \A n \in Member : members'[n].role = members[n].role
      BY <1>1, <1>2, <2>2, <2>3 DEF TypeOK
    <3> QED
      BY <1>4, <3>1, <3>2 DEF IInv, AssignedRolesExist
  <2>7. PermissionsOfLastUpdate'
    BY <1>4 DEF IInv, PermissionsOfLastUpdate
  <2>8. /\ pc'[p] = "idle" /\ req'[p] = NoRequest /\ wrote'[p] = FALSE
        /\ req'[p].op # "createRole"
        /\ \A q \in Proc \ {p} : pc'[q] = pc[q] /\ req'[q] = req[q] /\ wrote'[q] = wrote[q]
    BY <1>1, <1>4, LeaveFrame
  <2>9. \A q \in Proc \ {p} :
           /\ pc'[q] = pc[q] /\ req'[q] = req[q] /\ wrote'[q] = wrote[q]
           /\ overtaken'[q] = Overtaken(m)[q]
    BY <1>4, <2>8 DEF Overtaken
  <2>10. UNCHANGED <<roles, seen>> /\ ~row.active
    BY <1>4, <2>2
  <2>11. Progress /\ \A q \in Proc \ {p} : Stable(q)
    BY <1>1, <1>2, <1>3, <2>2, <2>3, <2>9, <2>10, MemberChange, KeyMember
  <2>12. Knows(p)' /\ pc'[p] \notin LockedStep
    BY <2>8, KnowsNothing
  <2> QED
    BY <2>5, <2>6, <2>7, <2>8, <2>11, <2>12, StepKeeps
<1> QED
  BY <1>4, ReturnKeeps DEF RemoveWrite
\* Steps that write nothing this invariant relates: only their type has to be kept.
LEMMA InviteWriteKeeps == ASSUME IInv, NEW p \in Proc, InviteWrite(p) PROVE IInv'
<1> DEFINE r == req[p].role
<1>1. ASSUME r \in ExistingRoles, invited' = invited \cup {r}, Leave(p, "success", TRUE),
             Forget(p), Written,
             UNCHANGED <<roles, members, sessions, tenant, taken, granted>>
      PROVE  IInv'
  <2>1. TypeOK /\ r \in AnyRole
    BY <1>1, ExistingType DEF IInv
  <2>2. TypeOK'
    <3>1. writes' \in Nat
      BY <1>1, <2>1 DEF TypeOK, Written
    <3> QED
      BY <1>1, <2>1, <3>1, LeaveType, ForgetType DEF TypeOK, AnswerOK
  <2>3. AssignedRolesExist' /\ PermissionsOfLastUpdate'
    <3>1. ExistingRoles' = ExistingRoles
      BY <1>1 DEF ExistingRoles, LiveRoles
    <3> QED
      BY <1>1, <3>1 DEF IInv, AssignedRolesExist, PermissionsOfLastUpdate
  <2>4. /\ pc'[p] = "idle" /\ req'[p] = NoRequest /\ wrote'[p] = FALSE
        /\ req'[p].op # "createRole"
        /\ \A q \in Proc \ {p} : pc'[q] = pc[q] /\ req'[q] = req[q] /\ wrote'[q] = wrote[q]
    BY <1>1, <2>1, LeaveFrame
  <2>5. Progress
    BY <1>1 DEF Progress
  <2>6. \A q \in Proc \ {p} : seen'[q] = seen[q] /\ overtaken'[q] = overtaken[q]
    BY <1>1, <2>1 DEF Forget, TypeOK
  <2>7. \A q \in Proc \ {p} : Stable(q)
    BY <1>1, <2>4, <2>6 DEF Stable
  <2>8. Knows(p)' /\ pc'[p] \notin LockedStep
    BY <2>4, KnowsNothing
  <2> QED
    BY <2>2, <2>3, <2>4, <2>5, <2>7, <2>8, StepKeeps
<1> QED
  BY <1>1, ReturnKeeps DEF InviteWrite

LEMMA TenantSaveKeeps == ASSUME IInv, NEW p \in Proc, TenantSave(p) PROVE IInv'
<1>1. Knows(p) /\ pc[p] = "tenantSave" /\ TypeOK
  BY DEF IInv, TenantSave
<1>2. Saved(p) \in TenantName
  <2>1. req[p] \in Request /\ copy[p] \in TenantName
    BY <1>1 DEF Knows, Serves, TypeOK
  <2> QED
    BY <2>1, RequestFields DEF Saved
<1>3. ASSUME tenant' = Saved(p),
             UNCHANGED <<roles, members, invited, sessions, taken, granted>>,
             Leave(p, "success", TRUE), Forget(p), Written
      PROVE  IInv'
  <2>1. TypeOK'
    <3>1. writes' \in Nat
      BY <1>1, <1>3 DEF TypeOK, Written
    <3> QED
      BY <1>1, <1>2, <1>3, <3>1, LeaveType, ForgetType DEF TypeOK, AnswerOK
  <2>2. /\ pc'[p] = "idle" /\ req'[p] = NoRequest /\ wrote'[p] = FALSE
        /\ req'[p].op # "createRole"
        /\ \A q \in Proc \ {p} : pc'[q] = pc[q] /\ req'[q] = req[q] /\ wrote'[q] = wrote[q]
    BY <1>1, <1>3, LeaveFrame
  <2>3. Quiet(p)
    BY <1>1, <1>3, <2>2 DEF Quiet, Forget, TypeOK
  <2>4. Knows(p)' /\ pc'[p] \notin LockedStep
    BY <2>2, KnowsNothing
  <2> QED
    BY <2>1, <2>2, <2>3, <2>4, QuietKeeps
<1>4. ASSUME tenant' = Saved(p),
             UNCHANGED <<roles, members, invited, sessions, taken, granted>>,
             req[p].op = "location", Goto(p, "locationReadBack"), Commit(p),
             UNCHANGED <<seen, overtaken>>
      PROVE  IInv'
  <2>1. /\ pc' = [pc EXCEPT ![p] = "locationReadBack"] /\ pc' \in [Proc -> Step]
        /\ wrote' = [wrote EXCEPT ![p] = TRUE] /\ wrote' \in [Proc -> BOOLEAN]
        /\ pc'[p] = "locationReadBack" /\ wrote'[p] /\ writes' \in Nat
        /\ UNCHANGED <<req, current, copy>> /\ AnswerOK'
    BY <1>1, <1>4, CommitFrame
  <2>2. TypeOK'
    BY <1>1, <1>2, <1>4, <2>1 DEF TypeOK, AnswerOK
  <2>3. Quiet(p)
    BY <1>1, <1>4, <2>1 DEF Quiet, TypeOK
  <2>4. Knows(p)'
    BY <1>1, <1>4, <2>1 DEF Knows, Serves, KnowsRole, KnowsCaller, KnowsWritten
  <2> QED
    BY <2>1, <2>2, <2>3, <2>4, QuietKeeps
<1> QED
  BY <1>3, <1>4, ReturnKeeps DEF TenantSave

\* A step of none of the handlers.
LEMMA OutsideKeeps ==
    ASSUME IInv, TypeOK',
           UNCHANGED <<roles, members, invited, granted, pc, req, seen, wrote, overtaken>>
    PROVE  IInv'
<1>1. AssignedRolesExist' /\ PermissionsOfLastUpdate'
  BY DEF IInv, AssignedRolesExist, PermissionsOfLastUpdate, ExistingRoles, LiveRoles
<1>2. Progress /\ \A q \in Proc : Stable(q)
  BY DEF Progress, Stable
<1>3. \A q \in Proc : Knows(q)'
  BY <1>2, KnowsStable DEF IInv
<1>4. DistinctIds' /\ LockedOnce'
  BY DEF IInv, DistinctIds, LockedOnce, LiveRoles
<1> QED
  BY <1>1, <1>3, <1>4 DEF IInv

LEMMA TurnedKeeps == ASSUME IInv, NEW status \in Nat, Turned(status) PROVE IInv'
<1>1. TypeOK'
  BY DEF Turned, IInv, TypeOK, database, history
<1> QED
  BY <1>1, OutsideKeeps DEF Turned, database, history

LEMMA DeniedKeeps == ASSUME IInv, Denied PROVE IInv'
<1>1. PICK op \in Op : Responds(op, "denied", FALSE)
  BY DEF Denied
<1>2. AnswerOK'
  BY <1>1, RespondsType
<1>3. UNCHANGED <<database, pc, req, seen, current, copy, history>>
  BY DEF Denied
<1>4. TypeOK'
  BY <1>2, <1>3 DEF IInv, TypeOK, AnswerOK, database, history
<1> QED
  BY <1>3, <1>4, OutsideKeeps DEF database, history

LEMMA NoMemberKeeps == ASSUME IInv, NoMember PROVE IInv'
<1>1. \A c \in Credential :
         Admission(c) \in Nat /\ InvitationTenant(c) \in Nat /\ invitationTenantID(c) \in Nat
  BY DEF Admission, AuthMiddleware, RejectTenantlessPlatform, tenantIDFromContext,
         InvitationTenant, invitationTenantID
<1> QED
  BY <1>1, TurnedKeeps DEF NoMember

LEMMA ReadKeeps == ASSUME IInv, Read PROVE IInv'
<1>1. \A a \in BOOLEAN : ListMembersAnswers[a] \subseteq Nat
  BY DEF ListMembersAnswers, ListMembersStatus
<1>2. ListTutorsAnswers \subseteq Nat
  BY DEF ListTutorsAnswers, ListTutorsStatus
<1>3. \A t \in sessions :
         /\ GetRoles(t) \in Nat /\ GetSettings(t) \in Nat /\ GetLocation(t) \in Nat
         /\ ListInvitations(t) \in Nat /\ GetMyMembership(t) \in Nat
         /\ \A m \in Member : GetMember(t, m) \in Nat
  BY DEF GetRoles, GetSettings, GetLocation, ListInvitations, GetMyMembership, GetMember, Status,
         GetRolesStatus, GetSettingsStatus, GetLocationStatus, ListInvitationsStatus,
         GetMyMembershipStatus, GetMemberStatus
<1>4. \A t \in sessions : ListMembers(t) \subseteq Nat
  <2>1. \A t \in sessions : callerHasPermission(t, "member:read") \in BOOLEAN
    BY DEF callerHasPermission, ActiveMemberHasPermission
  <2> QED
    BY <1>1, <2>1 DEF ListMembers
<1> DEFINE answers(t) ==
             {GetRoles(t), GetSettings(t), GetLocation(t), ListInvitations(t), GetMyMembership(t)}
                \cup ListMembers(t) \cup {GetMember(t, m) : m \in Member}
<1>5. \A t \in sessions : answers(t) \subseteq Nat
  BY <1>3, <1>4
<1>6. PICK status \in ListTutorsAnswers \cup UNION {answers(t) : t \in sessions} : Turned(status)
  BY DEF Read
<1> HIDE DEF answers
<1>7. status \in ListTutorsAnswers \/ \E t \in sessions : status \in answers(t)
  BY <1>6
<1> QED
  BY <1>2, <1>5, <1>6, <1>7, TurnedKeeps

LEMMA OtherTenantKeeps == ASSUME IInv, NEW n \in TenantName, OtherTenant(n) PROVE IInv'
<1>1. AnswerOK'
  BY NoAnswerType DEF OtherTenant
<1>2. TypeOK'
  BY <1>1 DEF OtherTenant, IInv, TypeOK, AnswerOK, Written
<1> QED
  BY <1>2, OutsideKeeps DEF OtherTenant
-----------------------------------------------------------------------------
(***************************************************************************)
(* The invariant, and the invariants of the run.                           *)
(***************************************************************************)

LEMMA InvInit == Init => IInv
<1> SUFFICES ASSUME Init PROVE IInv
  OBVIOUS
<1>1. roles \in [RoleId -> Role]
  <2>1. Vacant("unused") \in Role
    BY VacantType
  <2>2. [state: {"live"}, name: Name, perms: Grants] \subseteq Role
    BY AdministrationAssumption DEF Role
  <2> QED
    BY <2>1, <2>2 DEF Init
<1>2. members \in [Member -> MemberRow] /\ \A m \in Member : members[m].role \in ExistingRoles
  <2>1. members \in [Member -> [active: {TRUE}, role: SystemRole \cup LiveRoles]]
    BY DEF Init
  <2>2. \A row \in [active: {TRUE}, role: SystemRole \cup LiveRoles] :
           row \in MemberRow /\ row.role \in ExistingRoles
    BY DEF MemberRow, ExistingRoles, AnyRole, LiveRoles
  <2> QED
    BY <2>1, <2>2
<1>3. sessions \subseteq Token
  BY <1>2 DEF Init, Token, MemberRow
<1>4. \A r \in RoleId : roles[r].perms \in SUBSET Permission
  BY <1>1 DEF Role
<1>5. TypeOK
  BY <1>1, <1>2, <1>3, <1>4, NameZero DEF Init, TypeOK, NoAnswer, AnyRole, SystemRole
<1>6. AssignedRolesExist /\ PermissionsOfLastUpdate
  BY <1>2 DEF Init, AssignedRolesExist, PermissionsOfLastUpdate
<1>7. \A p \in Proc : pc[p] = "idle" /\ req[p] = NoRequest /\ wrote[p] = FALSE
  BY DEF Init
<1>8. \A p \in Proc : Knows(p)
  BY <1>7 DEF Knows, Serves, KnowsRole, KnowsCaller, KnowsWritten
<1>9. DistinctIds /\ LockedOnce
  BY <1>7 DEF DistinctIds, LockedOnce, NoRequest
<1> QED
  BY <1>5, <1>6, <1>8, <1>9 DEF IInv

LEMMA RolesKeep == ASSUME IInv, NEW p \in Proc, Roles(p) PROVE IInv'
BY CreateNameKeeps, CreateInsertKeeps, CreateTenantKeeps, ReturnsKeep, UpdateReadKeeps, UpdateNameKeeps,
   UpdateRowKeeps, UpdateUniqueKeeps, UpdateDeleteKeeps, UpdatePermissionsKeeps,
   UpdateCommitKeeps, DeleteReadKeeps, DeleteCountKeeps, DeleteDeleteKeeps,
   DeletePermissionsKeeps, DeleteRowKeeps, DeleteKeysKeeps DEF Roles

LEMMA MembersKeep == ASSUME IInv, NEW p \in Proc, Members(p) PROVE IInv'
BY MemberReadKeeps, MemberRoleKeeps, MemberWriteKeeps, MemberKeyKeeps, ReturnsKeep,
   RemoveReadKeeps, RemoveWriteKeeps, InviteRoleKeeps, ValidatingKeeps, InviteTenantKeeps,
   InviteWriteKeeps DEF Members

LEMMA ProfileKeeps == ASSUME IInv, NEW p \in Proc, Profile(p) PROVE IInv'
BY TenantReadKeeps, SettingsNameKeeps, GeocodeKeeps, TenantSaveKeeps, ReturnsKeep DEF Profile

LEMMA InvStep == IInv /\ [Next]_vars => IInv'
<1> SUFFICES ASSUME IInv, [Next]_vars PROVE IInv'
  OBVIOUS
<1>1. ASSUME NEW p \in Proc, Begin(p) \/ Proceed(p) \/ Fail(p) \/ Victim(p) PROVE IInv'
  BY <1>1, BeginKeeps, RolesKeep, MembersKeep, ProfileKeeps, ReturnsKeep DEF Proceed
<1>2. CASE Denied
  BY <1>2, DeniedKeeps
<1>3. CASE Malformed
  BY <1>3, TurnedKeeps DEF Malformed
<1>4. CASE NoMember
  BY <1>4, NoMemberKeeps
<1>5. CASE Read
  BY <1>5, ReadKeeps
<1>6. ASSUME NEW n \in TenantName, OtherTenant(n) PROVE IInv'
  BY <1>6, OtherTenantKeeps
<1>7. CASE UNCHANGED vars
  <2>1. TypeOK'
    BY <1>7 DEF IInv, TypeOK, vars, database, history
  <2> QED
    BY <1>7, <2>1, OutsideKeeps DEF vars, database, history
<1> QED
  BY <1>1, <1>2, <1>3, <1>4, <1>5, <1>6, <1>7 DEF Next

LEMMA Invariant == Spec => []IInv
BY InvInit, InvStep, PTL DEF Spec

\* The variables of the tenant's administration keep their types.
THEOREM TypeCorrect == Spec => []TypeOK
<1>1. IInv => TypeOK
  BY DEF IInv
<1> QED
  BY <1>1, Invariant, PTL

\* Whatever requests interleave, no membership and no invitation refers to a role that was
\* deleted (DeleteCustomRole, UpdateRole, CreateInvitation).
THEOREM RolesExist == Spec => []AssignedRolesExist
<1>1. IInv => AssignedRolesExist
  BY DEF IInv
<1> QED
  BY <1>1, Invariant, PTL

\* Every role has the permissions of its last committed creation or update, never a mixture
\* of two (UpdateRoleTx).
THEOREM LastUpdate == Spec => []PermissionsOfLastUpdate
<1>1. IInv => PermissionsOfLastUpdate
  BY DEF IInv
<1> QED
  BY <1>1, Invariant, PTL

\* In every state the looser forms of the permission check allow what the stricter allow,
\* and none lets a custom role decide in another tenant (CheckPermission).
THEOREM Nest == Spec => []DecisionsNest
<1>1. DecisionsNest
  <2> SUFFICES ASSUME NEW m \in Member, NEW r \in AnyRole, NEW perm \in Permission
               PROVE  LET ask(t, n) == CheckPermission([tenant |-> t, role |-> r, member |-> n,
                                                        permission |-> perm])
                          token == [member |-> m, role |-> r]
                      IN  /\ callerHasPermission(token, perm) =>
                                 /\ ask("here", m) = "allowed"
                                 /\ FindActiveMembership("here", token)
                          /\ ask("here", m) = "allowed" =>
                                 ask("here", "none") = "allowed" /\ CheckActiveMembership("here", m)
                          /\ ask("here", "none") = "allowed" => ask("none", "none") = "allowed"
                          /\ r \in RoleId => ask("elsewhere", "none") = "denied"
                          /\ ask("elsewhere", m) = "denied"
    BY DEF DecisionsNest
  <2>1. m # "none"
    BY AccessAssumption
  <2>2. r \in RoleId => r \notin SystemRole
    BY AccessAssumption
  <2> QED
    BY <2>1, <2>2 DEF callerHasPermission, ActiveMemberHasPermission, CheckPermission,
                      checkPermission, Complete, FindActiveMembership, CheckActiveMembership,
                      BelongsTo, ExistingRoles
<1> QED
  BY <1>1, PTL
-----------------------------------------------------------------------------
(***************************************************************************)
(* The action properties.                                                  *)
(***************************************************************************)

\* A step of a handler.
Act(p) == Proceed(p) \/ Fail(p) \/ Victim(p)

LEMMA ActIsBusy == ASSUME NEW p \in Proc, Act(p) PROVE pc[p] # "idle"
BY DEF Act, Proceed, Roles, Members, Profile, Fail, Victim, Busy, WaitsFor, CreateName,
       CreateInsert, CreateTenant, CreateRead, UpdateRead, UpdateName, UpdateRow, UpdateUnique, UpdateDelete,
       UpdatePermissions, UpdateCommit, UpdateReadBack, DeleteRead, DeleteCount, DeleteDelete,
       DeletePermissions, DeleteRow, DeleteKeys, MemberRead, MemberRole, MemberWrite, MemberKey,
       MemberReadBack, RemoveRead, RemoveWrite, InviteRole, ValidateTeacher, ValidateTenant,
       ValidateMember, InviteTenant, InviteWrite, TenantRead, SettingsName, Geocode,
       TenantSave, LocationReadBack

\* It leaves the others where they are.
LEMMA ActAlone ==
    ASSUME TypeOK, NEW p \in Proc, Act(p)
    PROVE  \A q \in Proc \ {p} : pc'[q] = pc[q] /\ wrote'[q] = wrote[q]
<1>1. \/ \E error, w : Leave(p, error, w)
      \/ \E to : Goto(p, to) /\ (UNCHANGED wrote \/ wrote' = [wrote EXCEPT ![p] = TRUE])
  <2>1. CASE Roles(p)
    BY <2>1 DEF Roles, CreateName, CreateInsert, CreateTenant, CreateRead, UpdateRead, UpdateName, UpdateRow,
         UpdateUnique, UpdateDelete, UpdatePermissions, UpdateCommit, UpdateReadBack, DeleteRead,
         DeleteCount, DeleteDelete, DeletePermissions, DeleteRow, DeleteKeys, Return, Look, Finds, Commit,
         history
  <2>2. CASE Members(p)
    BY <2>2 DEF Members, MemberRead, MemberRole, MemberWrite, MemberKey, MemberReadBack,
         RemoveRead, RemoveWrite, InviteRole, ValidateTeacher, ValidateTenant, ValidateMember,
         InviteTenant, InviteWrite, Return, Look, Commit, history
  <2>3. CASE Profile(p)
    BY <2>3 DEF Profile, TenantRead, SettingsName, Geocode, TenantSave, LocationReadBack, Return,
         Look, Commit, history
  <2>4. CASE Fail(p) \/ Victim(p)
    BY <2>4 DEF Fail, Victim, Return
  <2> QED
    BY <2>1, <2>2, <2>3, <2>4 DEF Act, Proceed
<1> QED
  BY <1>1, LeaveFrame DEF Goto, TypeOK

\* Of the steps of nobody's handler none commits anything for a request.
LEMMA OthersCommitNothing ==
    ASSUME TypeOK,
           \/ \E p \in Proc : Begin(p)
           \/ Denied \/ Malformed \/ NoMember \/ Read
           \/ \E n \in TenantName : OtherTenant(n)
           \/ UNCHANGED vars
    PROVE  UNCHANGED wrote /\ \A p \in Proc : pc[p] # "idle" => pc'[p] = pc[p]
<1>1. ASSUME NEW p \in Proc, Begin(p)
      PROVE  UNCHANGED wrote /\ \A q \in Proc : pc[q] # "idle" => pc'[q] = pc[q]
  BY <1>1 DEF Begin, history, TypeOK
<1>2. CASE Denied \/ Malformed \/ NoMember \/ Read
  BY <1>2 DEF Denied, Malformed, NoMember, Read, Turned, history
<1>3. ASSUME NEW n \in TenantName, OtherTenant(n) PROVE UNCHANGED <<wrote, pc>>
  BY <1>3 DEF OtherTenant
<1>4. CASE UNCHANGED vars
  BY <1>4 DEF vars, history
<1> QED
  BY <1>1, <1>2, <1>3, <1>4

LEMMA CommitsWhenBusy ==
    ASSUME TypeOK, [Next]_vars, NEW p \in Proc, Commits(p)
    PROVE  pc[p] # "idle"
<1>1. ASSUME NEW q \in Proc, Act(q) PROVE pc[p] # "idle"
  BY <1>1, ActIsBusy, ActAlone DEF Commits, Busy
<1>2. CASE UNCHANGED wrote
  BY <1>2 DEF Commits, Busy
<1> QED
  BY <1>1, <1>2, OthersCommitNothing DEF Next, Act

\* What a removed or moved member's token still changes was allowed before the removal
\* (callerHasPermission, KEL-76).
THEOREM StaleTokens == Spec => StaleTokensChangeNothing
<1>1. IInv /\ [Next]_vars =>
         [\A p \in Proc : Commits(p) =>
             LET m == members[req[p].by.member]
             IN  (m.active /\ m.role = req[p].by.role) \/ overtaken[p]]_vars
  BY CommitsWhenBusy DEF IInv, Knows, KnowsCaller
<1> QED
  BY <1>1, Invariant, PTL DEF Spec, StaleTokensChangeNothing
\* Memberships change in two statements.
LEMMA MembersWriters ==
    ASSUME [Next]_vars, members' # members
    PROVE  \E p \in Proc : MemberKey(p) \/ RemoveWrite(p)
<1>1. ASSUME NEW p \in Proc, Act(p), ~MemberKey(p), ~RemoveWrite(p) PROVE UNCHANGED members
  <2>1. CASE Roles(p)
    BY <2>1 DEF Roles, CreateName, CreateInsert, CreateTenant, CreateRead, UpdateRead, UpdateName, UpdateRow,
         UpdateUnique, UpdateDelete, UpdatePermissions, UpdateCommit, UpdateReadBack, DeleteRead,
         DeleteCount, DeleteDelete, DeletePermissions, DeleteRow, DeleteKeys, Return, Look, Finds, database
  <2>2. CASE Members(p)
    BY <1>1, <2>2 DEF Members, MemberRead, MemberRole, MemberWrite, MemberReadBack, RemoveRead,
         InviteRole, ValidateTeacher, ValidateTenant, ValidateMember, InviteTenant, InviteWrite,
         Return, Look, database
  <2>3. CASE Profile(p)
    BY <2>3 DEF Profile, TenantRead, SettingsName, Geocode, TenantSave, LocationReadBack, Return,
         Look, database
  <2>4. CASE Fail(p) \/ Victim(p)
    BY <2>4 DEF Fail, Victim, Return, database
  <2> QED
    BY <1>1, <2>1, <2>2, <2>3, <2>4 DEF Act, Proceed
<1>2. ASSUME NEW p \in Proc, Begin(p) PROVE UNCHANGED members
  BY <1>2 DEF Begin, database
<1>3. CASE Denied \/ Malformed \/ NoMember \/ Read
  BY <1>3 DEF Denied, Malformed, NoMember, Read, Turned, database
<1>4. ASSUME NEW n \in TenantName, OtherTenant(n) PROVE UNCHANGED members
  BY <1>4 DEF OtherTenant
<1>5. CASE UNCHANGED vars
  BY <1>5 DEF vars, database
<1> QED
  BY <1>1, <1>2, <1>3, <1>4, <1>5 DEF Next, Act

LEMMA LastMemberStep ==
    ASSUME IInv, [Next]_vars, Empty', ~Empty
    PROVE  \E p \in Proc : RemoveWrite(p) /\ overtaken[p]
<1>1. PICK n \in Member : members[n].active /\ ~members'[n].active
  BY DEF Empty
<1>2. PICK p \in Proc : MemberKey(p) \/ RemoveWrite(p)
  BY <1>1, MembersWriters
<1>3. TypeOK /\ Knows(p) /\ pc[p] # "idle"
  BY <1>2 DEF IInv, MemberKey, RemoveWrite
<1>4. CASE MemberKey(p)
  <2>1. \/ UNCHANGED members
        \/ members' = [members EXCEPT ![req[p].member].role = req[p].role]
    BY <1>4 DEF MemberKey, Return, database
  <2>2. members'[n].active = members[n].active
    BY <1>3, <2>1 DEF TypeOK, MemberRow
  <2> QED
    BY <1>1, <2>2
<1>5. CASE RemoveWrite(p)
  <2> DEFINE m == req[p].member
             caller == req[p].by.member
  <2>1. caller \in Member /\ caller # m
    BY <1>3, <1>5, RequestFields DEF RemoveWrite, Knows, Serves, Own, isOwnMembership
  <2>2. UNCHANGED members \/ members' = [members EXCEPT ![m].active = FALSE]
    BY <1>5 DEF RemoveWrite, Return, database
  <2>3. members'[caller] = members[caller]
    BY <1>3, <2>1, <2>2 DEF TypeOK
  <2>4. ~members[caller].active
    BY <2>1, <2>3 DEF Empty
  <2> QED
    BY <1>3, <1>5, <2>4 DEF Knows, KnowsCaller
<1> QED
  BY <1>2, <1>4, <1>5

\* A tenant loses its last member only when members remove each other at the same time
\* (memberUsecase.Delete, KEL-81).
THEOREM LastMember == Spec => LastMemberOnlyByCrossing
<1>1. IInv /\ [Next]_vars =>
         [Empty' /\ ~Empty => \E p \in Proc : RemoveWrite(p) /\ overtaken[p]]_vars
  BY LastMemberStep
<1> QED
  BY <1>1, Invariant, PTL DEF Spec, LastMemberOnlyByCrossing

-----------------------------------------------------------------------------
\* Answers.

Tells ==
    /\ answer'.status \in 400..409 /\ answer'.wrote =>
          answer'.status = 404 /\ answer'.op \in {"updateRole", "updateMemberRole"}
    /\ answer'.status \in {200, 201} /\ answer'.op # "other" =>
          answer'.wrote \/ answer'.op = "deleteRole"

LEMMA Statuses ==
    \A op, error :
       /\ error # "success" => Status(Table(op), error) \notin {200, 201}
       /\ Status(Table(op), "success") \notin 400..409
       /\ Status(Table(op), "database") = 500
       /\ Status(Table(op), "notFound") \in {404, 500}
       /\ op = "createRole" => Status(Table(op), "notFound") = 500
<1> SUFFICES ASSUME NEW op, NEW error
             PROVE  /\ error # "success" => Status(Table(op), error) \notin {200, 201}
                    /\ Status(Table(op), "success") \notin 400..409
                    /\ Status(Table(op), "database") = 500
                    /\ Status(Table(op), "notFound") \in {404, 500}
                    /\ op = "createRole" => Status(Table(op), "notFound") = 500
  OBVIOUS
<1>1. CASE op = "createRole"
  BY <1>1 DEF Table, Status, CreateRoleStatus
<1>2. CASE op = "updateRole"
  BY <1>2 DEF Table, Status, UpdateRoleStatus
<1>3. CASE op = "deleteRole"
  BY <1>3 DEF Table, Status, DeleteRoleStatus
<1>4. CASE op = "updateMemberRole"
  BY <1>4 DEF Table, Status, UpdateMemberRoleStatus
<1>5. CASE op = "deleteMember"
  BY <1>5 DEF Table, Status, DeleteMemberStatus
<1>6. CASE op = "invite"
  BY <1>6 DEF Table, Status, CreateInvitationStatus
<1>7. CASE op = "settings"
  BY <1>7 DEF Table, Status, UpdateSettingsStatus
<1>8. CASE op \notin {"createRole", "updateRole", "deleteRole", "updateMemberRole",
                      "deleteMember", "invite", "settings"}
  BY <1>8 DEF Table, Status, UpdateLocationStatus
<1> QED
  BY <1>1, <1>2, <1>3, <1>4, <1>5, <1>6, <1>7, <1>8

\* Steps that give no answer, or one about a request that wrote nothing.
LEMMA SilentTells == ASSUME answer' = NoAnswer PROVE Tells
BY DEF NoAnswer, Tells

LEMMA RefusedTells ==
    ASSUME NEW op, NEW error, error # "success", Responds(op, error, FALSE) PROVE Tells
BY Statuses DEF Responds, Tells

LEMMA DoneTells == ASSUME NEW op, Responds(op, "success", TRUE) PROVE Tells
BY Statuses DEF Responds, Tells

LEMMA ReturnTells ==
    ASSUME NEW p, NEW error, Return(p, error), wrote[p] \in BOOLEAN,
           error = "success" => wrote[p] \/ req[p].op = "deleteRole",
           wrote[p] =>
              \/ error \in {"success", "database"}
              \/ /\ error = "notFound"
                 /\ req[p].op \in {"createRole", "updateRole", "updateMemberRole"}
    PROVE  Tells
<1>1. Responds(req[p].op, error, wrote[p])
  BY DEF Return, Leave
<1> QED
  BY <1>1, Statuses DEF Responds, Tells
LEMMA QuietTells == ASSUME NEW p, NEW to, Goto(p, to) PROVE Tells
BY SilentTells DEF Goto

LEMMA RefusalTells ==
    ASSUME IInv, NEW p \in Proc, NEW error, Return(p, error), pc[p] \notin LastStep,
           error = "success" => req[p].op = "deleteRole"
    PROVE  Tells
<1>1. wrote[p] = FALSE
  BY DEF IInv, Knows, KnowsWritten, TypeOK
<1> QED
  BY <1>1, ReturnTells

LEMMA DatabaseTells ==
    ASSUME IInv, NEW p \in Proc, Return(p, "database") PROVE Tells
<1>1. wrote[p] \in BOOLEAN
  BY DEF IInv, TypeOK
<1> QED
  BY <1>1, ReturnTells

LEMMA LeaveTells == ASSUME NEW p, Leave(p, "success", TRUE) PROVE Tells
BY DoneTells DEF Leave

\* What is read back after the commit tells whether there was one.
LEMMA ReadBackTells ==
    ASSUME IInv, NEW p \in Proc,
           CreateRead(p) \/ UpdateReadBack(p) \/ MemberReadBack(p) \/ LocationReadBack(p)
    PROVE  Tells
<1>1. Knows(p) /\ wrote[p] \in BOOLEAN
  BY DEF IInv, TypeOK
<1>2. CASE CreateRead(p)
  <2>1. wrote[p] /\ req[p].op = "createRole" /\ Return(p, ReadBack(p))
    BY <1>1, <1>2 DEF CreateRead, Knows, Serves, KnowsWritten
  <2> QED
    BY <1>1, <2>1, ReturnTells DEF ReadBack
<1>3. CASE UpdateReadBack(p)
  <2>1. /\ wrote[p] \/ req[p].role \notin LiveRoles
        /\ req[p].op = "updateRole" /\ Return(p, ReadBack(p))
    BY <1>1, <1>3 DEF UpdateReadBack, Knows, Serves, KnowsWritten
  <2> QED
    BY <1>1, <2>1, ReturnTells DEF ReadBack
<1>4. CASE MemberReadBack(p)
  <2>1. /\ wrote[p] \/ ~members[req[p].member].active
        /\ req[p].op = "updateMemberRole"
    BY <1>1, <1>4 DEF MemberReadBack, Knows, Serves, KnowsWritten
  <2> QED
    BY <1>1, <1>4, <2>1, ReturnTells DEF MemberReadBack
<1>5. CASE LocationReadBack(p)
  <2>1. wrote[p] /\ Return(p, "success")
    BY <1>1, <1>5 DEF LocationReadBack, Knows, KnowsWritten
  <2> QED
    BY <1>1, <2>1, ReturnTells
<1> QED
  BY <1>2, <1>3, <1>4, <1>5

LEMMA RolesTell == ASSUME IInv, NEW p \in Proc, Roles(p) PROVE Tells
<1>1. \A r : RoleError(r) # "success"
  BY DEF RoleError
<1>2. CASE CreateName(p) \/ CreateInsert(p) \/ CreateTenant(p)
  BY <1>2, QuietTells, RefusalTells DEF CreateName, CreateInsert, CreateTenant, Look
<1>3. CASE UpdateRead(p) \/ UpdateName(p) \/ UpdateRow(p) \/ UpdateUnique(p)
  BY <1>1, <1>3, QuietTells, RefusalTells DEF UpdateRead, UpdateName, UpdateRow, UpdateUnique, Look
<1>4. CASE UpdateDelete(p) \/ UpdatePermissions(p) \/ UpdateCommit(p)
  BY <1>4, QuietTells, DatabaseTells DEF UpdateDelete, UpdatePermissions, UpdateCommit, Finds, Look
<1>5. CASE DeleteRead(p) \/ DeleteCount(p) \/ DeleteDelete(p) \/ DeletePermissions(p)
  BY <1>1, <1>5, QuietTells, RefusalTells
     DEF DeleteRead, DeleteCount, DeleteDelete, DeletePermissions, Finds, Look
<1>6. CASE DeleteRow(p) \/ DeleteKeys(p)
  <2>1. req[p].op = "deleteRole" /\ pc[p] \in {"deleteRow", "deleteKeys"}
    BY <1>6 DEF DeleteRow, DeleteKeys, IInv, Knows, Serves
  <2> QED
    BY <1>6, <2>1, QuietTells, RefusalTells, LeaveTells DEF DeleteRow, DeleteKeys, Look
<1>7. CASE CreateRead(p) \/ UpdateReadBack(p)
  BY <1>7, ReadBackTells
<1> QED
  BY <1>2, <1>3, <1>4, <1>5, <1>6, <1>7 DEF Roles

LEMMA MembersTell == ASSUME IInv, NEW p \in Proc, Members(p) PROVE Tells
<1>1. CASE MemberRead(p) \/ MemberRole(p) \/ MemberWrite(p) \/ MemberKey(p)
  BY <1>1, QuietTells, RefusalTells DEF MemberRead, MemberRole, MemberWrite, MemberKey, Look
<1>2. CASE RemoveRead(p) \/ RemoveWrite(p)
  BY <1>2, QuietTells, RefusalTells, LeaveTells DEF RemoveRead, RemoveWrite, Look
<1>3. CASE InviteRole(p) \/ InviteTenant(p) \/ InviteWrite(p)
  BY <1>3, QuietTells, RefusalTells, LeaveTells DEF InviteRole, InviteTenant, InviteWrite, Look
<1>5. CASE ValidateTeacher(p) \/ ValidateTenant(p) \/ ValidateMember(p)
  BY <1>5, QuietTells, RefusalTells DEF ValidateTeacher, ValidateTenant, ValidateMember, Look
<1>4. CASE MemberReadBack(p)
  BY <1>4, ReadBackTells
<1> QED
  BY <1>1, <1>2, <1>3, <1>4, <1>5 DEF Members

LEMMA ProfileTells == ASSUME IInv, NEW p \in Proc, Profile(p) PROVE Tells
<1>1. CASE TenantRead(p) \/ SettingsName(p) \/ Geocode(p)
  BY <1>1, QuietTells, RefusalTells DEF TenantRead, SettingsName, Geocode, Look
<1>2. CASE TenantSave(p)
  BY <1>2, QuietTells, RefusalTells, LeaveTells DEF TenantSave
<1>3. CASE LocationReadBack(p)
  BY <1>3, ReadBackTells
<1> QED
  BY <1>1, <1>2, <1>3 DEF Profile

LEMMA NextTells == ASSUME IInv, Next PROVE Tells
<1>1. ASSUME NEW p \in Proc, Act(p) PROVE Tells
  BY <1>1, RolesTell, MembersTell, ProfileTells, DatabaseTells DEF Act, Proceed, Fail, Victim
<1>2. CASE (\E p \in Proc : Begin(p)) \/ (\E n \in TenantName : OtherTenant(n))
  BY <1>2, SilentTells DEF Begin, OtherTenant
<1>3. CASE Denied
  BY <1>3, RefusedTells DEF Denied
<1>4. CASE Malformed \/ NoMember \/ Read
  BY <1>4 DEF Malformed, NoMember, Read, Turned, Tells
<1> QED
  BY <1>1, <1>2, <1>3, <1>4 DEF Next, Act

\* A request answered as refused wrote nothing, and one answered as done did it, up to what
\* others undo before it is read back.
THEOREM AnswersTell == Spec => AnswersTellOutcome
<1>1. IInv /\ [Next]_vars =>
         [ /\ answer'.status \in 400..409 /\ answer'.wrote =>
                  answer'.status = 404 /\ answer'.op \in {"updateRole", "updateMemberRole"}
           /\ answer'.status \in {200, 201} /\ answer'.op # "other" =>
                  answer'.wrote \/ answer'.op = "deleteRole" ]_vars
  BY NextTells DEF Tells
<1> QED
  BY <1>1, Invariant, PTL DEF Spec, AnswersTellOutcome

-----------------------------------------------------------------------------
(***************************************************************************)
(* The listing of the members.                                             *)
(***************************************************************************)

\* Whatever requests and removals ran before it, a listing of the members shows each of them
\* on exactly one page.
THEOREM Pages == Spec => []PagesPartitionMembers
<1>1. IInv => PagesPartitionMembers
  <2> DEFINE active == {m \in Member : members[m].active}
  <2>1. IsFiniteSet(active)
    BY AccessAssumption, FS_Subset
  <2>2. Bystanders + Cardinality(active) \in Nat
    BY <2>1, FS_CardinalityType, AdministrationAssumption
  <2> HIDE DEF active
  <2>3. \A rows \in Nat : rows <= MaxRows => rows \in 0 .. MaxRows
    BY ListingAssumption
  <2>4. \A rows \in Nat : rows <= MaxRows => AlwaysPartitioned[rows]
    BY <2>3, AlwaysPartitionedHolds
  <2> QED
    BY <2>2, <2>4 DEF PagesPartitionMembers, active
<1> QED
  BY <1>1, Invariant, PTL

-----------------------------------------------------------------------------
(***************************************************************************)
(* Deadlocks.                                                              *)
(***************************************************************************)

\* Requests of which each waits for another one of them.
Deadlocked(S) == S # {} /\ \A p \in S : WaitsFor(p) \cap S # {}

Cross(p, q) == q \in WaitsFor(p) /\ p \in WaitsFor(q)

\* DeleteRole has deleted the permissions of a role and waits for its row, which is locked by
\* who waits for the permissions: UpdateRoleTx, or another DeleteRole that had found none.
MeetsDelete(p, q) ==
    /\ pc[p] \in {"updatePermissions", "deleteKeys"} /\ pc[q] = "deleteRow"
    /\ req[p].role = req[q].role /\ Cross(p, q)

\* Two invitations of a Teacher of this tenant share the membership and both lock it then
\* (ValidateExistingTeacher).
InvitationsMeet(p, q) ==
    /\ pc[p] = "validateMember" /\ pc[q] = "validateMember"
    /\ req[p].to = req[q].to /\ Cross(p, q)

NamingStep == {"updateUnique", "createTenant", "inviteWrite"}

\* One asks for a name that is held by another update, or by a creation that waits for the
\* tenant of an invitation that waits for a role that is being renamed.
NamesRotate(S) ==
    /\ Deadlocked(S)
    /\ \A p \in S : pc[p] \in NamingStep
    /\ \E p \in S : pc[p] = "updateUnique"

DeadlocksAreThree ==
    \A S \in SUBSET Proc : Deadlocked(S) =>
        \/ \E p, q \in S : MeetsDelete(p, q)
        \/ \E p, q \in S : InvitationsMeet(p, q)
        \/ \E T \in SUBSET S : NamesRotate(T)

\* The steps at which a request has what others wait for.
HolderStep == LockedStep \cup {"deleteRow", "createTenant", "memberKey", "validateTenant",
                               "validateMember", "inviteWrite"}

\* Nobody waits for a request that holds nothing yet.
LEMMA Holders ==
    ASSUME NEW p \in Proc, NEW q \in WaitsFor(p)
    PROVE  q \in Proc \ {p} /\ pc[q] \in HolderStep
BY DEF WaitsFor, RowOf, Others, HoldsRole, HoldsKey, HoldsName, HoldsPermissions, HoldsMember,
       WritesMember, HoldsTenant, SharesTenant, HolderStep

\* Who has locked a role and waits for its permissions has met a deletion.
LEMMA PermissionsAwaited ==
    ASSUME IInv, NEW S \in SUBSET Proc, Deadlocked(S), NEW p \in S,
           pc[p] \in {"updatePermissions", "deleteKeys"}
    PROVE  \E q \in S : MeetsDelete(p, q)
<1>1. PICK q \in S : q \in WaitsFor(p)
  BY DEF Deadlocked
<1>2. /\ q \in Proc /\ q # p /\ req[q].role = req[p].role
      /\ pc[q] \in {"updateCommit", "deleteRow", "deleteKeys"}
  BY <1>1 DEF WaitsFor, Others, HoldsPermissions
<1>3. PICK u \in S : u \in WaitsFor(q)
  BY DEF Deadlocked
<1>4. pc[q] # "updateCommit"
  BY <1>3 DEF WaitsFor
<1>5. pc[q] # "deleteKeys"
  BY <1>2 DEF IInv, LockedOnce, Knows, KnowsRole
<1>6. pc[q] = "deleteRow" /\ HoldsRole(u, req[p].role)
  BY <1>2, <1>3, <1>4, <1>5 DEF WaitsFor
<1>7. u = p
  BY <1>6 DEF HoldsRole, IInv, LockedOnce
<1> QED
  BY <1>1, <1>2, <1>3, <1>6, <1>7 DEF MeetsDelete, Cross

LEMMA DeadlockShape == ASSUME IInv PROVE DeadlocksAreThree
<1> SUFFICES ASSUME NEW S \in SUBSET Proc, Deadlocked(S),
                    ~\E p, q \in S : MeetsDelete(p, q),
                    ~\E p, q \in S : InvitationsMeet(p, q)
             PROVE  \E T \in SUBSET S : NamesRotate(T)
  BY DEF DeadlocksAreThree
<1> DEFINE T == {p \in S : pc[p] \in NamingStep}
<1>1. ASSUME NEW p \in S, pc[p] \in LockedStep PROVE pc[p] = "updateUnique"
  <2>1. pc[p] \notin {"updatePermissions", "deleteKeys"}
    BY PermissionsAwaited
  <2>2. WaitsFor(p) # {}
    BY DEF Deadlocked
  <2>3. pc[p] \notin {"updateDelete", "updateCommit"}
    BY <2>2 DEF WaitsFor
  <2> QED
    BY <1>1, <2>1, <2>3
<1>2. ASSUME NEW p \in S, pc[p] \in {"deleteRow", "memberKey", "inviteWrite"}
      PROVE  \E q \in S : q \in WaitsFor(p) /\ pc[q] = "updateUnique"
  <2>1. PICK q \in S : q \in WaitsFor(p)
    BY DEF Deadlocked
  <2>2. pc[q] \in LockedStep
    BY <1>2, <2>1 DEF WaitsFor, HoldsRole, HoldsKey
  <2> QED
    BY <1>1, <2>1, <2>2
<1>3. ASSUME NEW p \in S, pc[p] \in {"createTenant", "validateTenant"}
      PROVE  \E q \in S : q \in WaitsFor(p) /\ pc[q] = "inviteWrite"
  <2>1. PICK q \in S : q \in WaitsFor(p)
    BY DEF Deadlocked
  <2> QED
    BY <1>3, <2>1 DEF WaitsFor, HoldsTenant
<1>4. ASSUME NEW p \in S, pc[p] = "updateUnique"
      PROVE  \E q \in S : q \in WaitsFor(p) /\ pc[q] \in {"updateUnique", "createTenant"}
  <2>1. PICK q \in S : q \in WaitsFor(p)
    BY DEF Deadlocked
  <2>2. pc[q] \in LockedStep \/ pc[q] = "createTenant"
    BY <1>4, <2>1 DEF WaitsFor, HoldsRole, HoldsName
  <2> QED
    BY <1>1, <2>1, <2>2
<1>5. ASSUME NEW p \in S, pc[p] = "validateMember"
      PROVE  \E q \in S : pc[q] \in {"memberKey", "validateTenant"}
  <2>1. PICK q \in S : q \in WaitsFor(p)
    BY DEF Deadlocked
  <2>2. q \in Proc \ {p} /\ HoldsMember(q, req[p].to)
    BY <1>5, <2>1 DEF WaitsFor, Others
  <2>3. ASSUME pc[q] = "validateMember" PROVE FALSE
    <3>1. req[q].to = req[p].to
      BY <2>2, <2>3 DEF HoldsMember, WritesMember
    <3>2. p \in WaitsFor(q)
      BY <1>5, <2>2, <2>3, <3>1 DEF WaitsFor, Others, HoldsMember
    <3> QED
      BY <1>5, <2>1, <2>3, <3>1, <3>2 DEF InvitationsMeet, Cross
  <2> QED
    BY <2>2, <2>3 DEF HoldsMember, WritesMember
<1>6. T # {}
  <2>1. PICK p \in S : TRUE
    BY DEF Deadlocked
  <2>2. PICK q \in S : q \in WaitsFor(p)
    BY DEF Deadlocked
  <2>3. pc[q] \in HolderStep
    BY <2>2, Holders
  <2>4. \E u \in S : pc[u] \in NamingStep
    BY <1>1, <1>2, <1>3, <1>5, <2>3 DEF HolderStep, NamingStep
  <2> QED
    BY <2>4
<1>7. Deadlocked(T)
  <2>1. ASSUME NEW p \in T PROVE WaitsFor(p) \cap T # {}
    BY <1>2, <1>3, <1>4, <2>1 DEF NamingStep
  <2> QED
    BY <1>6, <2>1 DEF Deadlocked
<1>8. \E p \in T : pc[p] = "updateUnique"
  <2>1. PICK p \in T : TRUE
    BY <1>6
  <2> QED
    BY <1>2, <1>3, <2>1 DEF NamingStep
<1> QED
  BY <1>7, <1>8 DEF NamesRotate

\* Requests about roles, members, invitations and the profile deadlock in three ways only: a
\* deletion of a role meets an update or another deletion of it, as they lock its row and its
\* permissions in opposite orders (UpdateRoleTx, DeleteRole); two invitations of a Teacher
\* of the tenant lock one membership, shared first (ValidateExistingTeacher); or a renaming
\* asks for a name in a circle of renamings, creations and invitations (ReplaceActive).
THEOREM Deadlocks == Spec => []DeadlocksAreThree
BY DeadlockShape, Invariant, PTL
=============================================================================
