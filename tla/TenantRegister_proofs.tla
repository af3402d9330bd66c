----------------------- MODULE TenantRegister_proofs ------------------------
(***************************************************************************)
(* TenantAdministration implements TenantRegister: whatever statements run *)
(* between the checks of a request and its write, the write does what the  *)
(* request asked for and is allowed at that instant.  Two things make it   *)
(* so besides what IInv says: who waits for a name (Sure, NamesApart), and *)
(* that nobody is made a Creator or stops being one.                       *)
(***************************************************************************)
EXTENDS TenantAdministration_proofs

-----------------------------------------------------------------------------
(***************************************************************************)
(* What a request is sure of.                                              *)
(***************************************************************************)

\* The steps in which an update has got the name it asks for, and those in which an
\* invitation was found to ask for a role it may.
NamedStep == {"updateDelete", "updatePermissions", "updateCommit"}

AskedStep == {"validateTeacher", "validateTenant", "validateMember", "validateOther",
              "inviteTenant", "inviteWrite"}

Names(p) == pc[p] = "createTenant" \/ (pc[p] \in NamedStep /\ req[p].role \in LiveRoles)

SureOfName(p) == Names(p) => \A s \in LiveRoles \ {req[p].role} : roles[s].name # req[p].name

SureOfMember(p) ==
    pc[p] \in {"memberRole", "memberWrite", "memberKey"} =>
        /\ ~Own(p)
        /\ current[p] = "Creator" <=> members[req[p].member].role = "Creator"

SureOfRole(p) ==
    /\ pc[p] \in {"memberWrite", "memberKey"} =>
         req[p].role # "Creator" /\ current[p] # "Creator"
    /\ pc[p] \in AskedStep => req[p].role # "Creator"

Sure(p) == SureOfName(p) /\ SureOfMember(p) /\ SureOfRole(p)

\* Two requests never bring the same name.
NamesApart == \A p, q \in Proc : p # q /\ Names(p) /\ Names(q) => req[p].name # req[q].name

RInv ==
    /\ IInv
    /\ NamesDiffer
    /\ NamesApart
    /\ \A p \in Proc : Sure(p)

-----------------------------------------------------------------------------
(***************************************************************************)
(* The effects of the register.                                            *)
(***************************************************************************)

LEMMA SameTables ==
    /\ Register!AnyRole = AnyRole
    /\ Register!LiveRoles = LiveRoles
    /\ Register!ExistingRoles = ExistingRoles
    /\ Register!NamesDiffer <=> NamesDiffer
    /\ \A state : Register!Vacant(state) = Vacant(state)
BY DEF Register!AnyRole, Register!LiveRoles, Register!ExistingRoles, Register!NamesDiffer,
       Register!Vacant, Register!SystemRole, AnyRole, LiveRoles, ExistingRoles, NamesDiffer,
       Vacant, SystemRole

\* A role that takes a free name keeps the names apart.
LEMMA CarriesKeepsNames ==
    ASSUME TypeOK, NamesDiffer, NEW r \in RoleId, NEW q,
           Register!Free(q.name, r), Register!Carries(r, q)
    PROVE  NamesDiffer'
<1>1. \A s \in LiveRoles \ {r} : roles[s].name # q.name
  BY SameTables DEF Register!Free
<1>2. /\ LiveRoles' = LiveRoles \cup {r}
      /\ roles'[r].name = q.name
      /\ \A s \in LiveRoles' \ {r} : s \in LiveRoles /\ roles'[s] = roles[s]
  BY DEF Register!Carries, TypeOK, LiveRoles
<1>3. ASSUME NEW s \in LiveRoles', NEW u \in LiveRoles', s # u
      PROVE  roles'[s].name # roles'[u].name
  BY <1>1, <1>2, <1>3 DEF NamesDiffer
<1> QED
  BY <1>3 DEF NamesDiffer

\* No two roles ever have one name.
LEMMA EffectKeepsNames ==
    ASSUME TypeOK, NamesDiffer, NEW r, Register!Effect(r)
    PROVE  NamesDiffer'
<1>1. CASE Register!CreateRole(r)
  BY <1>1, CarriesKeepsNames DEF Register!CreateRole
<1>2. CASE Register!UpdateRole(r)
  <2>1. r.role \in RoleId
    BY <1>2, SameTables DEF Register!UpdateRole, LiveRoles
  <2> QED
    BY <1>2, <2>1, CarriesKeepsNames DEF Register!UpdateRole
<1>3. CASE Register!DeleteRole(r)
  <2>1. roles' = [roles EXCEPT ![r.role] = Vacant("deleted")]
    BY <1>3, SameTables DEF Register!DeleteRole
  <2>2. \A s \in LiveRoles' : s \in LiveRoles /\ roles'[s] = roles[s]
    BY <2>1 DEF TypeOK, LiveRoles, Vacant
  <2>3. ASSUME NEW s \in LiveRoles', NEW u \in LiveRoles', s # u
        PROVE  roles'[s].name # roles'[u].name
    BY <2>2, <2>3 DEF NamesDiffer
  <2> QED
    BY <2>3 DEF NamesDiffer
<1>4. CASE UNCHANGED roles
  BY <1>4 DEF NamesDiffer, LiveRoles
<1> QED
  BY <1>1, <1>2, <1>3, <1>4 DEF Register!Effect, Register!UpdateMemberRole,
     Register!DeleteMember, Register!Invite, Register!Elsewhere

\* Nobody becomes a Creator, and no Creator becomes anything else.
CreatorsKept == \A m \in Member : members'[m].role = "Creator" <=> members[m].role = "Creator"

LEMMA EffectKeepsCreators ==
    ASSUME TypeOK, NEW r, Register!Effect(r)
    PROVE  CreatorsKept
<1>1. CASE Register!UpdateMemberRole(r)
  BY <1>1 DEF Register!UpdateMemberRole, Register!Assignable, CreatorsKept, TypeOK, MemberRow
<1>2. CASE Register!DeleteMember(r)
  BY <1>2 DEF Register!DeleteMember, CreatorsKept, TypeOK, MemberRow
<1>3. CASE UNCHANGED members
  BY <1>3 DEF CreatorsKept
<1> QED
  BY <1>1, <1>2, <1>3 DEF Register!Effect, Register!CreateRole, Register!UpdateRole,
     Register!DeleteRole, Register!Invite, Register!Elsewhere

-----------------------------------------------------------------------------
(***************************************************************************)
(* What a step of a handler comes to: an answer, a look or a write.        *)
(***************************************************************************)

\* It leaves the others where they are.
Alone(p) ==
    \A q \in Proc \ {p} :
        pc'[q] = pc[q] /\ req'[q] = req[q] /\ current'[q] = current[q] /\ wrote'[q] = wrote[q]

tables == <<roles, members, invited>>

Answers(p) == pc[p] # "idle" /\ pc'[p] = "idle" /\ Register!Close(p) /\ UNCHANGED tables

\* What it is sure of it has read, or waited for.
Looks(p) ==
    /\ UNCHANGED <<tables, req, wrote>>
    /\ Sure(p)'
    /\ Names(p)' =>
          Names(p) \/ \A q \in Proc \ {p} : Names(q) => req[q].name # req[p].name

Unsure ==
    Step \ (NamedStep \cup AskedStep
             \cup {"createTenant", "memberRole", "memberWrite", "memberKey"})

Writes(p) ==
    /\ Register!Apply(p)
    /\ pc'[p] \in Unsure
    /\ req[p].op \in {"createRole", "updateRole"} =>
          \A q \in Proc \ {p} :
              Names(q) => req[q].role # req[p].role /\ req[q].name # req[p].name

Outcome(p) == Answers(p) \/ Looks(p) \/ Writes(p)

USE DEF Step, NamedStep, AskedStep, Unsure

LEMMA UnsureIsSure ==
    ASSUME NEW p, pc'[p] \in Unsure
    PROVE  Sure(p)' /\ ~Names(p)'
BY DEF Sure, SureOfName, SureOfMember, SureOfRole, Names

LEMMA ActLeavesAlone == ASSUME TypeOK, NEW p \in Proc, Act(p) PROVE Alone(p)
<1>1. \/ \E error, w : Leave(p, error, w)
      \/ /\ \E to : Goto(p, to)
         /\ UNCHANGED req
         /\ UNCHANGED current \/ \E r : current' = [current EXCEPT ![p] = r]
         /\ UNCHANGED wrote \/ wrote' = [wrote EXCEPT ![p] = TRUE]
  <2>1. CASE Roles(p)
    BY <2>1 DEF Roles, CreateName, CreateInsert, CreateTenant, CreateRead, UpdateRead,
         UpdateName, UpdateRow, UpdateUnique, UpdateDelete, UpdatePermissions, UpdateCommit,
         UpdateReadBack, DeleteRead, DeleteCount, DeleteDelete, DeletePermissions, DeleteRow,
         DeleteKeys, Return, Look, Finds, Commit, history
  <2>2. CASE Members(p)
    BY <2>2 DEF Members, MemberRead, MemberRole, MemberWrite, MemberKey, MemberReadBack,
         RemoveRead, RemoveWrite, InviteRole, ValidateTeacher, ValidateTenant, ValidateMember,
         InviteTenant, InviteWrite, Return, Look, Commit, history
  <2>3. CASE Profile(p)
    BY <2>3 DEF Profile, TenantRead, SettingsName, Geocode, TenantSave, LocationReadBack, Return,
         Look, Commit, history
  <2>4. CASE Fail(p) \/ Victim(p)
    BY <2>4 DEF Fail, Victim, Return
  <2> QED
    BY <2>1, <2>2, <2>3, <2>4 DEF Act, Proceed
<1> QED
  BY <1>1 DEF Alone, Leave, Goto, TypeOK

LEMMA LeaveCloses ==
    ASSUME TypeOK, NEW p \in Proc, NEW error, NEW w, Leave(p, error, w)
    PROVE  Register!Close(p) /\ pc'[p] = "idle"
BY DEF Leave, Register!Close, Register!NoRequest, NoRequest, TypeOK

LEMMA ReturnAnswers ==
    ASSUME TypeOK, NEW p \in Proc, pc[p] # "idle", NEW error, Return(p, error)
    PROVE  Outcome(p)
<1>1. Leave(p, error, wrote[p]) /\ UNCHANGED tables
  BY DEF Return, database, tables
<1> QED
  BY <1>1, LeaveCloses DEF Answers, Outcome

\* A look after which it is sure of nothing more.
LEMMA LookLooks ==
    ASSUME TypeOK, NEW p \in Proc, NEW to \in Unsure, Look(p, to)
    PROVE  Outcome(p)
<1>1. pc'[p] = to /\ UNCHANGED <<tables, req, wrote>>
  BY DEF Look, Goto, TypeOK, database, history, tables
<1> QED
  BY <1>1, UnsureIsSure DEF Looks, Outcome

-----------------------------------------------------------------------------
(***************************************************************************)
(* The reading steps.                                                      *)
(***************************************************************************)

LEMMA ReadingsCome ==
    ASSUME RInv, NEW p \in Proc,
           \/ CreateName(p) \/ CreateRead(p)
           \/ UpdateRead(p) \/ UpdateName(p) \/ UpdateReadBack(p)
           \/ DeleteRead(p) \/ DeleteCount(p) \/ DeletePermissions(p)
           \/ MemberReadBack(p) \/ RemoveRead(p)
           \/ SettingsName(p) \/ Geocode(p) \/ LocationReadBack(p)
    PROVE  Outcome(p)
<1>1. pc[p] # "idle" /\ ((\E to \in Unsure : Look(p, to)) \/ \E error : Return(p, error))
  <2>1. /\ "createInsert" \in Unsure /\ "updateRow" \in Unsure /\ "updateName" \in Unsure
        /\ "deleteCount" \in Unsure /\ "deleteDelete" \in Unsure /\ "deleteRow" \in Unsure
        /\ "removeWrite" \in Unsure /\ "tenantSave" \in Unsure
    BY DEF Unsure
  <2>2. CASE CreateName(p) \/ CreateRead(p)
    BY <2>1, <2>2 DEF CreateName, CreateRead
  <2>3. CASE UpdateRead(p) \/ UpdateName(p) \/ UpdateReadBack(p)
    BY <2>1, <2>3 DEF UpdateRead, UpdateName, UpdateReadBack
  <2>4. CASE DeleteRead(p) \/ DeleteCount(p) \/ DeletePermissions(p)
    BY <2>1, <2>4 DEF DeleteRead, DeleteCount, DeletePermissions
  <2>5. CASE MemberReadBack(p) \/ RemoveRead(p)
    BY <2>1, <2>5 DEF MemberReadBack, RemoveRead
  <2>6. CASE SettingsName(p) \/ Geocode(p) \/ LocationReadBack(p)
    BY <2>1, <2>6 DEF SettingsName, Geocode, LocationReadBack
  <2> QED
    BY <2>2, <2>3, <2>4, <2>5, <2>6
<1> QED
  BY <1>1, ReturnAnswers, LookLooks DEF RInv, IInv

LEMMA FindsCome ==
    ASSUME RInv, NEW p \in Proc, NEW to \in Unsure, Finds(p, to)
    PROVE  Outcome(p)
<1>1. pc'[p] = to /\ UNCHANGED <<tables, req, wrote>>
  BY DEF Finds, Goto, database, history, tables, RInv, IInv, TypeOK
<1> QED
  BY <1>1, UnsureIsSure DEF Looks, Outcome

LEMMA TenantReadComes == ASSUME RInv, NEW p \in Proc, TenantRead(p) PROVE Outcome(p)
<1>1. pc'[p] \in {"settingsName", "geocode"} /\ UNCHANGED <<tables, req, wrote>>
  BY DEF TenantRead, Goto, database, history, tables, RInv, IInv, TypeOK
<1>2. pc'[p] \in Unsure
  BY <1>1 DEF Unsure
<1> QED
  BY <1>1, <1>2, UnsureIsSure DEF Looks, Outcome

\* An update that goes on with the name it has got.
LEMMA NamedGoesOn ==
    ASSUME RInv, NEW p \in Proc, pc[p] \in NamedStep, pc'[p] \in NamedStep,
           UNCHANGED <<tables, req, wrote>>
    PROVE  Outcome(p)
<1>1. Names(p)' => Names(p)
  BY DEF Names, tables, LiveRoles
<1>2. SureOfName(p)'
  BY <1>1 DEF RInv, Sure, SureOfName, Names, tables, LiveRoles
<1>3. SureOfMember(p)' /\ SureOfRole(p)'
  BY DEF SureOfMember, SureOfRole
<1> QED
  BY <1>1, <1>2, <1>3 DEF Looks, Outcome, Sure

LEMMA UpdateDeleteComes == ASSUME RInv, NEW p \in Proc, UpdateDelete(p) PROVE Outcome(p)
BY NamedGoesOn DEF UpdateDelete, Finds, Goto, database, history, tables, RInv, IInv, TypeOK,
                   NamedStep

LEMMA UpdatePermissionsComes ==
    ASSUME RInv, NEW p \in Proc, UpdatePermissions(p)
    PROVE  Outcome(p)
BY NamedGoesOn DEF UpdatePermissions, Look, Goto, database, history, tables, RInv, IInv, TypeOK,
                   NamedStep

\* A request that gets its name: no role has it and no other request is about to.
LEMMA GetsName ==
    ASSUME RInv, NEW p \in Proc, NEW to \in {"createTenant", "updateDelete"}, Look(p, to),
           req[p].role \in LiveRoles \/ to = "createTenant" =>
              /\ \A s \in LiveRoles \ {req[p].role} : roles[s].name # req[p].name
              /\ \A q \in Proc \ {p} : Names(q) => req[q].name # req[p].name
    PROVE  Outcome(p)
<1>1. pc'[p] = to /\ UNCHANGED <<tables, req, wrote>>
  BY DEF Look, Goto, RInv, IInv, TypeOK, database, history, tables
<1>2. Names(p)' => req[p].role \in LiveRoles \/ to = "createTenant"
  BY <1>1 DEF Names, tables, LiveRoles
<1>3. SureOfName(p)'
  BY <1>1, <1>2 DEF SureOfName, tables, LiveRoles
<1>4. SureOfMember(p)' /\ SureOfRole(p)'
  BY <1>1 DEF SureOfMember, SureOfRole
<1> QED
  BY <1>1, <1>2, <1>3, <1>4 DEF Looks, Outcome, Sure

\* The role of a request that has got the name of a new one is not there yet.
LEMMA CreatesUnused ==
    ASSUME RInv, NEW q \in Proc, pc[q] = "createTenant"
    PROVE  /\ req[q].op = "createRole" /\ req[q].role \in RoleId
           /\ roles[req[q].role].state = "unused"
BY DEF RInv, IInv, Knows, Serves, KnowsRole, CreateStep, UnusedStep

LEMMA UpdateRowComes == ASSUME RInv, NEW p \in Proc, UpdateRow(p) PROVE Outcome(p)
<1>1. CASE req[p].role \in LiveRoles /\ roles[req[p].role].name # req[p].name
  <2>1. Look(p, "updateUnique") /\ "updateUnique" \in Unsure
    BY <1>1 DEF UpdateRow
  <2> QED
    BY <2>1, LookLooks DEF RInv, IInv
<1>2. CASE ~(req[p].role \in LiveRoles /\ roles[req[p].role].name # req[p].name)
  <2>1. Look(p, "updateDelete") /\ RowOf(p) = {}
    BY <1>2 DEF UpdateRow, WaitsFor
  <2>2. ASSUME req[p].role \in LiveRoles
        PROVE  \A s \in LiveRoles \ {req[p].role} : roles[s].name # req[p].name
    BY <1>2, <2>2 DEF RInv, NamesDiffer
  <2>3. ASSUME req[p].role \in LiveRoles, NEW q \in Proc \ {p}, Names(q)
        PROVE  req[q].name # req[p].name
    <3>1. req[q].role # req[p].role
      BY <2>1, <2>3, CreatesUnused DEF RowOf, Others, HoldsRole, Names, LiveRoles
    <3>2. roles[req[p].role].name # req[q].name
      BY <2>3, <3>1 DEF RInv, Sure, SureOfName
    <3> QED
      BY <1>2, <2>3, <3>2
  <2> QED
    BY <2>1, <2>2, <2>3, GetsName
<1> QED
  BY <1>1, <1>2

LEMMA UpdateUniqueComes == ASSUME RInv, NEW p \in Proc, UpdateUnique(p) PROVE Outcome(p)
<1>1. CASE NameTaken(req[p].name)
  BY <1>1, ReturnAnswers DEF UpdateUnique, RInv, IInv
<1>2. CASE ~NameTaken(req[p].name)
  <2>1. Look(p, "updateDelete") /\ \A q \in Proc \ {p} : ~HoldsName(q, req[p].name)
    BY <1>2 DEF UpdateUnique, WaitsFor, Others
  <2>2. \A s \in LiveRoles \ {req[p].role} : roles[s].name # req[p].name
    BY <1>2 DEF NameTaken
  <2>3. ASSUME NEW q \in Proc \ {p}, Names(q) PROVE req[q].name # req[p].name
    BY <2>1, <2>3 DEF HoldsName, HoldsRole, Names
  <2> QED
    BY <2>1, <2>2, <2>3, GetsName
<1> QED
  BY <1>1, <1>2

LEMMA CreateInsertComes == ASSUME RInv, NEW p \in Proc, CreateInsert(p) PROVE Outcome(p)
<1>1. CASE NameTaken(req[p].name)
  BY <1>1, ReturnAnswers DEF CreateInsert, RInv, IInv
<1>2. CASE ~NameTaken(req[p].name)
  <2>1. Look(p, "createTenant") /\ \A q \in Proc \ {p} : ~HoldsName(q, req[p].name)
    BY <1>2 DEF CreateInsert, WaitsFor, Others
  <2>2. \A s \in LiveRoles \ {req[p].role} : roles[s].name # req[p].name
    BY <1>2 DEF NameTaken
  <2>3. ASSUME NEW q \in Proc \ {p}, Names(q) PROVE req[q].name # req[p].name
    BY <2>1, <2>3 DEF HoldsName, HoldsRole, Names
  <2> QED
    BY <2>1, <2>2, <2>3, GetsName
<1> QED
  BY <1>1, <1>2

LEMMA MemberReadComes == ASSUME RInv, NEW p \in Proc, MemberRead(p) PROVE Outcome(p)
<1>1. CASE ~(members[req[p].member].active /\ ~Own(p))
  BY <1>1, ReturnAnswers DEF MemberRead, RInv, IInv
<1>2. CASE members[req[p].member].active /\ ~Own(p)
  <2>1. /\ pc'[p] = "memberRole" /\ UNCHANGED <<tables, req, wrote>>
        /\ current'[p] = members[req[p].member].role
    BY <1>2 DEF MemberRead, Goto, database, history, tables, RInv, IInv, TypeOK, Return, Leave
  <2>2. SureOfName(p)' /\ SureOfRole(p)' /\ ~Names(p)'
    BY <2>1 DEF SureOfName, SureOfRole, Names
  <2>3. SureOfMember(p)'
    BY <1>2, <2>1 DEF SureOfMember, Own, isOwnMembership, tables
  <2> QED
    BY <2>1, <2>2, <2>3 DEF Looks, Outcome, Sure
<1> QED
  BY <1>1, <1>2

LEMMA MemberRoleComes == ASSUME RInv, NEW p \in Proc, MemberRole(p) PROVE Outcome(p)
<1>1. CASE GrantError(p) # "success"
  BY <1>1, ReturnAnswers DEF MemberRole, RInv, IInv
<1>2. CASE GrantError(p) = "success"
  <2>1. Look(p, "memberWrite") /\ pc[p] = "memberRole"
    BY <1>2 DEF MemberRole
  <2>2. pc'[p] = "memberWrite" /\ UNCHANGED <<tables, req, wrote, current>>
    BY <2>1 DEF Look, Goto, RInv, IInv, TypeOK, database, history, tables
  <2>3. req[p].role # "Creator" /\ current[p] # "Creator"
    BY <1>2 DEF GrantError, isSystemCreatorRole
  <2>4. SureOfMember(p)'
    BY <2>1, <2>2 DEF RInv, Sure, SureOfMember, Own, isOwnMembership, tables
  <2>5. SureOfName(p)' /\ SureOfRole(p)' /\ ~Names(p)'
    BY <2>2, <2>3 DEF SureOfName, SureOfRole, Names
  <2> QED
    BY <2>2, <2>4, <2>5 DEF Looks, Outcome, Sure
<1> QED
  BY <1>1, <1>2

\* An invitation that goes on to ask for the same role.
LEMMA AskedGoesOn ==
    ASSUME RInv, NEW p \in Proc, NEW to \in AskedStep, Look(p, to), req[p].role # "Creator"
    PROVE  Outcome(p)
<1>1. pc'[p] = to /\ UNCHANGED <<tables, req, wrote>>
  BY DEF Look, Goto, RInv, IInv, TypeOK, database, history, tables
<1>2. Sure(p)' /\ ~Names(p)'
  BY <1>1 DEF Sure, SureOfName, SureOfMember, SureOfRole, Names
<1> QED
  BY <1>1, <1>2 DEF Looks, Outcome

LEMMA InviteRoleComes == ASSUME RInv, NEW p \in Proc, InviteRole(p) PROVE Outcome(p)
<1>1. CASE InviteError(req[p].role) # "success"
  BY <1>1, ReturnAnswers DEF InviteRole, RInv, IInv
<1>2. CASE InviteError(req[p].role) = "success"
  <2>1. req[p].role # "Creator"
    BY <1>2 DEF InviteError, isSystemCreatorRole
  <2>2. Look(p, "validateTeacher") \/ Look(p, "inviteTenant")
    BY <1>2 DEF InviteRole
  <2> QED
    BY <2>1, <2>2, AskedGoesOn
<1> QED
  BY <1>1, <1>2

LEMMA ValidatingComes ==
    ASSUME RInv, NEW p \in Proc,
           ValidateTeacher(p) \/ ValidateTenant(p) \/ ValidateMember(p) \/ InviteTenant(p)
    PROVE  Outcome(p)
<1>1. pc[p] \in AskedStep
  BY DEF ValidateTeacher, ValidateTenant, ValidateMember, InviteTenant
<1>2. req[p].role # "Creator"
  BY <1>1 DEF RInv, Sure, SureOfRole
<1>3. (\E to \in AskedStep : Look(p, to)) \/ \E error : Return(p, error)
  <2>1. CASE ValidateTeacher(p) \/ ValidateTenant(p)
    BY <2>1 DEF ValidateTeacher, ValidateTenant
  <2>2. CASE ValidateMember(p) \/ InviteTenant(p)
    BY <2>2 DEF ValidateMember, InviteTenant
  <2> QED
    BY <2>1, <2>2
<1> QED
  BY <1>1, <1>2, <1>3, AskedGoesOn, ReturnAnswers DEF RInv, IInv

-----------------------------------------------------------------------------
(***************************************************************************)
(* The writing steps.                                                      *)
(***************************************************************************)

\* A request that has not written yet takes effect now.
LEMMA Applies ==
    ASSUME RInv, NEW p \in Proc, pc[p] \notin LastStep, Register!Effect(req[p]),
           \/ Commit(p)
           \/ \E error, w : Leave(p, error, w)
    PROVE  Register!Apply(p)
<1>1. ~wrote[p]
  BY DEF RInv, IInv, Knows, KnowsWritten, TypeOK
<1>2. \/ wrote' = [wrote EXCEPT ![p] = TRUE] /\ UNCHANGED req
      \/ Register!Close(p)
  BY LeaveCloses DEF Commit, RInv, IInv
<1> QED
  BY <1>1, <1>2 DEF Register!Apply

LEMMA CreateTenantComes == ASSUME RInv, NEW p \in Proc, CreateTenant(p) PROVE Outcome(p)
<1> DEFINE r == req[p].role
<1>1. /\ pc[p] = "createTenant" /\ Commit(p) /\ Goto(p, "createRead")
      /\ roles' = [roles EXCEPT ![r] =
                      [state |-> "live", name |-> req[p].name, perms |-> req[p].perms]]
      /\ UNCHANGED <<members, invited>>
  BY DEF CreateTenant
<1>2. req[p].op = "createRole" /\ r \in RoleId /\ roles[r].state = "unused"
  BY <1>1, CreatesUnused
<1>3. Names(p)
  BY <1>1 DEF Names
<1>4. \A s \in LiveRoles \ {r} : roles[s].name # req[p].name
  BY <1>3 DEF RInv, Sure, SureOfName
<1>5. Register!CreateRole(req[p])
  BY <1>1, <1>2, <1>4, SameTables DEF Register!CreateRole, Register!Free, Register!Carries
<1>6. Register!Apply(p)
  BY <1>1, <1>5, Applies DEF Register!Effect, LastStep
<1>7. ASSUME NEW q \in Proc \ {p}, Names(q)
      PROVE  req[q].role # r /\ req[q].name # req[p].name
  <2>1. req[q].name # req[p].name
    BY <1>3, <1>7 DEF RInv, NamesApart
  <2>2. CASE pc[q] = "createTenant"
    BY <1>2, <2>1, <2>2, CreatesUnused DEF RInv, IInv, DistinctIds
  <2>3. CASE req[q].role \in LiveRoles
    BY <1>2, <2>1, <2>3 DEF LiveRoles
  <2> QED
    BY <1>7, <2>2, <2>3 DEF Names
<1>8. pc'[p] \in Unsure
  BY <1>1 DEF Goto, RInv, IInv, TypeOK
<1> QED
  BY <1>6, <1>7, <1>8 DEF Writes, Outcome

LEMMA UpdateCommitComes == ASSUME RInv, NEW p \in Proc, UpdateCommit(p) PROVE Outcome(p)
<1> DEFINE r == req[p].role
           kept == PermissionsOf(r) \ seen[p]
<1>1. pc[p] = "updateCommit"
  BY DEF UpdateCommit
<1>2. CASE Return(p, "database")
  BY <1>1, <1>2, ReturnAnswers DEF RInv, IInv
<1>3. CASE Look(p, "updateReadBack")
  BY <1>3, LookLooks DEF RInv, IInv
<1>4. CASE /\ r \in LiveRoles /\ kept \cap req[p].perms = {}
           /\ Goto(p, "updateReadBack")
           /\ roles' = [roles EXCEPT ![r] =
                 [state |-> "live", name |-> req[p].name, perms |-> kept \cup req[p].perms]]
           /\ Commit(p)
           /\ UNCHANGED <<members, invited>>
  <2>1. req[p].op = "updateRole" /\ r \in RoleId
    BY <1>1, <1>4 DEF RInv, IInv, Knows, Serves, UpdateStep, LiveRoles
  <2>2. seen[p] = roles[r].perms
    BY <1>1, <1>4 DEF RInv, IInv, Knows, KnowsRole
  <2>3. kept = {}
    BY <2>1, <2>2 DEF PermissionsOf
  <2>4. roles' = [roles EXCEPT ![r] =
                     [state |-> "live", name |-> req[p].name, perms |-> req[p].perms]]
    BY <1>4, <2>3
  <2>5. Names(p)
    BY <1>1, <1>4 DEF Names
  <2>6. \A s \in LiveRoles \ {r} : roles[s].name # req[p].name
    BY <2>5 DEF RInv, Sure, SureOfName
  <2>7. Register!UpdateRole(req[p])
    BY <1>4, <2>1, <2>4, <2>6, SameTables
       DEF Register!UpdateRole, Register!Free, Register!Carries
  <2>8. Register!Apply(p)
    BY <1>1, <1>4, <2>7, Applies DEF Register!Effect, LastStep
  <2>9. ASSUME NEW q \in Proc \ {p}, Names(q)
        PROVE  req[q].role # r /\ req[q].name # req[p].name
    <3>1. req[q].name # req[p].name
      BY <2>5, <2>9 DEF RInv, NamesApart
    <3>2. req[q].role # r
      BY <1>1, <1>4, <2>9, CreatesUnused
         DEF RInv, IInv, LockedOnce, LockedStep, Names, LiveRoles
    <3> QED
      BY <3>1, <3>2
  <2>10. pc'[p] \in Unsure
    BY <1>4 DEF Goto, RInv, IInv, TypeOK
  <2> QED
    BY <2>8, <2>9, <2>10 DEF Writes, Outcome
<1> QED
  BY <1>2, <1>3, <1>4 DEF UpdateCommit

\* A write that is no creation and no update of a role.
LEMMA OtherWrites ==
    ASSUME RInv, NEW p \in Proc, Register!Effect(req[p]), pc[p] \notin LastStep,
           req[p].op \notin {"createRole", "updateRole"},
           \/ Commit(p) /\ \E to \in Unsure : Goto(p, to)
           \/ \E error, w : Leave(p, error, w)
    PROVE  Outcome(p)
<1>1. Register!Apply(p)
  BY Applies
<1>2. pc'[p] \in Unsure
  BY LeaveCloses DEF Goto, RInv, IInv, TypeOK
<1> QED
  BY <1>1, <1>2 DEF Writes, Outcome

LEMMA DeleteRowComes == ASSUME RInv, NEW p \in Proc, DeleteRow(p) PROVE Outcome(p)
<1>1. pc[p] = "deleteRow" /\ "deleteKeys" \in Unsure
  BY DEF DeleteRow
<1>2. Look(p, "deleteKeys") \/ Return(p, "success")
  BY DEF DeleteRow
<1> QED
  BY <1>1, <1>2, LookLooks, ReturnAnswers DEF RInv, IInv

LEMMA DeleteKeysComes == ASSUME RInv, NEW p \in Proc, DeleteKeys(p) PROVE Outcome(p)
<1>1. pc[p] = "deleteKeys"
  BY DEF DeleteKeys
<1>2. CASE Referenced(p)
  BY <1>1, <1>2, ReturnAnswers DEF DeleteKeys, RInv, IInv
<1>3. CASE ~Referenced(p)
  <2>1. /\ roles' = [roles EXCEPT ![req[p].role] = Vacant("deleted")]
        /\ Leave(p, "success", TRUE) /\ UNCHANGED <<members, invited>>
    BY <1>3 DEF DeleteKeys
  <2>2. req[p].op = "deleteRole" /\ req[p].role \in LiveRoles
    BY <1>1 DEF RInv, IInv, Knows, Serves, KnowsRole, DeleteStep
  <2>3. Register!DeleteRole(req[p])
    BY <1>3, <2>1, <2>2, SameTables DEF Register!DeleteRole, Referenced, Assigned
  <2> QED
    BY <1>1, <2>1, <2>2, <2>3, OtherWrites DEF Register!Effect, LastStep
<1> QED
  BY <1>2, <1>3

LEMMA MemberWriteComes == ASSUME RInv, NEW p \in Proc, MemberWrite(p) PROVE Outcome(p)
<1>1. CASE Look(p, "memberReadBack")
  BY <1>1, LookLooks DEF RInv, IInv
<1>2. CASE Look(p, "memberKey")
  <2>1. pc[p] = "memberWrite"
    BY DEF MemberWrite
  <2>2. pc'[p] = "memberKey" /\ UNCHANGED <<tables, req, wrote, current>>
    BY <1>2 DEF Look, Goto, RInv, IInv, TypeOK, database, history, tables
  <2>3. SureOfMember(p)' /\ SureOfRole(p)'
    BY <2>1, <2>2
       DEF RInv, Sure, SureOfMember, SureOfRole, Own, isOwnMembership, tables
  <2>4. SureOfName(p)' /\ ~Names(p)'
    BY <2>2 DEF SureOfName, Names
  <2> QED
    BY <2>2, <2>3, <2>4 DEF Looks, Outcome, Sure
<1> QED
  BY <1>1, <1>2 DEF MemberWrite

LEMMA MemberKeyComes == ASSUME RInv, NEW p \in Proc, MemberKey(p) PROVE Outcome(p)
<1> DEFINE m == req[p].member
           r == req[p].role
<1>1. pc[p] = "memberKey"
  BY DEF MemberKey
<1>2. CASE Return(p, "database")
  BY <1>1, <1>2, ReturnAnswers DEF RInv, IInv
<1>3. CASE /\ r \in ExistingRoles
           /\ Goto(p, "memberReadBack")
           /\ members' = [members EXCEPT ![m].role = r]
           /\ Commit(p)
           /\ UNCHANGED <<roles, invited>>
  <2>1. req[p].op = "updateMemberRole" /\ m \in Member
    BY <1>1, RequestFields DEF RInv, IInv, Knows, Serves, MemberStep
  <2>2. /\ ~Own(p) /\ r # "Creator" /\ members[m].role # "Creator"
        /\ members[m].active /\ members[m].role \in ExistingRoles
    BY <1>1, <2>1 DEF RInv, IInv, Knows, AssignedRolesExist, Sure, SureOfMember, SureOfRole
  <2>3. Register!UpdateMemberRole(req[p])
    BY <1>3, <2>1, <2>2, SameTables
       DEF Register!UpdateMemberRole, Register!Assignable, Register!isOwnMembership, Own,
           isOwnMembership
  <2> QED
    BY <1>1, <1>3, <2>1, <2>3, OtherWrites DEF Register!Effect, LastStep
<1> QED
  BY <1>2, <1>3 DEF MemberKey

LEMMA RemoveWriteComes == ASSUME RInv, NEW p \in Proc, RemoveWrite(p) PROVE Outcome(p)
<1>1. pc[p] = "removeWrite"
  BY DEF RemoveWrite
<1>2. CASE ~members[req[p].member].active
  BY <1>1, <1>2, ReturnAnswers DEF RemoveWrite, RInv, IInv
<1>3. CASE members[req[p].member].active
  <2>1. /\ members' = [members EXCEPT ![req[p].member].active = FALSE]
        /\ Leave(p, "success", TRUE) /\ UNCHANGED <<roles, invited>>
    BY <1>3 DEF RemoveWrite
  <2>2. req[p].op = "deleteMember" /\ ~Own(p)
    BY <1>1 DEF RInv, IInv, Knows, Serves, RemoveStep
  <2>3. Register!DeleteMember(req[p])
    BY <1>3, <2>1, <2>2
       DEF Register!DeleteMember, Register!isOwnMembership, Own, isOwnMembership
  <2> QED
    BY <1>1, <2>1, <2>2, <2>3, OtherWrites DEF Register!Effect, LastStep
<1> QED
  BY <1>2, <1>3

LEMMA InviteWriteComes == ASSUME RInv, NEW p \in Proc, InviteWrite(p) PROVE Outcome(p)
<1>1. pc[p] = "inviteWrite"
  BY DEF InviteWrite
<1>2. CASE req[p].role \notin ExistingRoles
  BY <1>1, <1>2, ReturnAnswers DEF InviteWrite, RInv, IInv
<1>3. CASE req[p].role \in ExistingRoles
  <2>1. /\ invited' = invited \cup {req[p].role}
        /\ Leave(p, "success", TRUE) /\ UNCHANGED <<roles, members>>
    BY <1>3 DEF InviteWrite
  <2>2. req[p].op = "invite" /\ req[p].role # "Creator"
    BY <1>1 DEF RInv, IInv, Knows, Serves, InviteStep, Sure, SureOfRole
  <2>3. Register!Invite(req[p])
    BY <1>3, <2>1, <2>2, SameTables DEF Register!Invite, Register!Assignable
  <2> QED
    BY <1>1, <2>1, <2>2, <2>3, OtherWrites DEF Register!Effect, LastStep
<1> QED
  BY <1>2, <1>3

LEMMA TenantSaveComes == ASSUME RInv, NEW p \in Proc, TenantSave(p) PROVE Outcome(p)
<1>1. pc[p] = "tenantSave"
  BY DEF TenantSave
<1>2. CASE Return(p, "database")
  BY <1>1, <1>2, ReturnAnswers DEF RInv, IInv
<1>3. CASE ~Return(p, "database")
  <2>1. /\ UNCHANGED <<roles, members, invited>>
        /\ \/ Leave(p, "success", TRUE)
           \/ Goto(p, "locationReadBack") /\ Commit(p)
    BY <1>3 DEF TenantSave
  <2>2. req[p].op \in {"settings", "location"}
    BY <1>1 DEF RInv, IInv, Knows, Serves, ProfileStep
  <2>3. Register!Elsewhere(req[p])
    BY <2>1, <2>2 DEF Register!Elsewhere
  <2> QED
    BY <1>1, <2>1, <2>2, <2>3, OtherWrites DEF Register!Effect, LastStep
<1> QED
  BY <1>2, <1>3

-----------------------------------------------------------------------------
(***************************************************************************)
(* Every step of the handlers.                                             *)
(***************************************************************************)

LEMMA RolesCome == ASSUME RInv, NEW p \in Proc, Roles(p) PROVE Outcome(p)
<1>1. CASE DeleteDelete(p)
  BY <1>1, FindsCome DEF DeleteDelete
<1> QED
  BY <1>1, ReadingsCome, CreateInsertComes, UpdateRowComes, UpdateUniqueComes,
     UpdateDeleteComes, UpdatePermissionsComes, UpdateCommitComes, DeleteRowComes,
     DeleteKeysComes, CreateTenantComes DEF Roles

LEMMA MembersCome == ASSUME RInv, NEW p \in Proc, Members(p) PROVE Outcome(p)
BY ReadingsCome, MemberReadComes, MemberRoleComes, MemberWriteComes, MemberKeyComes,
   RemoveWriteComes, InviteRoleComes, ValidatingComes, InviteWriteComes DEF Members

LEMMA ActComes == ASSUME RInv, NEW p \in Proc, Act(p) PROVE Outcome(p)
<1>1. CASE Profile(p)
  BY <1>1, ReadingsCome, TenantReadComes, TenantSaveComes DEF Profile
<1>2. CASE Fail(p) \/ Victim(p)
  BY <1>2, ActIsBusy, ReturnAnswers DEF Fail, Victim, RInv, IInv
<1> QED
  BY <1>1, <1>2, RolesCome, MembersCome DEF Act, Proceed

\* What others are sure of outlives a step, whatever it comes to.
LEMMA SureStable ==
    ASSUME RInv, IInv', NEW p \in Proc, Alone(p), Outcome(p), NEW q \in Proc \ {p}
    PROVE  Sure(q)' /\ (Names(q)' => Names(q))
<1> USE DEF Alone
<1>1. pc'[q] = pc[q] /\ req'[q] = req[q] /\ current'[q] = current[q]
  OBVIOUS
<1>2. CreatorsKept
  <2>1. CASE UNCHANGED tables
    BY <2>1 DEF CreatorsKept, tables
  <2>2. CASE Writes(p)
    BY <2>2, EffectKeepsCreators DEF Writes, Register!Apply, RInv, IInv
  <2> QED
    BY <2>1, <2>2 DEF Outcome, Answers, Looks, tables
<1>3. SureOfMember(q)'
  <2>1. pc[q] \in {"memberRole", "memberWrite", "memberKey"} => req[q].member \in Member
    BY RequestFields DEF RInv, IInv, Knows, Serves, MemberStep
  <2> QED
    BY <1>1, <1>2, <2>1 DEF RInv, Sure, SureOfMember, Own, isOwnMembership, CreatorsKept
<1>4. SureOfRole(q)'
  BY <1>1 DEF RInv, Sure, SureOfRole
<1>5. SureOfName(q)' /\ (Names(q)' => Names(q))
  <2>1. CASE UNCHANGED roles
    BY <1>1, <2>1 DEF RInv, Sure, SureOfName, Names, LiveRoles
  <2>2. CASE Writes(p) /\ Register!DeleteRole(req[p])
    <3>1. \A s \in LiveRoles' : s \in LiveRoles /\ roles'[s] = roles[s]
      BY <2>2, SameTables DEF Register!DeleteRole, LiveRoles, Vacant, RInv, IInv, TypeOK
    <3> QED
      BY <1>1, <3>1 DEF RInv, Sure, SureOfName, Names
  <2>3. CASE Writes(p) /\ (Register!CreateRole(req[p]) \/ Register!UpdateRole(req[p]))
    <3>1. /\ req[p].op \in {"createRole", "updateRole"} /\ req[p].role \in RoleId
          /\ Register!Carries(req[p].role, req[p])
          /\ roles[req[p].role].state = "unused" \/ req[p].role \in LiveRoles
      BY <2>3, SameTables DEF Register!CreateRole, Register!UpdateRole, LiveRoles
    <3>2. /\ roles'[req[p].role].name = req[p].name
          /\ LiveRoles' = LiveRoles \cup {req[p].role}
          /\ \A s \in RoleId \ {req[p].role} : roles'[s] = roles[s]
      BY <3>1 DEF Register!Carries, LiveRoles, RInv, IInv, TypeOK
    <3>3. Names(q)' => Names(q)
      <4>1. pc[q] \in NamedStep => roles[req[q].role].state # "unused"
        BY DEF RInv, IInv, Knows, KnowsRole, UpdateStep
      <4> QED
        BY <1>1, <3>1, <3>2, <4>1 DEF Names
    <3>4. Names(q) => req[q].name # req[p].name
      BY <2>3, <3>1 DEF Writes
    <3>5. Names(q) => \A s \in LiveRoles \ {req[q].role} : roles[s].name # req[q].name
      BY DEF RInv, Sure, SureOfName
    <3>6. SureOfName(q)'
      BY <1>1, <3>2, <3>3, <3>4, <3>5 DEF SureOfName, LiveRoles
    <3> QED
      BY <3>3, <3>6
  <2> QED
    BY <2>1, <2>2, <2>3 DEF Outcome, Answers, Looks, Writes, tables, Register!Apply,
       Register!Effect, Register!UpdateMemberRole, Register!DeleteMember, Register!Invite,
       Register!Elsewhere
<1> QED
  BY <1>3, <1>4, <1>5 DEF Sure

LEMMA OutcomeKeeps ==
    ASSUME RInv, IInv', NEW p \in Proc, Alone(p), Outcome(p)
    PROVE  RInv'
<1>1. NamesDiffer'
  <2>1. CASE UNCHANGED tables
    BY <2>1 DEF RInv, NamesDiffer, LiveRoles, tables
  <2>2. CASE Writes(p)
    BY <2>2, EffectKeepsNames DEF Writes, Register!Apply, RInv, IInv
  <2> QED
    BY <2>1, <2>2 DEF Outcome, Answers, Looks, tables
<1>2. /\ Sure(p)'
      /\ Names(p)' => \/ Names(p) /\ req'[p] = req[p]
                      \/ /\ req'[p] = req[p]
                         /\ \A q \in Proc \ {p} : Names(q) => req[q].name # req[p].name
  BY UnsureIsSure DEF Outcome, Answers, Looks, Writes
<1>3. \A q \in Proc \ {p} : Sure(q)' /\ (Names(q)' => Names(q))
  BY SureStable
<1>4. NamesApart'
  BY <1>2, <1>3 DEF NamesApart, RInv, Alone
<1> QED
  BY <1>1, <1>2, <1>3, <1>4 DEF RInv

-----------------------------------------------------------------------------
(***************************************************************************)
(* The other steps, and the theorems.                                      *)
(***************************************************************************)

LEMMA SameDecisions ==
    /\ \A token, permission : Register!callerHasPermission(token, permission)
                                 <=> callerHasPermission(token, permission)
    /\ \A op : Register!Needed(op) = Needed(op)
BY SameTables
   DEF Register!callerHasPermission, callerHasPermission, Register!ActiveMemberHasPermission,
       ActiveMemberHasPermission, Register!Complete, Complete, Register!BelongsTo, BelongsTo,
       Register!PermissionsOf, PermissionsOf, Register!SystemGrants, SystemGrants,
       Register!SystemRole, SystemRole, Register!Needed, Needed

\* A step that begins nothing and moves nobody.
LEMMA RestKeeps ==
    ASSUME RInv, IInv', UNCHANGED <<tables, pc, req, current, wrote>>
    PROVE  RInv' /\ UNCHANGED Register!vars
BY DEF RInv, NamesDiffer, NamesApart, Sure, SureOfName, SureOfMember, SureOfRole, Names,
       LiveRoles, Own, isOwnMembership, tables, Register!vars

LEMMA BeginAdmits ==
    ASSUME RInv, IInv', NEW p \in Proc, Begin(p)
    PROVE  RInv' /\ Register!Admit(p)
<1>1. PICK r \in RequestBy(sessions) :
          /\ callerHasPermission(r.by, Needed(r.op))
          /\ pc' = [pc EXCEPT ![p] = First(r.op)]
          /\ req' = [req EXCEPT ![p] = r]
  BY DEF Begin
<1>2. pc[p] = "idle" /\ UNCHANGED <<tables, current, wrote>>
  BY DEF Begin, database, history, tables
<1>3. req[p] = NoRequest /\ req'[p] = r /\ r \in Request
  BY <1>1, <1>2, RequestOfSession DEF RInv, IInv, Knows, Serves, TypeOK
<1>4. Register!Admit(p)
  BY <1>1, <1>2, <1>3, SameDecisions
     DEF Register!Admit, Register!NoRequest, NoRequest, tables
<1>5. pc'[p] \in Unsure
  BY <1>1 DEF First, RInv, IInv, TypeOK
<1>6. Sure(p)' /\ ~Names(p)'
  BY <1>5, UnsureIsSure
<1>7. \A q \in Proc \ {p} : pc'[q] = pc[q] /\ req'[q] = req[q] /\ current'[q] = current[q]
  BY <1>1, <1>2 DEF RInv, IInv, TypeOK
<1>8. \A q \in Proc \ {p} : Sure(q)' /\ (Names(q)' => Names(q))
  BY <1>2, <1>7 DEF RInv, Sure, SureOfName, SureOfMember, SureOfRole, Names, LiveRoles, Own,
                    isOwnMembership, tables
<1>9. NamesDiffer'
  BY <1>2 DEF RInv, NamesDiffer, LiveRoles, tables
<1>10. NamesApart'
  BY <1>6, <1>7, <1>8 DEF NamesApart, RInv
<1> QED
  BY <1>4, <1>6, <1>8, <1>9, <1>10 DEF RInv

LEMMA NextRefines == RInv /\ IInv' /\ [Next]_vars => RInv' /\ [Register!Next]_(Register!vars)
<1> SUFFICES ASSUME RInv, IInv', [Next]_vars
             PROVE  RInv' /\ [Register!Next]_(Register!vars)
  OBVIOUS
<1>1. ASSUME NEW p \in Proc, Act(p) PROVE RInv' /\ [Register!Next]_(Register!vars)
  <2>1. Alone(p) /\ Outcome(p) /\ pc[p] # "idle"
    BY <1>1, ActLeavesAlone, ActComes, ActIsBusy DEF RInv, IInv
  <2>2. RInv'
    BY <2>1, OutcomeKeeps
  <2>3. CASE Answers(p)
    <3>1. req[p] # NoRequest
      BY <2>1, RequestOps DEF RInv, IInv, Knows, Serves
    <3>2. Register!Answer(p)
      BY <2>3, <3>1 DEF Answers, Register!Answer, Register!NoRequest, NoRequest, tables
    <3> QED
      BY <2>2, <3>2 DEF Register!Next
  <2>4. CASE Looks(p)
    BY <2>2, <2>4 DEF Looks, tables, Register!vars
  <2>5. CASE Writes(p)
    BY <2>2, <2>5 DEF Writes, Register!Next
  <2> QED
    BY <2>1, <2>3, <2>4, <2>5 DEF Outcome
<1>2. ASSUME NEW p \in Proc, Begin(p) PROVE RInv' /\ [Register!Next]_(Register!vars)
  BY <1>2, BeginAdmits DEF Register!Next
<1>3. CASE \/ Denied \/ Malformed \/ NoMember \/ Read
           \/ (\E n \in TenantName : OtherTenant(n))
           \/ UNCHANGED vars
  BY <1>3, RestKeeps DEF Denied, Malformed, NoMember, Read, Turned, OtherTenant, vars, database,
                         history, tables
<1> QED
  BY <1>1, <1>2, <1>3 DEF Next, Act

LEMMA InitRefines == Init => RInv /\ Register!Init
<1> SUFFICES ASSUME Init PROVE RInv /\ Register!Init
  OBVIOUS
<1>1. IInv
  BY InvInit
<1>2. /\ NamesDiffer
      /\ pc = [p \in Proc |-> "idle"]
      /\ members \in [Member -> [active: {TRUE}, role: SystemRole \cup LiveRoles]]
  BY DEF Init
<1>3. NamesApart /\ \A p \in Proc : Sure(p)
  BY <1>2 DEF NamesApart, Names, Sure, SureOfName, SureOfMember, SureOfRole
<1>4. members \in [Member -> [active: BOOLEAN, role: ExistingRoles]]
  BY <1>2 DEF ExistingRoles
<1>5. roles \in [RoleId -> Role]
  BY <1>1 DEF IInv, TypeOK
<1>6. Register!Role = Role
  BY DEF Register!Role, Role
<1>7. Register!Init
  BY <1>2, <1>4, <1>5, <1>6, SameTables DEF Init, Register!Init, Register!NoRequest, NoRequest
<1> QED
  BY <1>1, <1>2, <1>3, <1>7 DEF RInv

LEMMA SureAlways == Spec => []RInv
<1>1. RInv /\ IInv' /\ [Next]_vars => RInv'
  BY NextRefines
<1> QED
  BY <1>1, InitRefines, Invariant, PTL DEF Spec

\* Permitted requests seem to run one after the other: however their statements interleave,
\* each changes roles, memberships and invitations once at most, in one instant, exactly as
\* asked, and only if they allow it at that instant.
THEOREM Refinement == Spec => ImplementsRegister
<1>1. RInv /\ IInv' /\ [Next]_vars => [Register!Next]_(Register!vars)
  BY NextRefines
<1> QED
  BY <1>1, InitRefines, Invariant, SureAlways, PTL
     DEF Spec, ImplementsRegister, Register!Spec

\* Two custom roles of a tenant never have one name, although the name is looked up before
\* the transaction that takes it.
THEOREM NamesStayApart == Spec => []NamesDiffer
<1>1. RInv => NamesDiffer
  BY DEF RInv
<1> QED
  BY <1>1, SureAlways, PTL

\* No member is made a Creator and no Creator is made anything else by what members do,
\* although the role a member has is read before it is replaced (memberUsecase.UpdateRole).
THEOREM CreatorsStay == Spec => [][CreatorsKept]_vars
<1>1. RInv /\ IInv' /\ [Next]_vars => [CreatorsKept]_vars
  <2> SUFFICES ASSUME RInv, IInv', [Next]_vars PROVE CreatorsKept
    OBVIOUS
  <2>1. CASE UNCHANGED Register!vars
    BY <2>1 DEF Register!vars, CreatorsKept
  <2>2. ASSUME NEW p \in Proc, Register!Apply(p) PROVE CreatorsKept
    BY <2>2, EffectKeepsCreators DEF Register!Apply, RInv, IInv
  <2>3. ASSUME NEW p \in Proc, Register!Admit(p) \/ Register!Answer(p) PROVE CreatorsKept
    BY <2>3 DEF Register!Admit, Register!Answer, CreatorsKept
  <2> QED
    BY <2>1, <2>2, <2>3, NextRefines DEF Register!Next
<1> QED
  BY <1>1, Invariant, SureAlways, PTL DEF Spec
=============================================================================
