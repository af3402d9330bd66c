------------------------- MODULE Membership_proofs -------------------------
(***************************************************************************)
(* Proofs about Membership, for any number of request goroutines, any set  *)
(* of custom roles and any number of invitations, requests and resets.     *)
(*                                                                         *)
(* The argument is rely-guarantee: what a handler knows (Knows) follows    *)
(* from the rows it has locked; Protected and Grows say what a step of     *)
(* anybody else leaves alone as long as those locks are held.              *)
(***************************************************************************)
EXTENDS Membership, SequenceTheorems, FiniteSetTheorems, TLAPS

-----------------------------------------------------------------------------
(***************************************************************************)
(* Types of the parts.                                                     *)
(***************************************************************************)

\* Every status is a number, whatever the operation and the error.
LEMMA StatusIsNat == \A op, error : Status(Table(op), error) \in Nat
<1> SUFFICES ASSUME NEW op, NEW error PROVE Status(Table(op), error) \in Nat
  OBVIOUS
<1>1. CASE error \notin DOMAIN Table(op)
  BY <1>1 DEF Status
<1>2. CASE error \in DOMAIN Table(op)
  <2>1. Table(op) \in {CreateInvitationStatus, RevokeInvitationStatus, VerifyInvitationStatus,
                       AcceptExistingInvitationStatus, RegisterInvitedUserStatus,
                       CreatorRequestStatus, CreatorDecisionStatus, UpdateMemberRoleStatus}
    BY DEF Table
  <2>2. \A e \in DOMAIN CreateInvitationStatus : CreateInvitationStatus[e] \in Nat
    BY DEF CreateInvitationStatus
  <2>3. \A e \in DOMAIN RevokeInvitationStatus : RevokeInvitationStatus[e] \in Nat
    BY DEF RevokeInvitationStatus
  <2>4. \A e \in DOMAIN VerifyInvitationStatus : VerifyInvitationStatus[e] \in Nat
    BY DEF VerifyInvitationStatus
  <2>5. \A e \in DOMAIN AcceptExistingInvitationStatus :
            AcceptExistingInvitationStatus[e] \in Nat
    BY DEF AcceptExistingInvitationStatus
  <2>6. \A e \in DOMAIN RegisterInvitedUserStatus : RegisterInvitedUserStatus[e] \in Nat
    BY DEF RegisterInvitedUserStatus
  <2>7. \A e \in DOMAIN CreatorRequestStatus : CreatorRequestStatus[e] \in Nat
    BY DEF CreatorRequestStatus
  <2>8. \A e \in DOMAIN CreatorDecisionStatus : CreatorDecisionStatus[e] \in Nat
    BY DEF CreatorDecisionStatus
  <2>9. \A e \in DOMAIN UpdateMemberRoleStatus : UpdateMemberRoleStatus[e] \in Nat
    BY DEF UpdateMemberRoleStatus
  <2> QED
    BY <1>2, <2>1, <2>2, <2>3, <2>4, <2>5, <2>6, <2>7, <2>8, <2>9 DEF Status
<1> QED
  BY <1>1, <1>2

LEMMA RespondsType == ASSUME NEW op, NEW error, Responds(op, error) PROVE answer'.status \in Nat
BY StatusIsNat DEF Responds

LEMMA NoAnswerType == ASSUME answer' = NoAnswer PROVE answer'.status \in Nat
BY DEF NoAnswer

\* The rows a step locks are rows, and of these tables.
LEMMA LockNames ==
    /\ \A i \in Nat : /\ Update("invitation", i) \in Lock
                      /\ Update("request", i) \in Lock
    /\ {Update("tenant", 0), Share("tenant", 0), KeyShare("tenant", 0), Update("user", 0),
        Share("user", 0), Share("elsewhere", 0), Share("member", 0), Update("member", 0),
        Share("admin", 0)} \subseteq Lock
BY DEF Lock, Row, RowName, Mode, Update, Share, KeyShare

LEMMA NeedsAt ==
    ASSUME NEW p
    PROVE  /\ pc[p] = "inviting" => Needs(p) = {Update("tenant", 0)}
           /\ pc[p] = "retiring" =>
                Needs(p) = {l \in {Update("invitation", i) : i \in Live \cap 1..arg[p]} :
                              ~Holds(p, l)}
           /\ pc[p] = "acceptFirst" => Needs(p) = {Share("tenant", 0)}
           /\ pc[p] = "acceptSecond" => Needs(p) = {Update("invitation", arg[p])}
           /\ pc[p] \in {"acceptUser", "decideUser"} =>
                Needs(p) = (IF account = "none" THEN {} ELSE {Update("user", 0)})
           /\ pc[p] \in {"acceptTeacher", "validateTeacher"} =>
                Needs(p) = {l \in {Share("elsewhere", 0), Share("member", 0)} :
                              IF l.row.table = "elsewhere" THEN elsewhere ELSE Teaches}
           /\ pc[p] \in {"acceptMember", "validateMember", "decideMember"} =>
                Needs(p) = (IF member.state = "absent" THEN {} ELSE {Update("member", 0)})
<1>1. pc[p] = "inviting" => Needs(p) = {Update("tenant", 0)}
  BY DEF Needs, TenantForUpdate
<1>2. pc[p] = "retiring" =>
        Needs(p) = {l \in {Update("invitation", i) : i \in Live \cap 1..arg[p]} : ~Holds(p, l)}
  BY DEF Needs
<1>3. pc[p] = "acceptFirst" => Needs(p) = {Share("tenant", 0)}
  BY DEF Needs, TenantFirst
<1>4. pc[p] = "acceptSecond" => Needs(p) = {Update("invitation", arg[p])}
  BY DEF Needs, TenantFirst
<1>5. pc[p] \in {"acceptUser", "decideUser"} =>
        Needs(p) = (IF account = "none" THEN {} ELSE {Update("user", 0)})
  BY DEF Needs, AccountForUpdate
<1>6. pc[p] \in {"acceptTeacher", "validateTeacher"} =>
        Needs(p) = {l \in {Share("elsewhere", 0), Share("member", 0)} :
                      IF l.row.table = "elsewhere" THEN elsewhere ELSE Teaches}
  BY DEF Needs
<1>7. pc[p] \in {"acceptMember", "validateMember", "decideMember"} =>
        Needs(p) = (IF member.state = "absent" THEN {} ELSE {Update("member", 0)})
  BY DEF Needs
<1> QED
  BY <1>1, <1>2, <1>3, <1>4, <1>5, <1>6, <1>7

LEMMA NeedsAtEnd ==
    ASSUME NEW p
    PROVE  /\ pc[p] = "register" => Needs(p) = {Update("invitation", arg[p])}
           /\ pc[p] = "registerEmail" =>
                Needs(p) = (IF account = "none" THEN {Update("user", 0)} ELSE {})
           /\ pc[p] = "registerTenant" => Needs(p) = {KeyShare("tenant", 0)}
           /\ pc[p] = "decide" => Needs(p) = {Share("admin", 0)}
           /\ pc[p] = "decideRequest" => Needs(p) = {Update("request", arg[p])}
           /\ pc[p] \in {"validateTenant", "decideTenant"} => Needs(p) = {Share("tenant", 0)}
           /\ pc[p] = "validateUser" => Needs(p) = {Share("user", 0)}
           /\ pc[p] \in {"idle", "accepting", "registering", "approving", "rejecting",
                         "requesting", "changingRole"} => Needs(p) = {}
BY DEF Needs, ShareAssignment

LEMMA NeedsType == ASSUME TypeOK, NEW p \in Proc PROVE Needs(p) \subseteq Lock
<1>1. arg[p] \in Nat /\ \A i \in 1..Len(invitations) : i \in Nat
  BY DEF TypeOK
<1>2. pc[p] \in Step
  BY DEF TypeOK
<1>3. CASE pc[p] \in {"inviting", "acceptFirst", "acceptSecond", "acceptUser", "decideUser",
                      "acceptTeacher", "acceptMember", "decideMember", "validateTeacher",
                      "validateMember"}
  BY <1>1, <1>3, NeedsAt, LockNames
<1>4. CASE pc[p] = "retiring"
  BY <1>1, <1>4, NeedsAt, LockNames DEF Live
<1>5. CASE pc[p] \in {"register", "registerEmail", "registerTenant", "decide", "decideRequest",
                      "decideTenant", "idle", "accepting", "registering", "approving",
                      "rejecting", "requesting", "changingRole", "validateUser",
                      "validateTenant"}
  BY <1>1, <1>5, NeedsAtEnd, LockNames
<1> QED
  BY <1>2, <1>3, <1>4, <1>5 DEF Step, InviteStep, ValidateStep, AcceptStep, RegisterStep, DecideStep

LEMMA TakeType ==
    ASSUME TypeOK, NEW p \in Proc, NEW ls, ls \subseteq Needs(p), Take(p, ls)
    PROVE  locks' \in SUBSET [proc: Proc, lock: Lock]
BY NeedsType DEF Take, TypeOK

LEMMA GotoType ==
    ASSUME TypeOK, NEW p \in Proc, NEW from, NEW to \in Step, Goto(p, from, to)
    PROVE  pc' \in [Proc -> Step] /\ answer'.status \in Nat
BY NoAnswerType DEF Goto, TypeOK

LEMMA WaitType ==
    ASSUME TypeOK, NEW p \in Proc, NEW from, NEW to \in Step, Wait(p, from, to)
    PROVE  TypeOK'
<1>1. locks' \in SUBSET [proc: Proc, lock: Lock]
  BY TakeType DEF Wait
<1> QED
  BY <1>1, GotoType DEF Wait, TypeOK, people, papers, local

LEMMA ReturnType ==
    ASSUME TypeOK, NEW p \in Proc, NEW from, NEW error, Return(p, from, error)
    PROVE  /\ locks' \in SUBSET [proc: Proc, lock: Lock]
           /\ pc' \in [Proc -> Step]
           /\ arg' \in [Proc -> Nat]
           /\ role' \in [Proc -> Role]
           /\ session' \in [Proc -> Nat]
           /\ target' \in [Proc -> BOOLEAN]
           /\ answer'.status \in Nat
<1>1. answer'.status \in Nat
  BY RespondsType DEF Return
<1> QED
  BY <1>1 DEF Return, TypeOK, Step, Role

LEMMA FinishType ==
    ASSUME TypeOK, NEW p \in Proc, NEW from, NEW error, Finish(p, from, error)
    PROVE  TypeOK'
BY ReturnType DEF Finish, TypeOK, people, papers

LEMMA CheckType ==
    ASSUME TypeOK, NEW p \in Proc, NEW from, NEW to \in Step, NEW error,
           Check(p, from, to, error)
    PROVE  TypeOK'
BY WaitType, FinishType DEF Check

LEMMA ReplyType ==
    ASSUME TypeOK, NEW op, NEW error, Reply(op, error)
    PROVE  TypeOK'
BY RespondsType DEF Reply, TypeOK, people, papers, local

LEMMA RowTypes ==
    ASSUME TypeOK, NEW i \in 1..Len(invitations)
    PROVE  /\ invitations[i] \in Invitation
           /\ invitations[i].role \in Role
           /\ invitations[i].used \in BOOLEAN
           /\ Retired(i) \in Invitation
           /\ Acknowledged(i) \in Invitation
           /\ [invitations[i] EXCEPT !.expired = TRUE] \in Invitation
<1>1. invitations[i] \in Invitation
  BY ElementOfSeq DEF TypeOK
<1> QED
  BY <1>1 DEF Invitation, Retired, Acknowledged

LEMMA NewInvitationType == ASSUME NEW r \in Role PROVE NewInvitation(r) \in Invitation
BY DEF NewInvitation, Invitation

\* What replacing leaves of the invitations.
LEMMA ReplacedType ==
    ASSUME TypeOK, NEW p \in Proc, ReplaceActive(p)
    PROVE  /\ invitations' \in Seq(Invitation)
           /\ Len(invitations') = Len(invitations) + 1
           /\ \A i \in 1..Len(invitations) :
                 invitations'[i] = IF i <= arg[p] THEN Retired(i) ELSE invitations[i]
           /\ invitations'[Len(invitations) + 1] = NewInvitation(role[p])
<1> DEFINE n == Len(invitations)
           e(i) == IF i <= arg[p] THEN Retired(i) ELSE invitations[i]
           old == [i \in 1..n |-> e(i)]
<1>1. n \in Nat /\ NewInvitation(role[p]) \in Invitation
  BY NewInvitationType, LenProperties DEF TypeOK
<1>2. \A i \in 1..n : e(i) \in Invitation
  BY RowTypes
<1>3. old \in Seq(Invitation)
  <2> HIDE DEF e, n
  <2> QED BY <1>1, <1>2, IsASeq
<1>4. Len(old) = n
  BY <1>1, <1>3, LenProperties
<1>5. invitations' = Append(old, NewInvitation(role[p]))
  BY DEF ReplaceActive
<1>6. \A i \in 1..n : old[i] = e(i)
  OBVIOUS
<1> HIDE DEF old, e
<1>7. /\ invitations' \in Seq(Invitation)
      /\ Len(invitations') = n + 1
      /\ \A i \in 1..n : invitations'[i] = old[i]
      /\ invitations'[n + 1] = NewInvitation(role[p])
  BY <1>1, <1>3, <1>4, <1>5
<1> QED
  BY <1>6, <1>7 DEF e

LEMMA InvitingType == ASSUME TypeOK, NEW p \in Proc, Inviting(p) PROVE TypeOK'
<1>1. ASSUME NEW r \in Role, Invite(p, r) PROVE TypeOK'
  <2>1. ASSUME NEW to \in InviteStep, Start(p, to), role' = [role EXCEPT ![p] = r],
               UNCHANGED <<arg, session, target>>
        PROVE  TypeOK'
    BY <2>1, GotoType DEF Start, TypeOK, people, papers, Step
  <2>2. (IF account = "none" THEN "inviting" ELSE "validateUser") \in InviteStep
    BY DEF InviteStep, ValidateStep
  <2> QED
    BY <1>1, <2>1, <2>2, ReplyType DEF Invite
<1>2. CASE LockTenant(p)
  <2>1. locks' \in SUBSET [proc: Proc, lock: Lock]
    BY <1>2, TakeType DEF LockTenant
  <2>2. Len(invitations) \in Nat
    BY DEF TypeOK
  <2> QED
    BY <1>2, <2>1, <2>2, GotoType DEF LockTenant, TypeOK, people, papers, Step, InviteStep, ValidateStep
<1>3. CASE LockInvitation(p)
  <2>1. PICK l \in Needs(p) : Take(p, {l})
    BY <1>3 DEF LockInvitation
  <2>2. locks' \in SUBSET [proc: Proc, lock: Lock]
    BY <2>1, TakeType
  <2> QED
    BY <1>3, <2>2, NoAnswerType DEF LockInvitation, TypeOK, people, papers, local
<1>4. CASE ReplaceActive(p)
  <2>1. Return(p, "retiring", "success") /\ UNCHANGED <<people, requests, admin, redemptions>>
    BY <1>4 DEF ReplaceActive
  <2> QED
    BY <1>4, <2>1, ReturnType, ReplacedType DEF TypeOK, people
<1>5. {"validateTeacher", "validateTenant", "validateMember", "inviting"} \subseteq Step
  BY DEF Step, InviteStep, ValidateStep
<1>6. CASE ValidateUser(p) \/ ValidateTenant(p)
  BY <1>5, <1>6, CheckType, WaitType DEF ValidateUser, ValidateTenant
<1>7. CASE ValidateTeacher(p)
  <2>1. CASE Finish(p, "validateTeacher", "existingTeacher")
    BY <2>1, FinishType
  <2>2. ASSUME NEW l \in Needs(p), Take(p, {l}), UNCHANGED <<people, papers, local, redemptions>>,
               NEW to \in Step, Goto(p, "validateTeacher", to)
        PROVE  TypeOK'
    BY <2>2, TakeType, GotoType DEF TypeOK, people, papers, local
  <2>3. ASSUME NEW l PROVE (IF l.row.table = "member" THEN "validateTenant" ELSE "validateMember") \in Step
    BY <1>5
  <2> QED
    BY <1>7, <2>1, <2>2, <2>3 DEF ValidateTeacher
<1>8. CASE ValidateMember(p)
  <2>1. CASE /\ Goto(p, "validateMember", "inviting")
             /\ locks' = {h \in locks : h.proc # p}
             /\ UNCHANGED <<people, papers, local, redemptions>>
    BY <1>5, <2>1, GotoType DEF TypeOK, people, papers, local
  <2>2. ASSUME NEW error, Check(p, "validateMember", "inviting", error) PROVE TypeOK'
    BY <1>5, <2>2, CheckType
  <2> QED
    BY <1>8, <2>1, <2>2 DEF ValidateMember
<1> QED
  BY <1>1, <1>2, <1>3, <1>4, <1>6, <1>7, <1>8 DEF Inviting, Validating

\* A step of the validation changes no row; it returns, goes on, or ends the transaction.
LEMMA ValidatingSteps ==
    ASSUME NEW p, Validating(p)
    PROVE  /\ pc[p] \in ValidateStep
           /\ UNCHANGED <<people, papers, redemptions>>
           /\ \/ \E error : Finish(p, pc[p], error)
              \/ /\ \E to \in ValidateStep \cup {"inviting"} : pc' = [pc EXCEPT ![p] = to]
                 /\ UNCHANGED local
                 /\ (\E ls : Take(p, ls)) \/ locks' = {h \in locks : h.proc # p}
<1> DEFINE Moves(to) == /\ pc' = [pc EXCEPT ![p] = to]
                        /\ UNCHANGED <<people, papers, local, redemptions>>
                        /\ (\E ls : Take(p, ls)) \/ locks' = {h \in locks : h.proc # p}
<1>1. ASSUME NEW from, NEW error, Finish(p, from, error)
      PROVE  /\ pc[p] = from /\ Finish(p, pc[p], error)
             /\ UNCHANGED <<people, papers, redemptions>>
  BY <1>1 DEF Finish, Return
<1>2. ASSUME NEW from, NEW to, Wait(p, from, to) PROVE pc[p] = from /\ Moves(to)
  BY <1>2 DEF Wait, Goto
<1>3. ASSUME NEW from, NEW to, NEW error, Check(p, from, to, error)
      PROVE  pc[p] = from /\ (Moves(to) \/ Finish(p, from, error))
  BY <1>2, <1>3 DEF Check
<1>4. CASE ValidateTeacher(p)
  <2>1. ASSUME NEW l \in Needs(p), Take(p, {l}), NEW to, Goto(p, "validateTeacher", to),
               UNCHANGED <<people, papers, local, redemptions>>
        PROVE  pc[p] = "validateTeacher" /\ Moves(to)
    BY <2>1 DEF Goto
  <2>2. \/ Finish(p, "validateTeacher", "existingTeacher")
        \/ pc[p] = "validateTeacher" /\ (Moves("validateTenant") \/ Moves("validateMember"))
    <3> HIDE DEF Moves
    <3> QED BY <1>4, <2>1 DEF ValidateTeacher
  <2> QED
    BY <1>1, <2>2 DEF ValidateStep
<1>5. CASE ValidateMember(p)
  <2>1. CASE /\ Goto(p, "validateMember", "inviting")
             /\ locks' = {h \in locks : h.proc # p}
             /\ UNCHANGED <<people, papers, local, redemptions>>
    BY <2>1 DEF Goto, ValidateStep
  <2>2. CASE \E error : Finish(p, "validateMember", error)
    BY <1>1, <2>2 DEF ValidateStep
  <2> QED
    BY <1>5, <2>1, <2>2 DEF ValidateMember, Check
<1>6. CASE ValidateUser(p)
  <2>1. \/ \E error : Finish(p, "validateUser", error)
        \/ pc[p] = "validateUser" /\ Moves("validateTeacher")
    BY <1>3, <1>6 DEF ValidateUser
  <2> QED
    BY <1>1, <2>1 DEF ValidateStep
<1>7. CASE ValidateTenant(p)
  <2>1. pc[p] = "validateTenant" /\ Moves("validateMember")
    BY <1>2, <1>7 DEF ValidateTenant
  <2> QED
    BY <2>1 DEF ValidateStep
<1> QED
  BY <1>4, <1>5, <1>6, <1>7 DEF Validating

LEMMA InvitationsType ==
    ASSUME TypeOK, NEW i \in 1..Len(invitations), NEW e \in Invitation,
           invitations' = [invitations EXCEPT ![i] = e]
    PROVE  /\ invitations' \in Seq(Invitation)
           /\ Len(invitations') = Len(invitations)
           /\ \A j \in 1..Len(invitations) :
                 invitations'[j] = IF j = i THEN e ELSE invitations[j]
BY ExceptSeq DEF TypeOK

LEMMA RedeemType ==
    ASSUME TypeOK, NEW i, Redeem(i)
    PROVE  redemptions' \in [1..MaxInvitations -> Nat]
<1>1. redemptions \in [1..MaxInvitations -> Nat]
  BY DEF TypeOK
<1>2. \A j \in 1..MaxInvitations : redemptions[j] + 1 \in Nat
  BY <1>1
<1> QED
  BY <1>1, <1>2 DEF Redeem

LEMMA AcceptingType ==
    ASSUME TypeOK, NEW p \in Proc, Accepting(p), arg[p] \in 1..Len(invitations) \/ ~Accept(p)
    PROVE  TypeOK'
<1>1. ASSUME NEW i \in 1..Len(invitations), NEW s \in 0..resets, AcceptExisting(p, i, s)
      PROVE  TypeOK'
  <2>1. i \in Nat /\ s \in Nat
    BY DEF TypeOK
  <2> QED
    BY <1>1, <2>1, GotoType
    DEF AcceptExisting, Start, TypeOK, people, papers, Step, AcceptStep
<1>2. CASE AcceptFirst(p) \/ AcceptSecond(p)
  BY <1>2, WaitType DEF AcceptFirst, AcceptSecond, Step, AcceptStep
<1>3. CASE AcceptUser(p)
  BY <1>3, CheckType, FinishType DEF AcceptUser, Step, AcceptStep
<1>4. CASE AcceptTeacher(p)
  <2>1. ASSUME NEW l \in Needs(p), Take(p, {l}), Goto(p, "acceptTeacher", "acceptMember"),
               UNCHANGED <<people, papers, local, redemptions>>
        PROVE  TypeOK'
    <3>1. locks' \in SUBSET [proc: Proc, lock: Lock]
      BY <2>1, TakeType
    <3> QED
      BY <2>1, <3>1, GotoType DEF TypeOK, people, papers, local, Step, AcceptStep
  <2> QED
    BY <1>4, <2>1, FinishType DEF AcceptTeacher
<1>5. CASE AcceptMember(p)
  BY <1>5, CheckType DEF AcceptMember, Step, AcceptStep
<1>6. CASE Accept(p)
  <2>1. arg[p] \in 1..Len(invitations)
    BY <1>6
  <2>2. Acknowledged(arg[p]) \in Invitation /\ invitations[arg[p]].role \in Role
    BY <2>1, RowTypes
  <2>3. invitations' \in Seq(Invitation)
    BY <1>6, <2>1, <2>2, InvitationsType DEF Accept
  <2>4. member' \in Member
    BY <1>6, <2>2 DEF Accept, TypeOK, Member
  <2>5. redemptions' \in [1..MaxInvitations -> Nat]
    BY <1>6, RedeemType DEF Accept
  <2>6. /\ Return(p, "accepting", "success")
        /\ UNCHANGED <<account, resets, elsewhere, requests, admin>>
    BY <1>6 DEF Accept
  <2> QED
    BY <2>3, <2>4, <2>5, <2>6, ReturnType DEF TypeOK
<1>7. CASE AcceptOther(p)
  BY <1>7, FinishType DEF AcceptOther
<1> QED
  BY <1>1, <1>2, <1>3, <1>4, <1>5, <1>6, <1>7 DEF Accepting

LEMMA RegisteringType ==
    ASSUME TypeOK, NEW p \in Proc, Registering(p),
           arg[p] \in 1..Len(invitations) \/ ~Register(p)
    PROVE  TypeOK'
<1>1. ASSUME NEW i \in 1..Len(invitations), RegisterInvited(p, i)
      PROVE  TypeOK'
  <2>1. i \in Nat
    OBVIOUS
  <2> QED
    BY <1>1, <2>1, GotoType
    DEF RegisterInvited, Start, TypeOK, people, papers, Step, RegisterStep
<1>2. CASE RegisterCheck(p)
  BY <1>2, CheckType DEF RegisterCheck, Step, RegisterStep
<1>3. CASE InsertUser(p)
  BY <1>3, CheckType DEF InsertUser, Step, RegisterStep
<1>4. CASE InsertMember(p)
  BY <1>4, WaitType DEF InsertMember, Step, RegisterStep
<1>5. CASE Register(p)
  <2>1. arg[p] \in 1..Len(invitations)
    BY <1>5
  <2>2. Retired(arg[p]) \in Invitation /\ invitations[arg[p]].role \in Role
    BY <2>1, RowTypes
  <2>3. invitations' \in Seq(Invitation)
    BY <1>5, <2>1, <2>2, InvitationsType DEF Register
  <2>4. member' \in Member /\ account' = "person"
    BY <1>5, <2>2 DEF Register, Member
  <2>5. redemptions' \in [1..MaxInvitations -> Nat]
    BY <1>5, RedeemType DEF Register
  <2>6. /\ Return(p, "registering", "success")
        /\ UNCHANGED <<resets, elsewhere, requests, admin>>
    BY <1>5 DEF Register
  <2> QED
    BY <2>3, <2>4, <2>5, <2>6, ReturnType DEF TypeOK
<1> QED
  BY <1>1, <1>2, <1>3, <1>4, <1>5 DEF Registering

LEMMA RequestTypes ==
    ASSUME TypeOK, NEW r \in 1..Len(requests)
    PROVE  requests[r] \in Request
BY ElementOfSeq DEF TypeOK

LEMMA RequestsType ==
    ASSUME TypeOK, NEW r \in 1..Len(requests), NEW e \in Request,
           requests' = [requests EXCEPT ![r] = e]
    PROVE  /\ requests' \in Seq(Request)
           /\ Len(requests') = Len(requests)
           /\ \A j \in 1..Len(requests) : requests'[j] = IF j = r THEN e ELSE requests[j]
BY ExceptSeq DEF TypeOK

LEMMA ApprovedRequest ==
    ASSUME NEW q \in Request, NEW n \in Nat
    PROVE  /\ [q EXCEPT !.status = "approved", !.invitation = n] \in Request
           /\ [q EXCEPT !.status = "approved", !.invitation = n].status = "approved"
BY DEF Request

\* What an approval writes.
LEMMA ApproveWrites ==
    ASSUME TypeOK, NEW p \in Proc, Approve(p), arg[p] \in 1..Len(requests)
    PROVE  /\ requests' \in Seq(Request)
           /\ Len(requests') = Len(requests)
           /\ \A j \in 1..Len(requests) : j # arg[p] => requests'[j] = requests[j]
           /\ requests'[arg[p]].status = "approved"
           /\ invitations' \in Seq(Invitation)
           /\ member' \in Member
<1> DEFINE r == arg[p]
<1>1. Len(invitations) \in Nat /\ invitations \in Seq(Invitation) /\ member \in Member
  BY DEF TypeOK
<1>2. CASE target[p]
  <2> DEFINE e == [requests[r] EXCEPT !.status = "approved"]
  <2>1. requests' = [requests EXCEPT ![r] = e]
    BY <1>2 DEF Approve
  <2>2. e \in Request /\ e.status = "approved"
    BY RequestTypes DEF Request
  <2>3. member' \in Member /\ invitations' = invitations
    BY <1>2 DEF Approve, Member, Role
  <2> HIDE DEF e
  <2>4. /\ requests' \in Seq(Request)
        /\ Len(requests') = Len(requests)
        /\ \A j \in 1..Len(requests) : requests'[j] = IF j = r THEN e ELSE requests[j]
    BY <2>1, <2>2, RequestsType
  <2> QED
    BY <1>1, <2>2, <2>3, <2>4
<1>3. CASE ~target[p]
  <2> DEFINE e == [requests[r] EXCEPT !.status = "approved",
                                      !.invitation = Len(invitations) + 1]
  <2>1. requests' = [requests EXCEPT ![r] = e]
    BY <1>3 DEF Approve
  <2>2. e \in Request /\ e.status = "approved"
    <3>1. Len(invitations) + 1 \in Nat
      BY <1>1
    <3>2. requests[r] \in Request
      BY RequestTypes
    <3> QED
      BY <3>1, <3>2, ApprovedRequest
  <2>3. member' = member /\ invitations' = Append(invitations, NewInvitation("Creator"))
    BY <1>3 DEF Approve
  <2>4. invitations' \in Seq(Invitation)
    BY <1>1, <2>3, NewInvitationType DEF Role
  <2> HIDE DEF e
  <2>5. /\ requests' \in Seq(Request)
        /\ Len(requests') = Len(requests)
        /\ \A j \in 1..Len(requests) : requests'[j] = IF j = r THEN e ELSE requests[j]
    BY <2>1, <2>2, RequestsType
  <2> QED
    BY <1>1, <2>2, <2>3, <2>4, <2>5
<1> QED
  <2>1. target[p] \in BOOLEAN
    BY DEF TypeOK
  <2> QED
    BY <1>2, <1>3, <2>1

LEMMA RejectWrites ==
    ASSUME TypeOK, NEW p \in Proc, arg[p] \in 1..Len(requests),
           requests' = [requests EXCEPT ![arg[p]].status = "rejected"]
    PROVE  /\ requests' \in Seq(Request)
           /\ Len(requests') = Len(requests)
           /\ \A j \in 1..Len(requests) : j # arg[p] => requests'[j] = requests[j]
           /\ requests'[arg[p]].status = "rejected"
<1> DEFINE e == [requests[arg[p]] EXCEPT !.status = "rejected"]
<1>1. requests' = [requests EXCEPT ![arg[p]] = e]
  OBVIOUS
<1>2. e \in Request /\ e.status = "rejected"
  BY RequestTypes DEF Request
<1> HIDE DEF e
<1>3. /\ requests' \in Seq(Request)
      /\ Len(requests') = Len(requests)
      /\ \A j \in 1..Len(requests) : requests'[j] = IF j = arg[p] THEN e ELSE requests[j]
  BY <1>1, <1>2, RequestsType
<1> QED
  BY <1>2, <1>3

LEMMA DecidingType ==
    ASSUME TypeOK, NEW p \in Proc, Deciding(p),
           arg[p] \in 1..Len(requests) \/ ~(Approve(p) \/ Reject(p))
    PROVE  TypeOK'
<1>1. CASE RequestCreator(p)
  <2>1. CASE Start(p, "requesting") /\ target' = [target EXCEPT ![p] = account # "none"]
                /\ UNCHANGED <<arg, role, session>>
    BY <2>1, GotoType DEF Start, TypeOK, people, papers, Step
  <2> QED
    BY <1>1, <2>1, ReplyType DEF RequestCreator
<1>2. CASE SubmitRequest(p)
  <2>1. ASSUME Return(p, "requesting", "success"),
               requests' = Append(requests,
                   [target |-> target[p], status |-> "pending", invitation |-> 0]),
               UNCHANGED <<people, invitations, admin, redemptions>>
        PROVE  TypeOK'
    <3>1. [target |-> target[p], status |-> "pending", invitation |-> 0] \in Request
      BY DEF TypeOK, Request
    <3>2. requests' \in Seq(Request)
      BY <2>1, <3>1 DEF TypeOK
    <3> QED
      BY <2>1, <3>2, ReturnType DEF TypeOK, people
  <2> QED
    BY <1>2, <2>1, FinishType DEF SubmitRequest
<1>3. ASSUME NEW r \in 1..Len(requests), Decide(p, r) PROVE TypeOK'
  <2>1. r \in Nat
    OBVIOUS
  <2> QED
    BY <1>3, <2>1, GotoType DEF Decide, Start, TypeOK, people, papers, Step, DecideStep
<1>4. CASE DecideAssignment(p)
  BY <1>4, CheckType DEF DecideAssignment, Step, DecideStep
<1>5. CASE DecideRequest(p)
  BY <1>5, CheckType DEF DecideRequest, Step, DecideStep
<1>6. CASE DecideTenant(p)
  BY <1>6, WaitType DEF DecideTenant, Step, DecideStep
<1>7. CASE DecideUser(p)
  <2> DEFINE found == account # "none"
  <2>1. ASSUME Goto(p, "decideUser", IF found THEN "decideMember" ELSE "approving"),
               Take(p, Needs(p)), target' = [target EXCEPT ![p] = found],
               UNCHANGED <<people, papers, arg, role, session, redemptions>>
        PROVE  TypeOK'
    <3>1. (IF found THEN "decideMember" ELSE "approving") \in Step
      BY DEF Step, DecideStep
    <3>2. pc' \in [Proc -> Step] /\ answer'.status \in Nat
      BY <2>1, <3>1, GotoType
    <3>3. locks' \in SUBSET [proc: Proc, lock: Lock]
      BY <2>1, TakeType
    <3> QED
      BY <2>1, <3>2, <3>3 DEF TypeOK, people, papers
  <2> QED
    BY <1>7, <2>1, FinishType DEF DecideUser
<1>8. CASE DecideMember(p)
  BY <1>8, CheckType DEF DecideMember, Step, DecideStep
<1>9. CASE Approve(p)
  <2>1. /\ Return(p, "approving", "success")
        /\ UNCHANGED <<account, resets, elsewhere, admin, redemptions>>
    BY <1>9 DEF Approve
  <2> QED
    BY <1>9, <2>1, ReturnType, ApproveWrites DEF TypeOK
<1>10. CASE Reject(p)
  <2>1. ASSUME Return(p, "rejecting", "success"),
               requests' = [requests EXCEPT ![arg[p]].status = "rejected"],
               UNCHANGED <<people, invitations, admin, redemptions>>
        PROVE  TypeOK'
    BY <1>10, <2>1, ReturnType, RejectWrites DEF TypeOK, people
  <2> QED
    BY <1>10, <2>1, FinishType DEF Reject
<1> QED
  BY <1>1, <1>2, <1>3, <1>4, <1>5, <1>6, <1>7, <1>8, <1>9, <1>10 DEF Deciding

LEMMA ManagingType == ASSUME TypeOK, NEW p \in Proc, Managing(p) PROVE TypeOK'
<1>1. ASSUME NEW r \in Role, ChangeRole(p, r) PROVE TypeOK'
  BY <1>1, GotoType DEF ChangeRole, Start, TypeOK, people, papers, Step
<1>2. CASE WriteRole(p)
  <2>1. member' \in Member
    BY <1>2 DEF WriteRole, TypeOK, Member
  <2>2. \E error : Return(p, "changingRole", error)
    BY <1>2 DEF WriteRole
  <2>3. UNCHANGED <<account, resets, elsewhere, papers, redemptions>>
    BY <1>2 DEF WriteRole
  <2> QED
    BY <2>1, <2>2, <2>3, ReturnType DEF TypeOK, papers
<1> QED
  BY <1>1, <1>2 DEF Managing

LEMMA TurnedType == Turned \subseteq Nat
<1>1. Listed \subseteq Nat
  BY DEF Listed, Status, ListCreatorRequestsStatus, ListPlatformStatus
<1>2. ASSUME NEW op PROVE {Status(Table(op), e) : e \in Refusals(op)} \subseteq Nat
  BY StatusIsNat
<1> QED
  BY <1>1, <1>2, Zenon DEF Turned

LEMMA EnvironmentType == ASSUME TypeOK, Environment PROVE TypeOK'
<1>1. ASSUME NEW i \in 1..Len(invitations), Revoke(i) PROVE TypeOK'
  <2>1. CASE Reply("revoke", "notFound")
    BY <2>1, ReplyType
  <2>2. ASSUME invitations' = [invitations EXCEPT ![i] = Retired(i)],
               Responds("revoke", "success"),
               UNCHANGED <<people, requests, admin, locks, pc, local, redemptions>>
        PROVE  TypeOK'
    BY <2>2, RowTypes, InvitationsType, RespondsType DEF TypeOK, people, local
  <2> QED
    BY <1>1, <2>1, <2>2 DEF Revoke
<1>2. ASSUME NEW i \in 1..Len(invitations), Expire(i) PROVE TypeOK'
  <2>1. invitations' = [invitations EXCEPT ![i] = [invitations[i] EXCEPT !.expired = TRUE]]
    BY <1>2 DEF Expire
  <2>2. invitations' \in Seq(Invitation)
    BY <2>1, RowTypes, InvitationsType
  <2> QED
    BY <1>2, <2>2, NoAnswerType DEF Expire, TypeOK, people, local
<1>3. ASSUME NEW i \in 1..Len(invitations), Verify(i) PROVE TypeOK'
  BY <1>3, ReplyType DEF Verify
<1>4. CASE Refuse
  <2>1. answer'.status \in Nat
    BY <1>4, TurnedType DEF Refuse
  <2> QED
    BY <1>4, <2>1 DEF Refuse, TypeOK, people, papers, local
<1>5. CASE RemoveMember
  <2>1. member' \in Member
    BY <1>5 DEF RemoveMember, TypeOK, Member
  <2> QED
    BY <1>5, <2>1, NoAnswerType DEF RemoveMember, TypeOK, papers, local
<1>6. CASE CreateAccount
  BY <1>6, NoAnswerType DEF CreateAccount, TypeOK, papers, local
<1>7. CASE TeachElsewhere
  BY <1>7, NoAnswerType DEF TeachElsewhere, TypeOK, papers, local
<1>8. CASE ResetPassword
  BY <1>8, NoAnswerType DEF ResetPassword, TypeOK, papers, local
<1>9. CASE RevokeAdmin
  BY <1>9, NoAnswerType DEF RevokeAdmin, TypeOK, people, local
<1> QED
  BY <1>1, <1>2, <1>3, <1>4, <1>5, <1>6, <1>7, <1>8, <1>9 DEF Environment

LEMMA AbortType == ASSUME TypeOK, NEW p \in Proc, Abort(p) PROVE TypeOK'
BY FinishType DEF Abort

-----------------------------------------------------------------------------
(***************************************************************************)
(* The inductive invariant.                                                *)
(***************************************************************************)

\* Locks that exclude each other are not held by two processes.
Exclusive ==
    \A p, q \in Proc, l, m \in Lock :
        p # q /\ Holds(p, l) /\ Holds(q, m) => ~Conflict(l, m)

\* What is told of a lock: its table, and of the tenant's whether it is the one that
\* excludes everybody.
Kind(l) ==
    IF l.row.table = "tenant" /\ l.mode = "update" THEN "tenantForUpdate" ELSE l.row.table

\* The locks a handler has taken, at most, when it reaches a step.
Acquired(step) ==
    CASE step = "validateTeacher" -> {"user"}
      [] step = "validateTenant" -> {"user", "member"}
      [] step = "validateMember" -> {"user", "elsewhere", "member", "tenant"}
      [] step = "retiring" -> {"tenantForUpdate", "invitation"}
      [] step = "acceptSecond" -> {"tenant"}
      [] step = "acceptUser" -> {"tenant", "invitation"}
      [] step = "acceptTeacher" -> {"tenant", "invitation", "user"}
      [] step = "acceptMember" -> {"tenant", "invitation", "user", "elsewhere", "member"}
      [] step = "accepting" -> {"tenant", "invitation", "user", "elsewhere", "member"}
      [] step = "registerEmail" -> {"invitation"}
      [] step = "registerTenant" -> {"invitation", "user"}
      [] step = "registering" -> {"invitation", "user", "tenant"}
      [] step = "decideRequest" -> {"admin"}
      [] step = "decideTenant" -> {"admin", "request"}
      [] step = "decideUser" -> {"admin", "request", "tenant"}
      [] step = "rejecting" -> {"admin", "request", "tenant"}
      [] step = "decideMember" -> {"admin", "request", "tenant", "user"}
      [] step = "approving" -> {"admin", "request", "tenant", "user", "member"}
      [] OTHER -> {}

Within == \A p \in Proc, l \in Lock : Holds(p, l) => Kind(l) \in Acquired(pc[p])

\* What a handler knows at each step, from what it read under the locks it holds.

KnowsInviting(p) ==
    /\ pc[p] \in InviteStep \cup {"changingRole"} => role[p] # "Creator"
    /\ pc[p] \in ValidateStep => account # "none"
    /\ pc[p] \in ValidateStep \ {"validateUser"} => Holds(p, Share("user", 0))
    /\ pc[p] = "retiring" =>
         /\ Holds(p, Update("tenant", 0))
         /\ arg[p] <= Len(invitations)
         /\ \A i \in 1..Len(invitations) : i > arg[p] => invitations[i].role = "Creator"

TeachesUnderLock(p) ==
    \/ elsewhere /\ Holds(p, Share("elsewhere", 0))
    \/ Teaches /\ Holds(p, Share("member", 0))

KnowsAccepting(p) ==
    /\ pc[p] \in AcceptStep => arg[p] \in 1..Len(invitations)
    /\ pc[p] \in AcceptStep \ {"acceptFirst"} => Holds(p, Share("tenant", 0))
    /\ pc[p] \in {"acceptUser", "acceptTeacher", "acceptMember", "accepting"} =>
         Holds(p, Update("invitation", arg[p]))
    /\ pc[p] \in {"acceptTeacher", "acceptMember", "accepting"} =>
         /\ Holds(p, Update("user", 0))
         /\ account # "none"
         /\ session[p] = resets
         /\ invitations[arg[p]].role = "Teacher"
    /\ pc[p] \in {"acceptMember", "accepting"} => TeachesUnderLock(p)
    /\ pc[p] = "accepting" =>
         /\ member.state # "gone"
         /\ member.state = "active" => Holds(p, Update("member", 0))

KnowsRegistering(p) ==
    /\ pc[p] \in RegisterStep => arg[p] \in 1..Len(invitations)
    /\ pc[p] \in {"registerEmail", "registerTenant", "registering"} =>
         /\ Holds(p, Update("invitation", arg[p]))
         /\ ~invitations[arg[p]].used
         /\ Approved(arg[p])
    /\ pc[p] \in {"registerTenant", "registering"} =>
         /\ Holds(p, Update("user", 0))
         /\ account = "none"

Promoting(p) == pc[p] = "decideMember" \/ (pc[p] = "approving" /\ target[p])

KnowsDeciding(p) ==
    /\ pc[p] \in DecideStep => arg[p] \in 1..Len(requests)
    /\ pc[p] \in DecideStep \ {"decide"} => Holds(p, Share("admin", 0)) /\ admin
    /\ pc[p] \in DecideStep \ {"decide", "decideRequest"} =>
         /\ Holds(p, Update("request", arg[p]))
         /\ requests[arg[p]].status = "pending"
    /\ pc[p] = "decideMember" => target[p]
    /\ Promoting(p) => Holds(p, Update("user", 0)) /\ account # "none"
    /\ pc[p] = "approving" /\ target[p] =>
         /\ Promotable
         /\ member.state # "absent" => Holds(p, Update("member", 0))

Knows(p) == KnowsInviting(p) /\ KnowsAccepting(p) /\ KnowsRegistering(p) /\ KnowsDeciding(p)

\* A membership belongs to an account.
Joined == member.state # "absent" => account # "none"

\* OneLiveInvitation, without counting.
AtMostOne ==
    \A i, j \in Live : invitations[i].role # "Creator" /\ invitations[j].role # "Creator" => i = j

IInv ==
    /\ TypeOK
    /\ Exclusive
    /\ Within
    /\ \A p \in Proc : Knows(p)
    /\ Joined
    /\ CreatorOnlyByApproval
    /\ AtMostOne

-----------------------------------------------------------------------------
(***************************************************************************)
(* What a step leaves alone.                                               *)
(***************************************************************************)

\* The variables and locks of a handler that does not take the step.
SameLocals(q) ==
    /\ pc'[q] = pc[q] /\ arg'[q] = arg[q] /\ role'[q] = role[q]
    /\ session'[q] = session[q] /\ target'[q] = target[q]
    /\ \A l : [proc |-> q, lock |-> l] \in locks' <=> [proc |-> q, lock |-> l] \in locks

\* What its locks protect.
Protected(q) ==
    /\ Holds(q, Update("tenant", 0)) =>
         \A i \in 1..Len(invitations') :
            i > Len(invitations) => invitations'[i].role = "Creator"
    /\ \A i \in 1..Len(invitations) :
         Holds(q, Update("invitation", i)) => invitations'[i].used = invitations[i].used
    /\ Holds(q, Update("user", 0)) =>
         /\ account' = account /\ resets' = resets
         /\ member.state = "absent" => member' = member
    /\ Holds(q, Share("elsewhere", 0)) => elsewhere' = elsewhere
    /\ member.state # "absent" /\ (Holds(q, Share("member", 0)) \/ Holds(q, Update("member", 0)))
         => member' = member
    /\ Holds(q, Share("admin", 0)) => admin' = admin
    /\ \A r \in 1..Len(requests) :
         Holds(q, Update("request", r)) => requests'[r] = requests[r]

\* What nobody ever takes back.
Grows ==
    /\ Len(invitations) <= Len(invitations')
    /\ \A i \in 1..Len(invitations) : invitations'[i].role = invitations[i].role
    /\ Len(requests) <= Len(requests')
    /\ \A r \in 1..Len(requests) :
         requests[r].status = "approved" => requests'[r] = requests[r]
    /\ account # "none" => account' # "none"

\* A handler still knows what it knew.
LEMMA InvitingStable ==
    ASSUME TypeOK, TypeOK', NEW q \in Proc, KnowsInviting(q),
           SameLocals(q), Protected(q), Grows
    PROVE  KnowsInviting(q)'
<1>1. /\ Len(invitations) \in Nat /\ Len(invitations') \in Nat /\ arg[q] \in Nat
      /\ pc'[q] = pc[q] /\ arg'[q] = arg[q] /\ role'[q] = role[q]
  BY DEF TypeOK, SameLocals
<1>4. pc[q] \in ValidateStep => account' # "none"
  BY DEF KnowsInviting, Grows
<1>5. pc[q] \in ValidateStep \ {"validateUser"} => Holds(q, Share("user", 0))'
  BY DEF KnowsInviting, SameLocals, Holds, Share
<1>2. CASE pc[q] # "retiring"
  BY <1>1, <1>2, <1>4, <1>5 DEF KnowsInviting, Holds, Share
<1>3. CASE pc[q] = "retiring"
  <2>1. Holds(q, Update("tenant", 0)) /\ Holds(q, Update("tenant", 0))'
    BY <1>3 DEF KnowsInviting, SameLocals, Holds, Update
  <2>2. arg[q] <= Len(invitations')
    BY <1>1, <1>3 DEF KnowsInviting, Grows
  <2>3. ASSUME NEW i \in 1..Len(invitations'), i > arg[q]
        PROVE  invitations'[i].role = "Creator"
    BY <1>1, <1>3, <2>1, <2>3 DEF KnowsInviting, Protected, Grows
  <2> QED
    BY <1>1, <1>3, <1>4, <1>5, <2>1, <2>2, <2>3 DEF KnowsInviting, Holds, Share
<1> QED
  BY <1>2, <1>3

LEMMA AcceptingStable ==
    ASSUME TypeOK, TypeOK', NEW q \in Proc, KnowsAccepting(q),
           SameLocals(q), Protected(q), Grows
    PROVE  KnowsAccepting(q)'
<1>1. /\ Len(invitations) \in Nat /\ Len(invitations') \in Nat /\ arg[q] \in Nat
      /\ pc'[q] = pc[q] /\ arg'[q] = arg[q] /\ session'[q] = session[q]
  BY DEF TypeOK, SameLocals
<1>2. ASSUME NEW l PROVE Holds(q, l) <=> Holds(q, l)'
  BY DEF SameLocals, Holds
<1>3. pc[q] \in AcceptStep => arg[q] \in 1..Len(invitations')
  BY <1>1 DEF KnowsAccepting, Grows
<1>4. /\ pc[q] \in AcceptStep \ {"acceptFirst"} => Holds(q, Share("tenant", 0))'
      /\ pc[q] \in {"acceptUser", "acceptTeacher", "acceptMember", "accepting"} =>
            Holds(q, Update("invitation", arg[q]))'
  BY <1>1 DEF KnowsAccepting, SameLocals, Holds, Update, Share
<1>5. ASSUME pc[q] \in {"acceptTeacher", "acceptMember", "accepting"}
      PROVE  /\ Holds(q, Update("user", 0)) /\ Holds(q, Update("user", 0))'
             /\ account' # "none"
             /\ session[q] = resets'
             /\ invitations'[arg[q]].role = "Teacher"
  <2>1. Holds(q, Update("user", 0)) /\ account # "none" /\ session[q] = resets
    BY <1>5 DEF KnowsAccepting
  <2>2. invitations'[arg[q]].role = "Teacher"
    BY <1>5 DEF KnowsAccepting, Grows, AcceptStep
  <2> QED
    BY <2>1, <2>2 DEF SameLocals, Holds, Update, Protected
<1>6. ASSUME pc[q] \in {"acceptMember", "accepting"} PROVE TeachesUnderLock(q)'
  <2>1. TeachesUnderLock(q)
    BY <1>6 DEF KnowsAccepting
  <2> QED
    BY <2>1 DEF TeachesUnderLock, SameLocals, Holds, Share, Protected, Teaches
<1>7. ASSUME pc[q] = "accepting"
      PROVE  /\ member'.state # "gone"
             /\ member'.state = "active" => Holds(q, Update("member", 0))'
  <2>1. /\ member.state # "gone"
        /\ member.state = "active" => Holds(q, Update("member", 0))
    BY <1>7 DEF KnowsAccepting
  <2>2. member.state \in {"absent", "active", "gone"}
    BY DEF TypeOK, Member
  <2>3. CASE member.state = "absent"
    BY <1>5, <1>7, <2>3 DEF Protected
  <2>4. CASE member.state = "active"
    BY <2>1, <2>4 DEF Protected, SameLocals, Holds, Update
  <2> QED
    BY <2>1, <2>2, <2>3, <2>4
<1> QED
  BY <1>1, <1>3, <1>4, <1>5, <1>6, <1>7 DEF KnowsAccepting, Holds, Update, Share

\* An approval that was found is found again.
LEMMA ApprovedStable ==
    ASSUME TypeOK, TypeOK', NEW i \in 1..Len(invitations), Approved(i), Grows
    PROVE  Approved(i)'
<1>1. invitations'[i].role = invitations[i].role
  BY DEF Grows
<1>2. CASE invitations[i].role # "Creator"
  BY <1>1, <1>2 DEF Approved
<1>3. CASE invitations[i].role = "Creator"
  <2>1. PICK r \in 1..Len(requests) : /\ requests[r].invitation = i
                                      /\ requests[r].status = "approved"
                                      /\ ~requests[r].target
    BY <1>3 DEF Approved
  <2>2. requests'[r] = requests[r] /\ r \in 1..Len(requests')
    BY <2>1 DEF Grows, TypeOK
  <2> QED
    BY <2>1, <2>2 DEF Approved
<1> QED
  BY <1>2, <1>3

LEMMA RegisteringStable ==
    ASSUME TypeOK, TypeOK', NEW q \in Proc, KnowsRegistering(q),
           SameLocals(q), Protected(q), Grows
    PROVE  KnowsRegistering(q)'
<1>1. /\ Len(invitations) \in Nat /\ Len(invitations') \in Nat /\ arg[q] \in Nat
      /\ pc'[q] = pc[q] /\ arg'[q] = arg[q]
  BY DEF TypeOK, SameLocals
<1>2. pc[q] \in RegisterStep => arg[q] \in 1..Len(invitations')
  BY <1>1 DEF KnowsRegistering, Grows
<1>3. ASSUME pc[q] \in {"registerEmail", "registerTenant", "registering"}
      PROVE  /\ Holds(q, Update("invitation", arg[q]))'
             /\ ~invitations'[arg[q]].used
             /\ Approved(arg[q])'
  <2>1. /\ Holds(q, Update("invitation", arg[q]))
        /\ ~invitations[arg[q]].used
        /\ Approved(arg[q])
        /\ arg[q] \in 1..Len(invitations)
    BY <1>3 DEF KnowsRegistering, RegisterStep
  <2>2. invitations'[arg[q]].used = invitations[arg[q]].used
    BY <2>1 DEF Protected
  <2>3. \A i \in 1..Len(invitations) : Approved(i) => Approved(i)'
    BY ApprovedStable
  <2>4. Holds(q, Update("invitation", arg[q]))'
    BY <1>1, <2>1 DEF SameLocals, Holds, Update
  <2>5. Approved(arg[q])'
    BY <1>1, <2>1, <2>3 DEF Approved
  <2> QED
    BY <2>1, <2>2, <2>4, <2>5
<1>4. ASSUME pc[q] \in {"registerTenant", "registering"}
      PROVE  Holds(q, Update("user", 0))' /\ account' = "none"
  BY <1>4 DEF KnowsRegistering, SameLocals, Holds, Update, Protected
<1> QED
  BY <1>1, <1>2, <1>3, <1>4 DEF KnowsRegistering, Holds, Update, Approved

LEMMA DecidingStable ==
    ASSUME TypeOK, TypeOK', NEW q \in Proc, KnowsDeciding(q),
           SameLocals(q), Protected(q), Grows
    PROVE  KnowsDeciding(q)'
<1>1. /\ Len(requests) \in Nat /\ Len(requests') \in Nat /\ arg[q] \in Nat
      /\ pc'[q] = pc[q] /\ arg'[q] = arg[q] /\ target'[q] = target[q]
  BY DEF TypeOK, SameLocals
<1>2. pc[q] \in DecideStep => arg[q] \in 1..Len(requests) /\ arg[q] \in 1..Len(requests')
  BY <1>1 DEF KnowsDeciding, Grows
<1>3. pc[q] \in DecideStep \ {"decide"} => Holds(q, Share("admin", 0))' /\ admin'
  BY DEF KnowsDeciding, SameLocals, Holds, Share, Protected
<1>4. ASSUME pc[q] \in DecideStep \ {"decide", "decideRequest"}
      PROVE  /\ Holds(q, Update("request", arg[q]))'
             /\ requests'[arg[q]].status = "pending"
  <2>1. Holds(q, Update("request", arg[q])) /\ requests[arg[q]].status = "pending"
    BY <1>4 DEF KnowsDeciding
  <2>2. requests'[arg[q]] = requests[arg[q]]
    BY <1>2, <1>4, <2>1 DEF Protected
  <2> QED
    BY <1>1, <2>1, <2>2 DEF SameLocals, Holds, Update
<1>5. Promoting(q) => Holds(q, Update("user", 0))' /\ account' # "none"
  BY DEF KnowsDeciding, SameLocals, Holds, Update, Grows
<1>6. ASSUME pc[q] = "approving" /\ target[q]
      PROVE  /\ Promotable'
             /\ member'.state # "absent" => Holds(q, Update("member", 0))'
  <2>1. /\ Promotable
        /\ member.state # "absent" => Holds(q, Update("member", 0))
        /\ Holds(q, Update("user", 0))
    BY <1>6 DEF KnowsDeciding, Promoting
  <2>2. member' = member
    BY <2>1 DEF Protected
  <2> QED
    BY <2>1, <2>2 DEF Promotable, SameLocals, Holds, Update
<1>7. Promoting(q)' <=> Promoting(q)
  BY <1>1 DEF Promoting
<1>8. pc[q] = "decideMember" => target[q]
  BY DEF KnowsDeciding
<1> QED
  BY <1>1, <1>2, <1>3, <1>4, <1>5, <1>6, <1>7, <1>8 DEF KnowsDeciding, Holds, Update, Share

LEMMA KnowsStable ==
    ASSUME TypeOK, TypeOK', NEW q \in Proc, Knows(q), SameLocals(q), Protected(q), Grows
    PROVE  Knows(q)'
BY InvitingStable, AcceptingStable, RegisteringStable, DecidingStable DEF Knows

\* A handler that has returned, or has only begun, need not know anything.
LEMMA KnowsNothing ==
    ASSUME NEW p \in Proc
    PROVE  /\ pc'[p] \notin InviteStep \cup {"changingRole"} => KnowsInviting(p)'
           /\ pc'[p] \notin AcceptStep => KnowsAccepting(p)'
           /\ pc'[p] \notin RegisterStep => KnowsRegistering(p)'
           /\ pc'[p] \notin DecideStep => KnowsDeciding(p)'
BY DEF KnowsInviting, KnowsAccepting, KnowsRegistering, KnowsDeciding, Promoting,
       InviteStep, ValidateStep, AcceptStep, RegisterStep, DecideStep

-----------------------------------------------------------------------------
(***************************************************************************)
(* Locks.                                                                  *)
(***************************************************************************)

LEMMA ConflictSymmetric == \A l, m : Conflict(l, m) <=> Conflict(m, l)
BY DEF Conflict

LEMMA UpdateExcludes ==
    \A table, i : /\ Conflict(Update(table, i), Update(table, i))
                  /\ Conflict(Update(table, i), Share(table, i))
                  /\ Conflict(Share(table, i), Update(table, i))
BY DEF Conflict, Update, Share

\* Nobody can hold what conflicts with a lock that is free, or that another one holds.
LEMMA FreeMeans ==
    ASSUME NEW l, Free(l), NEW q, NEW m, Holds(q, m)
    PROVE  ~Conflict(l, m)
BY ConflictSymmetric DEF Free, Holds

LEMMA HeldTwice ==
    ASSUME Exclusive, NEW p \in Proc, NEW q \in Proc, NEW l \in Lock, NEW m \in Lock,
           Holds(p, l), Holds(q, m), Conflict(l, m)
    PROVE  p = q
BY DEF Exclusive

\* Taking locks.
LEMMA TakeLocks ==
    ASSUME NEW p \in Proc, NEW ls, Take(p, ls)
    PROVE  /\ \A l : Holds(p, l)' <=> Holds(p, l) \/ l \in ls
           /\ \A q \in Proc \ {p} : \A l : Holds(q, l)' <=> Holds(q, l)
BY DEF Take, Holds

LEMMA TakeExclusive ==
    ASSUME Exclusive, NEW p \in Proc, NEW ls, Take(p, ls)
    PROVE  Exclusive'
<1> SUFFICES ASSUME NEW q \in Proc, NEW r \in Proc, NEW l \in Lock, NEW m \in Lock,
                    q # r, Holds(q, l)', Holds(r, m)'
             PROVE  ~Conflict(l, m)
  BY DEF Exclusive, Conflict
<1>1. \A k \in ls : Blockers(p, k) = {}
  BY DEF Take
<1>2. ASSUME NEW k \in ls, NEW s \in Proc \ {p}, NEW n, Holds(s, n)
      PROVE  ~Conflict(n, k)
  <2>1. s \notin Blockers(p, k)
    BY <1>1, <1>2
  <2> QED
    BY <1>2, <2>1 DEF Blockers, Holds
<1>3. CASE q = p
  <2>1. Holds(r, m)
    BY <1>3, TakeLocks
  <2> QED
    BY <1>2, <1>3, <2>1, TakeLocks, ConflictSymmetric DEF Exclusive
<1>4. CASE q # p
  <2>1. Holds(q, l)
    BY <1>4, TakeLocks
  <2>2. CASE r = p
    BY <1>2, <1>4, <2>1, <2>2, TakeLocks DEF Exclusive
  <2>3. CASE r # p
    BY <2>1, <2>3, TakeLocks DEF Exclusive
  <2> QED
    BY <2>2, <2>3
<1> QED
  BY <1>3, <1>4

LEMMA ReleaseExclusive ==
    ASSUME Exclusive, NEW p \in Proc, locks' = {h \in locks : h.proc # p}
    PROVE  Exclusive'
BY DEF Exclusive, Holds, Conflict

LEMMA ReturnLocks ==
    ASSUME NEW p \in Proc, NEW from, NEW error, Return(p, from, error)
    PROVE  /\ \A l : ~Holds(p, l)'
           /\ \A q \in Proc \ {p} : \A l : Holds(q, l)' <=> Holds(q, l)
BY DEF Return, Holds

-----------------------------------------------------------------------------
(***************************************************************************)
(* Steps of one handler, by what they touch.                               *)
(***************************************************************************)

LEMMA ReturnFrame ==
    ASSUME TypeOK, NEW p \in Proc, NEW from, NEW error, Return(p, from, error)
    PROVE  \A q \in Proc \ {p} : SameLocals(q)
BY DEF Return, SameLocals, TypeOK

LEMMA TakeFrame ==
    ASSUME NEW p \in Proc, NEW ls, Take(p, ls)
    PROVE  \A q \in Proc \ {p} : \A l :
              [proc |-> q, lock |-> l] \in locks' <=> [proc |-> q, lock |-> l] \in locks
BY DEF Take

LEMMA WaitFrame ==
    ASSUME TypeOK, NEW p \in Proc, NEW from, NEW to, Wait(p, from, to)
    PROVE  \A q \in Proc \ {p} : SameLocals(q)
<1>1. Take(p, Needs(p)) /\ Goto(p, from, to) /\ UNCHANGED local
  BY DEF Wait
<1> QED
  BY <1>1, TakeFrame DEF Goto, local, SameLocals, TypeOK

\* Who changes no row leaves all of them alone.
LEMMA QuietProtected ==
    ASSUME TypeOK, UNCHANGED <<people, papers>>
    PROVE  Grows /\ \A q \in Proc : Protected(q)
<1>1. /\ Len(invitations) \in Nat /\ Len(requests) \in Nat
      /\ UNCHANGED <<account, resets, elsewhere, member, invitations, requests, admin>>
  BY DEF TypeOK, people, papers
<1> QED
  BY <1>1 DEF Grows, Protected

LEMMA QuietGlobal ==
    ASSUME IInv, UNCHANGED <<people, papers>>
    PROVE  Joined' /\ CreatorOnlyByApproval' /\ AtMostOne'
<1>1. UNCHANGED <<account, member, invitations, requests>>
  BY DEF people, papers
<1> QED
  BY <1>1 DEF IInv, Joined, CreatorOnlyByApproval, AtMostOne, Live

LEMMA SameHolds ==
    ASSUME NEW q, SameLocals(q)
    PROVE  pc'[q] = pc[q] /\ \A l : Holds(q, l)' <=> Holds(q, l)
BY DEF SameLocals, Holds

\* A step of p keeps the invariant if it keeps what is said of p and of the rows.
LEMMA StepKeeps ==
    ASSUME IInv, TypeOK', Exclusive', NEW p \in Proc,
           \A q \in Proc \ {p} : SameLocals(q) /\ Protected(q), Grows,
           Knows(p)', \A l \in Lock : Holds(p, l)' => Kind(l) \in Acquired(pc'[p]),
           Joined', CreatorOnlyByApproval', AtMostOne'
    PROVE  IInv'
<1>1. \A q \in Proc : Knows(q)'
  <2> SUFFICES ASSUME NEW q \in Proc \ {p} PROVE Knows(q)'
    OBVIOUS
  <2> QED
    BY KnowsStable DEF IInv
<1>2. Within'
  <2> SUFFICES ASSUME NEW q \in Proc, NEW l \in Lock, Holds(q, l)'
               PROVE  Kind(l) \in Acquired(pc'[q])
    BY DEF Within, Acquired
  <2>1. CASE q = p
    BY <2>1
  <2>2. CASE q # p
    BY <2>2, SameHolds DEF IInv, Within
  <2> QED
    BY <2>1, <2>2
<1> QED
  BY <1>1, <1>2 DEF IInv

LEMMA ReturnKeeps ==
    ASSUME IInv, TypeOK', NEW p \in Proc, NEW from, NEW error, Return(p, from, error),
           \A q \in Proc \ {p} : Protected(q), Grows,
           Joined', CreatorOnlyByApproval', AtMostOne'
    PROVE  IInv'
<1>1. pc'[p] = "idle" /\ \A q \in Proc \ {p} : SameLocals(q)
  BY ReturnFrame DEF IInv, Return, TypeOK
<1>2. Knows(p)'
  BY <1>1, KnowsNothing DEF Knows, InviteStep, ValidateStep, AcceptStep, RegisterStep, DecideStep
<1>3. Exclusive'
  BY ReleaseExclusive DEF IInv, Return
<1> QED
  BY <1>1, <1>2, <1>3, ReturnLocks, StepKeeps

LEMMA FinishKeeps ==
    ASSUME IInv, NEW p \in Proc, NEW from, NEW error, Finish(p, from, error)
    PROVE  IInv'
<1>1. Return(p, from, error) /\ UNCHANGED <<people, papers>>
  BY DEF Finish
<1>2. TypeOK'
  BY FinishType DEF IInv
<1> QED
  BY <1>1, <1>2, ReturnKeeps, QuietProtected, QuietGlobal DEF IInv

\* A step that goes on, with more locks.
LEMMA MoveKeeps ==
    ASSUME IInv, TypeOK', NEW p \in Proc, NEW ls, Take(p, ls), UNCHANGED <<people, papers>>,
           \A q \in Proc \ {p} : /\ pc'[q] = pc[q] /\ arg'[q] = arg[q] /\ role'[q] = role[q]
                                 /\ session'[q] = session[q] /\ target'[q] = target[q],
           Knows(p)', Acquired(pc[p]) \subseteq Acquired(pc'[p]),
           \A l \in ls : Kind(l) \in Acquired(pc'[p])
    PROVE  IInv'
<1>1. \A q \in Proc \ {p} : SameLocals(q)
  BY TakeFrame DEF SameLocals
<1>2. Exclusive'
  BY TakeExclusive DEF IInv
<1>3. \A l \in Lock : Holds(p, l)' => Kind(l) \in Acquired(pc'[p])
  BY TakeLocks DEF IInv, Within
<1> QED
  BY <1>1, <1>2, <1>3, StepKeeps, QuietProtected, QuietGlobal DEF IInv

LEMMA WaitKeeps ==
    ASSUME IInv, NEW p \in Proc, NEW from, NEW to \in Step, Wait(p, from, to),
           Knows(p)', Acquired(from) \subseteq Acquired(to),
           \A l \in Needs(p) : Kind(l) \in Acquired(to)
    PROVE  IInv'
<1>1. TypeOK'
  BY WaitType DEF IInv
<1>2. /\ Take(p, Needs(p))
      /\ UNCHANGED <<people, papers>>
      /\ pc[p] = from /\ pc'[p] = to
      /\ \A q \in Proc \ {p} : /\ pc'[q] = pc[q] /\ arg'[q] = arg[q] /\ role'[q] = role[q]
                               /\ session'[q] = session[q] /\ target'[q] = target[q]
  BY DEF IInv, TypeOK, Wait, Goto, local
<1> QED
  BY <1>1, <1>2, MoveKeeps

\* A request that begins holds nothing.
LEMMA StartKeeps ==
    ASSUME IInv, TypeOK', NEW p \in Proc, NEW to, Start(p, to), Knows(p)',
           \A q \in Proc \ {p} : /\ arg'[q] = arg[q] /\ role'[q] = role[q]
                                 /\ session'[q] = session[q] /\ target'[q] = target[q]
    PROVE  IInv'
<1>1. /\ pc[p] = "idle" /\ pc'[p] = to
      /\ \A q \in Proc \ {p} : pc'[q] = pc[q]
      /\ UNCHANGED <<people, papers, locks>>
  BY DEF IInv, TypeOK, Start, Goto
<1>2. Take(p, {})
  BY <1>1 DEF Take
<1>3. Acquired(pc[p]) = {}
  BY <1>1 DEF Acquired
<1> QED
  BY <1>1, <1>2, <1>3, MoveKeeps

LEMMA ReplyKeeps ==
    ASSUME IInv, TypeOK', UNCHANGED <<people, papers, locks, pc, local>>
    PROVE  IInv'
<1>1. UNCHANGED <<account, resets, elsewhere, member, invitations, requests, admin, locks, pc,
                  arg, role, session, target>>
  BY DEF people, papers, local
<1>2. Exclusive' /\ Within'
  BY <1>1 DEF IInv, Exclusive, Within, Holds
<1>3. \A q \in Proc : SameLocals(q)
  BY <1>1 DEF SameLocals
<1>4. \A q \in Proc : Knows(q)'
  BY <1>3, KnowsStable, QuietProtected DEF IInv
<1> QED
  BY <1>2, <1>4, QuietGlobal DEF IInv

-----------------------------------------------------------------------------
(***************************************************************************)
(* Inviting.                                                               *)
(***************************************************************************)

LEMMA InviteKeeps == ASSUME IInv, NEW p \in Proc, NEW r \in Role, Invite(p, r) PROVE IInv'
<1> USE DEF IInv
<1>1. TypeOK'
  BY InvitingType DEF Inviting
<1>2. CASE Reply("invite", "creatorGrant")
  BY <1>1, <1>2, ReplyKeeps DEF Reply
<1>3. CASE /\ r # "Creator"
           /\ Start(p, IF account = "none" THEN "inviting" ELSE "validateUser")
           /\ role' = [role EXCEPT ![p] = r]
           /\ UNCHANGED <<arg, session, target>>
  <2>1. /\ pc'[p] = (IF account = "none" THEN "inviting" ELSE "validateUser")
        /\ role'[p] = r /\ account' = account
    BY <1>3 DEF Start, Goto, TypeOK, people
  <2>2. KnowsInviting(p)'
    BY <1>3, <2>1 DEF KnowsInviting, InviteStep, ValidateStep
  <2>3. Knows(p)'
    BY <2>1, <2>2, KnowsNothing DEF Knows, AcceptStep, RegisterStep, DecideStep
  <2>4. \A q \in Proc \ {p} : /\ arg'[q] = arg[q] /\ role'[q] = role[q]
                              /\ session'[q] = session[q] /\ target'[q] = target[q]
    BY <1>3 DEF TypeOK
  <2> QED
    BY <1>1, <1>3, <2>3, <2>4, StartKeeps
<1> QED
  BY <1>2, <1>3 DEF Invite

\* What a wait leaves: the rows, the handler's variables, and the locks held before.
LEMMA WaitFacts ==
    ASSUME TypeOK, NEW p \in Proc, NEW from, NEW to, Wait(p, from, to)
    PROVE  /\ pc[p] = from /\ pc'[p] = to
           /\ UNCHANGED <<account, resets, elsewhere, member, invitations, requests, admin,
                          arg, role, session, target>>
           /\ \A l : Holds(p, l) => Holds(p, l)'
           /\ \A l \in Needs(p) : Holds(p, l)'
BY TakeLocks DEF TypeOK, Wait, Goto, people, papers, local

\* A step of the validation that leaves an account share-locked.
LEMMA ValidateWaitKeeps ==
    ASSUME IInv, NEW p \in Proc, NEW from \in ValidateStep, NEW to \in ValidateStep,
           Wait(p, from, to), Holds(p, Share("user", 0))',
           Acquired(from) \subseteq Acquired(to),
           \A l \in Needs(p) : Kind(l) \in Acquired(to)
    PROVE  IInv'
<1>1. /\ to \in Step /\ pc[p] = from /\ pc'[p] = to
      /\ role'[p] = role[p] /\ account' = account
  BY WaitFacts DEF IInv, Step, InviteStep
<1>2. role[p] # "Creator" /\ account # "none"
  BY <1>1 DEF IInv, Knows, KnowsInviting, InviteStep
<1>3. KnowsInviting(p)'
  BY <1>1, <1>2 DEF KnowsInviting, ValidateStep, Holds, Share
<1>4. Knows(p)'
  BY <1>1, <1>3, KnowsNothing DEF Knows, ValidateStep, AcceptStep, RegisterStep, DecideStep
<1> QED
  BY <1>1, <1>4, WaitKeeps

LEMMA ValidateUserKeeps == ASSUME IInv, NEW p \in Proc, ValidateUser(p) PROVE IInv'
<1>1. CASE \E error : Finish(p, "validateUser", error)
  BY <1>1, FinishKeeps
<1>2. CASE Wait(p, "validateUser", "validateTeacher")
  <2>1. pc[p] = "validateUser" /\ Needs(p) = {Share("user", 0)}
    BY <1>2, WaitFacts, NeedsAtEnd DEF IInv
  <2>2. Holds(p, Share("user", 0))'
    BY <1>2, <2>1, WaitFacts DEF IInv
  <2>3. /\ Acquired("validateUser") \subseteq Acquired("validateTeacher")
        /\ \A l \in Needs(p) : Kind(l) \in Acquired("validateTeacher")
    BY <2>1 DEF Acquired, Kind, Share
  <2> QED
    BY <1>2, <2>2, <2>3, ValidateWaitKeeps DEF ValidateStep
<1> QED
  BY <1>1, <1>2 DEF ValidateUser, Check

LEMMA ValidateTeacherKeeps == ASSUME IInv, NEW p \in Proc, ValidateTeacher(p) PROVE IInv'
<1> USE DEF IInv
<1>1. CASE Finish(p, "validateTeacher", "existingTeacher")
  BY <1>1, FinishKeeps
<1>2. ASSUME NEW l \in Needs(p), Take(p, {l}),
             Goto(p, "validateTeacher",
                  IF l.row.table = "member" THEN "validateTenant" ELSE "validateMember"),
             UNCHANGED <<people, papers, local, redemptions>>
      PROVE  IInv'
  <2>1. TypeOK'
    BY <1>2, InvitingType DEF ValidateTeacher, Validating, Inviting
  <2>2. /\ pc[p] = "validateTeacher"
        /\ pc'[p] = (IF l.row.table = "member" THEN "validateTenant" ELSE "validateMember")
        /\ \A q \in Proc \ {p} : pc'[q] = pc[q]
        /\ UNCHANGED <<account, arg, role, session, target>>
        /\ UNCHANGED <<people, papers>>
    BY <1>2 DEF Goto, TypeOK, people, local
  <2>3. l \in {Share("elsewhere", 0), Share("member", 0)}
    BY <2>2, NeedsAt
  <2>4. /\ l.row.table = "elsewhere" => pc'[p] = "validateMember"
        /\ l.row.table = "member" => pc'[p] = "validateTenant"
        /\ l.row.table \in {"elsewhere", "member"}
    BY <2>2, <2>3 DEF Share
  <2>5. role[p] # "Creator" /\ account # "none" /\ Holds(p, Share("user", 0))
    BY <2>2 DEF Knows, KnowsInviting, InviteStep, ValidateStep
  <2>6. Holds(p, Share("user", 0))'
    BY <1>2, <2>5, TakeLocks
  <2>7. KnowsInviting(p)'
    BY <2>2, <2>4, <2>5, <2>6 DEF KnowsInviting, ValidateStep, Holds, Share
  <2>8. Knows(p)'
    BY <2>4, <2>7, KnowsNothing DEF Knows, AcceptStep, RegisterStep, DecideStep
  <2>9. /\ Acquired(pc[p]) \subseteq Acquired(pc'[p])
        /\ \A k \in {l} : Kind(k) \in Acquired(pc'[p])
    BY <2>2, <2>4 DEF Acquired, Kind
  <2> QED
    BY <1>2, <2>1, <2>2, <2>8, <2>9, MoveKeeps
<1> QED
  BY <1>1, <1>2 DEF ValidateTeacher

LEMMA ValidateTenantKeeps == ASSUME IInv, NEW p \in Proc, ValidateTenant(p) PROVE IInv'
<1>1. Wait(p, "validateTenant", "validateMember")
  BY DEF ValidateTenant
<1>2. pc[p] = "validateTenant" /\ Needs(p) = {Share("tenant", 0)}
  BY <1>1, WaitFacts, NeedsAtEnd DEF IInv
<1>3. Holds(p, Share("user", 0))
  BY <1>2 DEF IInv, Knows, KnowsInviting, ValidateStep
<1>4. Holds(p, Share("user", 0))'
  BY <1>1, <1>3, WaitFacts DEF IInv
<1>5. /\ Acquired("validateTenant") \subseteq Acquired("validateMember")
      /\ \A l \in Needs(p) : Kind(l) \in Acquired("validateMember")
  BY <1>2 DEF Acquired, Kind, Share
<1> QED
  BY <1>1, <1>4, <1>5, ValidateWaitKeeps DEF ValidateStep

\* The transaction that validates ends, and its locks with it.
LEMMA ValidateMemberKeeps == ASSUME IInv, NEW p \in Proc, ValidateMember(p) PROVE IInv'
<1> USE DEF IInv
<1>1. CASE \E error : Finish(p, "validateMember", error)
  BY <1>1, FinishKeeps
<1>2. CASE /\ Goto(p, "validateMember", "inviting")
           /\ locks' = {h \in locks : h.proc # p}
           /\ UNCHANGED <<people, papers, local, redemptions>>
  <2>1. TypeOK' /\ Exclusive'
    <3>1. "inviting" \in Step
      BY DEF Step, InviteStep
    <3> QED
      BY <1>2, <3>1, GotoType, ReleaseExclusive DEF TypeOK, people, papers, local
  <2>2. /\ pc[p] = "validateMember" /\ pc'[p] = "inviting"
        /\ \A q \in Proc \ {p} : SameLocals(q)
        /\ UNCHANGED <<people, papers, role>>
    BY <1>2 DEF Goto, TypeOK, local, SameLocals
  <2>3. role[p] # "Creator"
    BY <2>2 DEF Knows, KnowsInviting, InviteStep, ValidateStep
  <2>4. Knows(p)'
    BY <2>2, <2>3, KnowsNothing
    DEF Knows, KnowsInviting, ValidateStep, AcceptStep, RegisterStep, DecideStep
  <2>5. \A l \in Lock : ~Holds(p, l)'
    BY <1>2 DEF Holds
  <2> QED
    BY <2>1, <2>2, <2>4, <2>5, StepKeeps, QuietProtected, QuietGlobal
<1> QED
  BY <1>1, <1>2 DEF ValidateMember, Check

LEMMA LockTenantKeeps == ASSUME IInv, NEW p \in Proc, LockTenant(p) PROVE IInv'
<1> USE DEF IInv
<1>1. TypeOK'
  BY InvitingType DEF Inviting
<1>2. /\ pc[p] = "inviting" /\ pc'[p] = "retiring"
      /\ Take(p, Needs(p)) /\ Needs(p) = {Update("tenant", 0)}
      /\ UNCHANGED <<people, papers, role, invitations>>
      /\ arg'[p] = Len(invitations)
  BY NeedsAt DEF LockTenant, Goto, TypeOK, papers
<1>3. Holds(p, Update("tenant", 0))'
  BY <1>2, TakeLocks
<1>4. KnowsInviting(p)'
  <2>1. role[p] # "Creator" /\ Len(invitations) \in Nat
    BY <1>2 DEF Knows, KnowsInviting, InviteStep, TypeOK
  <2> QED
    BY <1>2, <1>3, <2>1 DEF KnowsInviting, ValidateStep, Holds, Update
<1>5. Knows(p)'
  BY <1>2, <1>4, KnowsNothing DEF Knows, InviteStep, ValidateStep, AcceptStep, RegisterStep, DecideStep
<1>6. \A q \in Proc \ {p} : /\ pc'[q] = pc[q] /\ arg'[q] = arg[q] /\ role'[q] = role[q]
                            /\ session'[q] = session[q] /\ target'[q] = target[q]
  BY DEF LockTenant, Goto, TypeOK
<1>7. /\ Acquired(pc[p]) \subseteq Acquired(pc'[p])
      /\ \A l \in Needs(p) : Kind(l) \in Acquired(pc'[p])
  BY <1>2 DEF Acquired, Kind, Update
<1> QED
  BY <1>1, <1>2, <1>5, <1>6, <1>7, MoveKeeps

LEMMA LockInvitationKeeps == ASSUME IInv, NEW p \in Proc, LockInvitation(p) PROVE IInv'
<1> USE DEF IInv
<1>1. TypeOK'
  BY InvitingType DEF Inviting
<1>2. PICK l \in Needs(p) : Take(p, {l})
  BY DEF LockInvitation
<1>3. /\ pc[p] = "retiring" /\ pc'[p] = "retiring"
      /\ UNCHANGED <<people, papers, pc, local>>
      /\ UNCHANGED <<invitations, arg, role, session, target>>
  BY DEF LockInvitation, papers, local
<1>4. \E i \in Live : l = Update("invitation", i)
  BY <1>2, <1>3, NeedsAt
<1>5. KnowsInviting(p)'
  <2>1. /\ role[p] # "Creator"
        /\ Holds(p, Update("tenant", 0))
        /\ arg[p] <= Len(invitations)
        /\ \A i \in 1..Len(invitations) : i > arg[p] => invitations[i].role = "Creator"
    BY <1>3 DEF Knows, KnowsInviting, InviteStep
  <2>2. Holds(p, Update("tenant", 0))'
    BY <1>2, <2>1, TakeLocks
  <2> QED
    BY <1>3, <2>1, <2>2 DEF KnowsInviting, ValidateStep, Holds, Update
<1>6. Knows(p)'
  BY <1>3, <1>5, KnowsNothing DEF Knows, InviteStep, ValidateStep, AcceptStep, RegisterStep, DecideStep
<1>7. /\ Acquired(pc[p]) \subseteq Acquired(pc'[p])
      /\ \A k \in {l} : Kind(k) \in Acquired(pc'[p])
  BY <1>3, <1>4 DEF Acquired, Kind, Update
<1> QED
  BY <1>1, <1>2, <1>3, <1>6, <1>7, MoveKeeps

\* What is live after a replacement: the new invitation and Creators'.
LEMMA ReplaceActiveKeeps == ASSUME IInv, NEW p \in Proc, ReplaceActive(p) PROVE IInv'
<1> USE DEF IInv
<1>1. TypeOK'
  BY InvitingType DEF Inviting
<1> DEFINE n == Len(invitations)
<1>2. /\ Return(p, "retiring", "success") /\ pc[p] = "retiring"
      /\ Needs(p) = {}
      /\ UNCHANGED <<account, resets, elsewhere, member, requests, admin>>
  BY DEF ReplaceActive, Return, people
<1>3. /\ role[p] # "Creator"
      /\ Holds(p, Update("tenant", 0))
      /\ arg[p] <= n
      /\ \A i \in 1..n : i > arg[p] => invitations[i].role = "Creator"
  BY <1>2 DEF Knows, KnowsInviting, InviteStep
<1>4. n \in Nat /\ arg[p] \in Nat
  BY DEF TypeOK
<1>5. /\ Len(invitations') = n + 1
      /\ \A i \in 1..n :
            invitations'[i] = IF i <= arg[p] THEN Retired(i) ELSE invitations[i]
      /\ invitations'[n + 1] = NewInvitation(role[p])
  BY ReplacedType
<1>6. \A i \in 1..n : /\ Retired(i).used = TRUE
                      /\ Retired(i).role = invitations[i].role
                      /\ invitations'[i].role = invitations[i].role
  BY <1>5, RowTypes DEF Retired, Invitation
<1>7. ASSUME NEW i \in Live, i <= arg[p]
      PROVE  Holds(p, Update("invitation", i))
  <2>1. i \in Live \cap 1..arg[p]
    BY <1>4, <1>7 DEF Live
  <2> QED
    BY <1>2, <2>1, NeedsAt
<1>8. ASSUME NEW q \in Proc \ {p} PROVE Protected(q)
  <2>1. ~Holds(q, Update("tenant", 0))
    BY <1>3, HeldTwice, UpdateExcludes, LockNames
  <2>2. ASSUME NEW i \in 1..n, Holds(q, Update("invitation", i))
        PROVE  invitations'[i].used = invitations[i].used
    <3>1. CASE i > arg[p]
      BY <1>4, <1>5, <3>1
    <3>2. CASE i <= arg[p] /\ invitations[i].used
      <4>1. invitations[i].used \in BOOLEAN
        BY RowTypes
      <4> QED
        BY <1>5, <1>6, <3>2, <4>1
    <3>3. CASE i <= arg[p] /\ ~invitations[i].used
      <4>1. Holds(p, Update("invitation", i))
        BY <1>7, <3>3 DEF Live
      <4> QED
        BY <2>2, <4>1, HeldTwice, UpdateExcludes, LockNames
    <3> QED
      BY <1>4, <3>1, <3>2, <3>3
  <2> QED
    BY <1>2, <2>1, <2>2 DEF Protected
<1>9. Grows
  BY <1>2, <1>4, <1>5, <1>6 DEF Grows, TypeOK
<1>10. AtMostOne'
  <2> SUFFICES ASSUME NEW i \in 1..(n + 1), ~invitations'[i].used,
                      invitations'[i].role # "Creator"
               PROVE  i = n + 1
    BY <1>5 DEF AtMostOne, Live
  <2>1. CASE i \in 1..n
    BY <1>3, <1>4, <1>5, <1>6, <2>1
  <2> QED
    BY <1>4, <2>1
<1>11. Joined' /\ CreatorOnlyByApproval'
  BY <1>2 DEF Joined, CreatorOnlyByApproval
<1> QED
  BY <1>1, <1>2, <1>8, <1>9, <1>10, <1>11, ReturnKeeps

LEMMA InvitingKeeps == ASSUME IInv, NEW p \in Proc, Inviting(p) PROVE IInv'
BY InviteKeeps, ValidateUserKeeps, ValidateTeacherKeeps, ValidateTenantKeeps,
   ValidateMemberKeeps, LockTenantKeeps, LockInvitationKeeps, ReplaceActiveKeeps
DEF Inviting, Validating

-----------------------------------------------------------------------------
(***************************************************************************)
(* Accepting.                                                              *)
(***************************************************************************)

\* A wait of an acceptance.
LEMMA AcceptWaitKeeps ==
    ASSUME IInv, NEW p \in Proc, NEW from, NEW to \in AcceptStep, Wait(p, from, to),
           KnowsAccepting(p)', Acquired(from) \subseteq Acquired(to),
           \A l \in Needs(p) : Kind(l) \in Acquired(to)
    PROVE  IInv'
<1>1. to \in Step /\ pc'[p] = to
  BY DEF IInv, TypeOK, Wait, Goto, Step
<1>2. Knows(p)'
  BY <1>1, KnowsNothing DEF Knows, InviteStep, ValidateStep, AcceptStep, RegisterStep, DecideStep
<1> QED
  BY <1>1, <1>2, WaitKeeps

LEMMA AcceptExistingKeeps ==
    ASSUME IInv, NEW p \in Proc, NEW i \in 1..Len(invitations), NEW s \in 0..resets,
           AcceptExisting(p, i, s)
    PROVE  IInv'
<1> USE DEF IInv
<1>1. ~Accept(p)
  BY DEF AcceptExisting, Start, Goto, Accept, Return
<1>2. TypeOK'
  BY <1>1, AcceptingType DEF Accepting
<1>3. pc'[p] = "acceptFirst" /\ arg'[p] = i /\ invitations' = invitations
  BY DEF AcceptExisting, Start, Goto, papers, TypeOK
<1>4. KnowsAccepting(p)'
  BY <1>3 DEF KnowsAccepting
<1>5. Knows(p)'
  BY <1>3, <1>4, KnowsNothing DEF Knows, InviteStep, ValidateStep, AcceptStep, RegisterStep, DecideStep
<1>6. \A q \in Proc \ {p} : /\ arg'[q] = arg[q] /\ role'[q] = role[q]
                            /\ session'[q] = session[q] /\ target'[q] = target[q]
  BY DEF AcceptExisting, TypeOK
<1> QED
  BY <1>2, <1>5, <1>6, StartKeeps DEF AcceptExisting

LEMMA AcceptFirstKeeps == ASSUME IInv, NEW p \in Proc, AcceptFirst(p) PROVE IInv'
<1> USE DEF IInv
<1>1. Wait(p, "acceptFirst", "acceptSecond")
  BY DEF AcceptFirst
<1>2. pc[p] = "acceptFirst" /\ Needs(p) = {Share("tenant", 0)}
  BY <1>1, WaitFacts, NeedsAt
<1>3. KnowsAccepting(p)'
  <2>1. arg[p] \in 1..Len(invitations)
    BY <1>2 DEF Knows, KnowsAccepting, AcceptStep
  <2>2. Holds(p, Share("tenant", 0))'
    BY <1>1, <1>2, WaitFacts
  <2> QED
    BY <1>1, <2>1, <2>2, WaitFacts DEF KnowsAccepting, Holds, Share
<1>4. /\ Acquired("acceptFirst") \subseteq Acquired("acceptSecond")
      /\ \A l \in Needs(p) : Kind(l) \in Acquired("acceptSecond")
  BY <1>2 DEF Acquired, Kind, Share
<1> QED
  BY <1>1, <1>3, <1>4, AcceptWaitKeeps DEF AcceptStep

LEMMA AcceptSecondKeeps == ASSUME IInv, NEW p \in Proc, AcceptSecond(p) PROVE IInv'
<1> USE DEF IInv
<1>1. Wait(p, "acceptSecond", "acceptUser")
  BY DEF AcceptSecond
<1>2. pc[p] = "acceptSecond" /\ Needs(p) = {Update("invitation", arg[p])}
  BY <1>1, WaitFacts, NeedsAt
<1>3. KnowsAccepting(p)'
  <2>1. arg[p] \in 1..Len(invitations) /\ Holds(p, Share("tenant", 0))
    BY <1>2 DEF Knows, KnowsAccepting, AcceptStep
  <2>2. Holds(p, Share("tenant", 0))' /\ arg' = arg /\ Holds(p, Update("invitation", arg[p]))'
    BY <1>1, <1>2, <2>1, WaitFacts DEF Holds, Update
  <2> QED
    BY <1>1, <2>1, <2>2, WaitFacts DEF KnowsAccepting, Holds, Share, Update
<1>4. /\ Acquired("acceptSecond") \subseteq Acquired("acceptUser")
      /\ \A l \in Needs(p) : Kind(l) \in Acquired("acceptUser")
  BY <1>2 DEF Acquired, Kind, Update
<1> QED
  BY <1>1, <1>3, <1>4, AcceptWaitKeeps DEF AcceptStep

LEMMA AcceptUserKeeps == ASSUME IInv, NEW p \in Proc, AcceptUser(p) PROVE IInv'
<1> USE DEF IInv
<1>1. CASE \E error : Finish(p, "acceptUser", error)
  BY <1>1, FinishKeeps
<1>2. CASE /\ account # "none" /\ AcceptUserError(p) = "success"
           /\ Wait(p, "acceptUser", "acceptTeacher")
  <2>1. pc[p] = "acceptUser" /\ Needs(p) = {Update("user", 0)}
    BY <1>2, WaitFacts, NeedsAt
  <2>2. session[p] = resets /\ invitations[arg[p]].role = "Teacher"
    BY <1>2 DEF AcceptUserError, ValidSession
  <2>3. /\ arg[p] \in 1..Len(invitations) /\ Holds(p, Share("tenant", 0))
        /\ Holds(p, Update("invitation", arg[p]))
    BY <2>1 DEF Knows, KnowsAccepting, AcceptStep
  <2>4. /\ Holds(p, Share("tenant", 0))' /\ Holds(p, Update("user", 0))'
        /\ Holds(p, Update("invitation", arg[p]))'
    BY <1>2, <2>1, <2>3, WaitFacts DEF Holds, Update
  <2>5. KnowsAccepting(p)'
    BY <1>2, <2>2, <2>3, <2>4, WaitFacts DEF KnowsAccepting, Holds, Share, Update
  <2>6. /\ Acquired("acceptUser") \subseteq Acquired("acceptTeacher")
        /\ \A l \in Needs(p) : Kind(l) \in Acquired("acceptTeacher")
    BY <2>1 DEF Acquired, Kind, Update
  <2> QED
    BY <1>2, <2>5, <2>6, AcceptWaitKeeps DEF AcceptStep
<1> QED
  BY <1>1, <1>2 DEF AcceptUser, Check

LEMMA AcceptTeacherKeeps == ASSUME IInv, NEW p \in Proc, AcceptTeacher(p) PROVE IInv'
<1> USE DEF IInv
<1>1. CASE Finish(p, "acceptTeacher", "existingTeacher")
  BY <1>1, FinishKeeps
<1>2. ASSUME NEW l \in Needs(p), Take(p, {l}), Goto(p, "acceptTeacher", "acceptMember"),
             UNCHANGED <<people, papers, local, redemptions>>
      PROVE  IInv'
  <2>1. ~Accept(p)
    BY <1>2 DEF Goto, Accept, Return
  <2>2. TypeOK'
    BY <1>2, <2>1, AcceptingType DEF Accepting, AcceptTeacher
  <2>3. /\ pc[p] = "acceptTeacher" /\ pc'[p] = "acceptMember"
        /\ \A q \in Proc \ {p} : pc'[q] = pc[q]
        /\ UNCHANGED <<account, resets, elsewhere, member, invitations, requests, admin,
                       arg, role, session, target>>
    BY <1>2 DEF Goto, TypeOK, people, papers, local
  <2>4. l \in {k \in {Share("elsewhere", 0), Share("member", 0)} :
                 IF k.row.table = "elsewhere" THEN elsewhere ELSE Teaches}
    BY <1>2, <2>3, NeedsAt
  <2>5. TeachesUnderLock(p)'
    <3>1. Holds(p, l)'
      BY <1>2, TakeLocks
    <3>2. Share("elsewhere", 0).row.table = "elsewhere"
          /\ Share("member", 0).row.table = "member"
      BY DEF Share
    <3>3. CASE l = Share("elsewhere", 0) /\ elsewhere
      BY <2>3, <3>1, <3>3 DEF TeachesUnderLock, Holds, Share
    <3>4. CASE l = Share("member", 0) /\ Teaches
      BY <2>3, <3>1, <3>4 DEF TeachesUnderLock, Teaches, Holds, Share
    <3> QED
      BY <2>4, <3>2, <3>3, <3>4
  <2>6. KnowsAccepting(p)'
    <3>1. /\ arg[p] \in 1..Len(invitations)
          /\ Holds(p, Share("tenant", 0))
          /\ Holds(p, Update("invitation", arg[p]))
          /\ Holds(p, Update("user", 0))
          /\ account # "none"
          /\ session[p] = resets
          /\ invitations[arg[p]].role = "Teacher"
      BY <2>3 DEF Knows, KnowsAccepting, AcceptStep
    <3>2. /\ Holds(p, Share("tenant", 0))'
          /\ Holds(p, Update("invitation", arg[p]))'
          /\ Holds(p, Update("user", 0))'
      BY <1>2, <2>3, <3>1, TakeLocks DEF Holds, Update
    <3> QED
      BY <2>3, <2>5, <3>1, <3>2 DEF KnowsAccepting, Holds, Share, Update
  <2>7. Knows(p)'
    BY <2>3, <2>6, KnowsNothing DEF Knows, InviteStep, ValidateStep, AcceptStep, RegisterStep, DecideStep
  <2>8. /\ Acquired(pc[p]) \subseteq Acquired(pc'[p])
        /\ \A k \in {l} : Kind(k) \in Acquired(pc'[p])
    BY <2>3, <2>4 DEF Acquired, Kind, Share
  <2> QED
    BY <1>2, <2>2, <2>3, <2>7, <2>8, MoveKeeps
<1> QED
  BY <1>1, <1>2 DEF AcceptTeacher

LEMMA AcceptMemberKeeps == ASSUME IInv, NEW p \in Proc, AcceptMember(p) PROVE IInv'
<1> USE DEF IInv
<1>1. CASE \E error : Finish(p, "acceptMember", error)
  BY <1>1, FinishKeeps
<1>2. CASE member.state # "gone" /\ Wait(p, "acceptMember", "accepting")
  <2>1. /\ pc[p] = "acceptMember"
        /\ Needs(p) = (IF member.state = "absent" THEN {} ELSE {Update("member", 0)})
    BY <1>2, WaitFacts, NeedsAt
  <2>2. /\ arg[p] \in 1..Len(invitations)
        /\ Holds(p, Share("tenant", 0))
        /\ Holds(p, Update("invitation", arg[p]))
        /\ Holds(p, Update("user", 0))
        /\ account # "none"
        /\ session[p] = resets
        /\ invitations[arg[p]].role = "Teacher"
        /\ TeachesUnderLock(p)
    BY <2>1 DEF Knows, KnowsAccepting, AcceptStep
  <2>3. /\ Holds(p, Share("tenant", 0))'
        /\ Holds(p, Update("invitation", arg[p]))'
        /\ Holds(p, Update("user", 0))'
    BY <1>2, <2>2, WaitFacts DEF Holds, Update
  <2>4. member.state = "active" => Holds(p, Update("member", 0))'
    BY <1>2, <2>1, WaitFacts DEF Holds, Update
  <2>5. TeachesUnderLock(p)'
    BY <1>2, <2>2, WaitFacts DEF TeachesUnderLock, Teaches, Holds, Share
  <2>6. KnowsAccepting(p)'
    BY <1>2, <2>2, <2>3, <2>4, <2>5, WaitFacts DEF KnowsAccepting, Holds, Share, Update
  <2>7. /\ Acquired("acceptMember") \subseteq Acquired("accepting")
        /\ \A l \in Needs(p) : Kind(l) \in Acquired("accepting")
    BY <2>1 DEF Acquired, Kind, Update
  <2> QED
    BY <1>2, <2>6, <2>7, AcceptWaitKeeps DEF AcceptStep
<1> QED
  BY <1>1, <1>2 DEF AcceptMember, Check

\* An invitation is used up, or expires, and keeps its role.
LEMMA InvitationWritten ==
    ASSUME IInv, NEW i \in 1..Len(invitations), NEW e \in Invitation,
           invitations' = [invitations EXCEPT ![i] = e],
           e.role = invitations[i].role, invitations[i].used => e.used
    PROVE  /\ Len(invitations') = Len(invitations)
           /\ \A j \in 1..Len(invitations) : invitations'[j].role = invitations[j].role
           /\ \A j \in 1..Len(invitations) : j # i => invitations'[j] = invitations[j]
           /\ invitations'[i] = e
           /\ Live' \subseteq Live
           /\ AtMostOne'
<1>1. /\ Len(invitations') = Len(invitations)
      /\ \A j \in 1..Len(invitations) : invitations'[j] = IF j = i THEN e ELSE invitations[j]
  BY InvitationsType DEF IInv
<1>2. \A j \in 1..Len(invitations) : /\ invitations'[j].role = invitations[j].role
                                     /\ invitations[j].used => invitations'[j].used
  BY <1>1
<1>3. Live' \subseteq Live
  BY <1>1, <1>2 DEF Live
<1>4. AtMostOne'
  BY <1>1, <1>2, <1>3 DEF IInv, AtMostOne, Live
<1> QED
  BY <1>1, <1>2, <1>3, <1>4

LEMMA AcceptKeeps == ASSUME IInv, NEW p \in Proc, Accept(p) PROVE IInv'
<1> DEFINE i == arg[p]
<1>1. /\ Return(p, "accepting", "success") /\ pc[p] = "accepting"
      /\ member' = IF member.state = "absent"
                   THEN [state |-> "active", role |-> invitations[i].role] ELSE member
      /\ invitations' = [invitations EXCEPT ![i] = Acknowledged(i)]
      /\ UNCHANGED <<account, resets, elsewhere, requests, admin>>
  BY DEF Accept, Return
<1>2. /\ i \in 1..Len(invitations)
      /\ Holds(p, Update("invitation", i))
      /\ Holds(p, Update("user", 0))
      /\ account # "none"
      /\ invitations[i].role = "Teacher"
  BY <1>1 DEF IInv, Knows, KnowsAccepting, AcceptStep
<1>3. TypeOK'
  BY <1>2, AcceptingType DEF IInv, Accepting
<1>4. /\ Acknowledged(i) \in Invitation
      /\ Acknowledged(i).role = invitations[i].role /\ Acknowledged(i).used
  BY <1>2, RowTypes DEF IInv, Acknowledged, Invitation
<1>5. /\ Len(invitations') = Len(invitations)
      /\ \A j \in 1..Len(invitations) : invitations'[j].role = invitations[j].role
      /\ \A j \in 1..Len(invitations) : j # i => invitations'[j] = invitations[j]
      /\ AtMostOne'
  BY <1>1, <1>2, <1>4, InvitationWritten
<1>6. Len(invitations) \in Nat /\ Len(requests) \in Nat /\ i \in Nat
  BY DEF IInv, TypeOK
<1>7. ASSUME NEW q \in Proc \ {p} PROVE Protected(q)
  <2>1. ~Holds(q, Update("invitation", i)) /\ ~Holds(q, Update("user", 0))
    BY <1>2, <1>6, HeldTwice, UpdateExcludes, LockNames DEF IInv
  <2> QED
    BY <1>1, <1>5, <1>6, <2>1 DEF Protected
<1>8. Grows
  BY <1>1, <1>5, <1>6 DEF Grows
<1>9. Joined' /\ CreatorOnlyByApproval'
  BY <1>1, <1>2 DEF IInv, Joined, CreatorOnlyByApproval
<1> QED
  BY <1>1, <1>3, <1>5, <1>7, <1>8, <1>9, ReturnKeeps

LEMMA AcceptingKeeps == ASSUME IInv, NEW p \in Proc, Accepting(p) PROVE IInv'
<1>1. AcceptOther(p) => IInv'
  BY FinishKeeps DEF AcceptOther
<1> QED
  BY <1>1, AcceptExistingKeeps, AcceptFirstKeeps, AcceptSecondKeeps, AcceptUserKeeps,
     AcceptTeacherKeeps, AcceptMemberKeeps, AcceptKeeps DEF Accepting

-----------------------------------------------------------------------------
(***************************************************************************)
(* Registering.                                                            *)
(***************************************************************************)

LEMMA RegisterWaitKeeps ==
    ASSUME IInv, NEW p \in Proc, NEW from, NEW to \in RegisterStep, Wait(p, from, to),
           KnowsRegistering(p)', Acquired(from) \subseteq Acquired(to),
           \A l \in Needs(p) : Kind(l) \in Acquired(to)
    PROVE  IInv'
<1>1. to \in Step /\ pc'[p] = to
  BY DEF IInv, TypeOK, Wait, Goto, Step
<1>2. Knows(p)'
  BY <1>1, KnowsNothing DEF Knows, InviteStep, ValidateStep, AcceptStep, RegisterStep, DecideStep
<1> QED
  BY <1>1, <1>2, WaitKeeps

LEMMA RegisterInvitedKeeps ==
    ASSUME IInv, NEW p \in Proc, NEW i \in 1..Len(invitations), RegisterInvited(p, i)
    PROVE  IInv'
<1> USE DEF IInv
<1>1. ~Register(p)
  BY DEF RegisterInvited, Start, Goto, Register, Return
<1>2. TypeOK'
  BY <1>1, RegisteringType DEF Registering
<1>3. pc'[p] = "register" /\ arg'[p] = i /\ invitations' = invitations
  BY DEF RegisterInvited, Start, Goto, papers, TypeOK
<1>4. KnowsRegistering(p)'
  BY <1>3 DEF KnowsRegistering
<1>5. Knows(p)'
  BY <1>3, <1>4, KnowsNothing DEF Knows, InviteStep, ValidateStep, AcceptStep, RegisterStep, DecideStep
<1>6. \A q \in Proc \ {p} : /\ arg'[q] = arg[q] /\ role'[q] = role[q]
                            /\ session'[q] = session[q] /\ target'[q] = target[q]
  BY DEF RegisterInvited, TypeOK
<1> QED
  BY <1>2, <1>5, <1>6, StartKeeps DEF RegisterInvited

LEMMA RegisterCheckKeeps == ASSUME IInv, NEW p \in Proc, RegisterCheck(p) PROVE IInv'
<1> USE DEF IInv
<1>1. CASE \E error : Finish(p, "register", error)
  BY <1>1, FinishKeeps
<1>2. CASE RegisterError(arg[p]) = "success" /\ Wait(p, "register", "registerEmail")
  <2>1. pc[p] = "register" /\ Needs(p) = {Update("invitation", arg[p])}
    BY <1>2, WaitFacts, NeedsAtEnd
  <2>2. arg[p] \in 1..Len(invitations)
    BY <2>1 DEF Knows, KnowsRegistering, RegisterStep
  <2>3. ~invitations[arg[p]].used /\ Approved(arg[p])
    BY <1>2 DEF RegisterError, UnusableError, Redeemable
  <2>4. Holds(p, Update("invitation", arg[p]))'
    BY <1>2, <2>1, WaitFacts DEF Holds, Update
  <2>5. KnowsRegistering(p)'
    BY <1>2, <2>2, <2>3, <2>4, WaitFacts DEF KnowsRegistering, Holds, Update, Approved
  <2>6. /\ Acquired("register") \subseteq Acquired("registerEmail")
        /\ \A l \in Needs(p) : Kind(l) \in Acquired("registerEmail")
    BY <2>1 DEF Acquired, Kind, Update
  <2> QED
    BY <1>2, <2>5, <2>6, RegisterWaitKeeps DEF RegisterStep
<1> QED
  BY <1>1, <1>2 DEF RegisterCheck, Check

LEMMA InsertUserKeeps == ASSUME IInv, NEW p \in Proc, InsertUser(p) PROVE IInv'
<1> USE DEF IInv
<1>1. CASE \E error : Finish(p, "registerEmail", error)
  BY <1>1, FinishKeeps
<1>2. CASE account = "none" /\ Wait(p, "registerEmail", "registerTenant")
  <2>1. pc[p] = "registerEmail" /\ Needs(p) = {Update("user", 0)}
    BY <1>2, WaitFacts, NeedsAtEnd
  <2>2. /\ arg[p] \in 1..Len(invitations)
        /\ ~invitations[arg[p]].used /\ Approved(arg[p])
        /\ Holds(p, Update("invitation", arg[p]))
    BY <2>1 DEF Knows, KnowsRegistering, RegisterStep
  <2>3. Holds(p, Update("invitation", arg[p]))' /\ Holds(p, Update("user", 0))'
    BY <1>2, <2>1, <2>2, WaitFacts DEF Holds, Update
  <2>4. KnowsRegistering(p)'
    BY <1>2, <2>2, <2>3, WaitFacts DEF KnowsRegistering, Holds, Update, Approved
  <2>5. /\ Acquired("registerEmail") \subseteq Acquired("registerTenant")
        /\ \A l \in Needs(p) : Kind(l) \in Acquired("registerTenant")
    BY <2>1 DEF Acquired, Kind, Update
  <2> QED
    BY <1>2, <2>4, <2>5, RegisterWaitKeeps DEF RegisterStep
<1> QED
  BY <1>1, <1>2 DEF InsertUser, Check

LEMMA InsertMemberKeeps == ASSUME IInv, NEW p \in Proc, InsertMember(p) PROVE IInv'
<1> USE DEF IInv
<1>1. Wait(p, "registerTenant", "registering")
  BY DEF InsertMember
<1>2. pc[p] = "registerTenant" /\ Needs(p) = {KeyShare("tenant", 0)}
  BY <1>1, WaitFacts, NeedsAtEnd
<1>3. /\ arg[p] \in 1..Len(invitations)
      /\ ~invitations[arg[p]].used /\ Approved(arg[p])
      /\ Holds(p, Update("invitation", arg[p]))
      /\ Holds(p, Update("user", 0)) /\ account = "none"
  BY <1>2 DEF Knows, KnowsRegistering, RegisterStep
<1>4. Holds(p, Update("invitation", arg[p]))' /\ Holds(p, Update("user", 0))'
  BY <1>1, <1>3, WaitFacts DEF Holds, Update
<1>5. KnowsRegistering(p)'
  BY <1>1, <1>3, <1>4, WaitFacts DEF KnowsRegistering, Holds, Update, Approved
<1>6. /\ Acquired("registerTenant") \subseteq Acquired("registering")
      /\ \A l \in Needs(p) : Kind(l) \in Acquired("registering")
  BY <1>2 DEF Acquired, Kind, KeyShare
<1> QED
  BY <1>1, <1>5, <1>6, RegisterWaitKeeps DEF RegisterStep

LEMMA RegisterKeeps == ASSUME IInv, NEW p \in Proc, Register(p) PROVE IInv'
<1> DEFINE i == arg[p]
<1>1. /\ Return(p, "registering", "success") /\ pc[p] = "registering"
      /\ account' = "person"
      /\ member' = [state |-> "active", role |-> invitations[i].role]
      /\ invitations' = [invitations EXCEPT ![i] = Retired(i)]
      /\ UNCHANGED <<resets, elsewhere, requests, admin>>
  BY DEF Register, Return
<1>2. /\ i \in 1..Len(invitations)
      /\ Holds(p, Update("invitation", i))
      /\ Holds(p, Update("user", 0))
      /\ account = "none"
      /\ Approved(i)
  BY <1>1 DEF IInv, Knows, KnowsRegistering, RegisterStep
<1>3. TypeOK'
  BY <1>2, RegisteringType DEF IInv, Registering
<1>4. /\ Retired(i) \in Invitation
      /\ Retired(i).role = invitations[i].role /\ Retired(i).used
  BY <1>2, RowTypes DEF IInv, Retired, Invitation
<1>5. /\ Len(invitations') = Len(invitations)
      /\ \A j \in 1..Len(invitations) : invitations'[j].role = invitations[j].role
      /\ \A j \in 1..Len(invitations) : j # i => invitations'[j] = invitations[j]
      /\ AtMostOne'
  BY <1>1, <1>2, <1>4, InvitationWritten
<1>6. Len(invitations) \in Nat /\ Len(requests) \in Nat /\ i \in Nat
  BY DEF IInv, TypeOK
<1>7. member.state = "absent"
  BY <1>2 DEF IInv, Joined
<1>8. ASSUME NEW q \in Proc \ {p} PROVE Protected(q)
  <2>1. ~Holds(q, Update("invitation", i)) /\ ~Holds(q, Update("user", 0))
    BY <1>2, <1>6, HeldTwice, UpdateExcludes, LockNames DEF IInv
  <2> QED
    BY <1>1, <1>5, <1>6, <1>7, <2>1 DEF Protected
<1>9. Grows
  BY <1>1, <1>2, <1>5, <1>6 DEF Grows
<1>10. Joined' /\ CreatorOnlyByApproval'
  BY <1>1, <1>2 DEF Joined, CreatorOnlyByApproval, Approved
<1> QED
  BY <1>1, <1>3, <1>5, <1>8, <1>9, <1>10, ReturnKeeps

LEMMA RegisteringKeeps == ASSUME IInv, NEW p \in Proc, Registering(p) PROVE IInv'
BY RegisterInvitedKeeps, RegisterCheckKeeps, InsertUserKeeps, InsertMemberKeeps, RegisterKeeps
DEF Registering

-----------------------------------------------------------------------------
(***************************************************************************)
(* Requesting a Creator and deciding.                                      *)
(***************************************************************************)

LEMMA RequestCreatorKeeps == ASSUME IInv, NEW p \in Proc, RequestCreator(p) PROVE IInv'
<1> USE DEF IInv
<1>1. CASE Reply("request", "alreadyCreator")
  BY <1>1, ReplyType, ReplyKeeps DEF Reply
<1>2. CASE /\ Start(p, "requesting")
           /\ target' = [target EXCEPT ![p] = account # "none"]
           /\ UNCHANGED <<arg, role, session>>
  <2>1. TypeOK'
    BY <1>2, GotoType DEF Start, TypeOK, people, papers, Step
  <2>2. pc'[p] = "requesting"
    BY <1>2 DEF Start, Goto, TypeOK
  <2>3. Knows(p)'
    BY <2>2, KnowsNothing DEF Knows, InviteStep, ValidateStep, AcceptStep, RegisterStep, DecideStep
  <2>4. \A q \in Proc \ {p} : /\ arg'[q] = arg[q] /\ role'[q] = role[q]
                              /\ session'[q] = session[q] /\ target'[q] = target[q]
    BY <1>2 DEF TypeOK
  <2> QED
    BY <1>2, <2>1, <2>3, <2>4, StartKeeps
<1> QED
  BY <1>1, <1>2 DEF RequestCreator

LEMMA SubmitRequestKeeps == ASSUME IInv, NEW p \in Proc, SubmitRequest(p) PROVE IInv'
<1>1. CASE Finish(p, "requesting", "duplicate")
  BY <1>1, FinishKeeps
<1>2. CASE /\ Return(p, "requesting", "success")
           /\ requests' = Append(requests,
                [target |-> target[p], status |-> "pending", invitation |-> 0])
           /\ UNCHANGED <<people, invitations, admin, redemptions>>
  <2> DEFINE e == [target |-> target[p], status |-> "pending", invitation |-> 0]
  <2>1. pc[p] = "requesting"
    BY <1>2 DEF Return
  <2>2. ~(Approve(p) \/ Reject(p))
    BY <2>1 DEF Approve, Reject, Return, Finish
  <2>3. TypeOK'
    BY <2>2, DecidingType DEF IInv, Deciding
  <2>4. e \in Request
    BY DEF IInv, TypeOK, Request
  <2>5. /\ requests \in Seq(Request) /\ Len(requests) \in Nat /\ Len(invitations) \in Nat
        /\ UNCHANGED <<account, resets, elsewhere, member, invitations, admin>>
    BY <1>2 DEF IInv, TypeOK, people
  <2>6. /\ Len(requests') = Len(requests) + 1
        /\ \A r \in 1..Len(requests) : requests'[r] = requests[r]
    <3> HIDE DEF e
    <3> QED BY <1>2, <2>4, <2>5 DEF e
  <2>7. Grows /\ \A q \in Proc : Protected(q)
    BY <2>5, <2>6 DEF Grows, Protected
  <2>8. Joined' /\ AtMostOne'
    BY <2>5 DEF IInv, Joined, AtMostOne, Live
  <2>9. CreatorOnlyByApproval'
    BY <2>5, <2>6 DEF IInv, CreatorOnlyByApproval
  <2> QED
    BY <1>2, <2>3, <2>7, <2>8, <2>9, ReturnKeeps
<1> QED
  BY <1>1, <1>2 DEF SubmitRequest

LEMMA DecideWaitKeeps ==
    ASSUME IInv, NEW p \in Proc, NEW from, NEW to \in DecideStep, Wait(p, from, to),
           KnowsDeciding(p)', Acquired(from) \subseteq Acquired(to),
           \A l \in Needs(p) : Kind(l) \in Acquired(to)
    PROVE  IInv'
<1>1. to \in Step /\ pc'[p] = to
  BY DEF IInv, TypeOK, Wait, Goto, Step
<1>2. Knows(p)'
  BY <1>1, KnowsNothing DEF Knows, InviteStep, ValidateStep, AcceptStep, RegisterStep, DecideStep
<1> QED
  BY <1>1, <1>2, WaitKeeps

LEMMA DecideKeeps ==
    ASSUME IInv, NEW p \in Proc, NEW r \in 1..Len(requests), Decide(p, r)
    PROVE  IInv'
<1> USE DEF IInv
<1>1. ~(Approve(p) \/ Reject(p))
  BY DEF Decide, Start, Goto, Approve, Reject, Return, Finish
<1>2. TypeOK'
  BY <1>1, DecidingType DEF Deciding
<1>3. pc'[p] = "decide" /\ arg'[p] = r /\ requests' = requests
  BY DEF Decide, Start, Goto, papers, TypeOK
<1>4. KnowsDeciding(p)'
  BY <1>3 DEF KnowsDeciding, Promoting
<1>5. Knows(p)'
  BY <1>3, <1>4, KnowsNothing DEF Knows, InviteStep, ValidateStep, AcceptStep, RegisterStep, DecideStep
<1>6. \A q \in Proc \ {p} : /\ arg'[q] = arg[q] /\ role'[q] = role[q]
                            /\ session'[q] = session[q] /\ target'[q] = target[q]
  BY DEF Decide, TypeOK
<1> QED
  BY <1>2, <1>5, <1>6, StartKeeps DEF Decide

LEMMA DecideAssignmentKeeps == ASSUME IInv, NEW p \in Proc, DecideAssignment(p) PROVE IInv'
<1> USE DEF IInv
<1>1. CASE \E error : Finish(p, "decide", error)
  BY <1>1, FinishKeeps
<1>2. CASE admin /\ Wait(p, "decide", "decideRequest")
  <2>1. pc[p] = "decide" /\ Needs(p) = {Share("admin", 0)}
    BY <1>2, WaitFacts, NeedsAtEnd
  <2>2. arg[p] \in 1..Len(requests)
    BY <2>1 DEF Knows, KnowsDeciding, DecideStep
  <2>3. Holds(p, Share("admin", 0))'
    BY <1>2, <2>1, WaitFacts
  <2>4. /\ pc'[p] = "decideRequest" /\ arg'[p] = arg[p]
        /\ UNCHANGED <<requests, admin>> /\ admin
    BY <1>2, WaitFacts
  <2>5. KnowsDeciding(p)'
    BY <2>2, <2>3, <2>4 DEF KnowsDeciding, Promoting, Holds, Share, DecideStep
  <2>6. /\ Acquired("decide") \subseteq Acquired("decideRequest")
        /\ \A l \in Needs(p) : Kind(l) \in Acquired("decideRequest")
    BY <2>1 DEF Acquired, Kind, Share
  <2> QED
    BY <1>2, <2>5, <2>6, DecideWaitKeeps DEF DecideStep
<1> QED
  BY <1>1, <1>2 DEF DecideAssignment, Check

LEMMA DecideRequestKeeps == ASSUME IInv, NEW p \in Proc, DecideRequest(p) PROVE IInv'
<1> USE DEF IInv
<1>1. CASE \E error : Finish(p, "decideRequest", error)
  BY <1>1, FinishKeeps
<1>2. CASE arg[p] \in Pending /\ Wait(p, "decideRequest", "decideTenant")
  <2>1. pc[p] = "decideRequest" /\ Needs(p) = {Update("request", arg[p])}
    BY <1>2, WaitFacts, NeedsAtEnd
  <2>2. /\ arg[p] \in 1..Len(requests) /\ requests[arg[p]].status = "pending"
        /\ Holds(p, Share("admin", 0)) /\ admin
    BY <1>2, <2>1 DEF Knows, KnowsDeciding, DecideStep, Pending
  <2>3. Holds(p, Share("admin", 0))' /\ Holds(p, Update("request", arg[p]))'
    BY <1>2, <2>1, <2>2, WaitFacts DEF Holds, Update
  <2>4. /\ pc'[p] = "decideTenant" /\ arg'[p] = arg[p]
        /\ UNCHANGED <<requests, admin>>
    BY <1>2, WaitFacts
  <2>5. KnowsDeciding(p)'
    BY <2>2, <2>3, <2>4 DEF KnowsDeciding, Promoting, Holds, Share, Update, DecideStep
  <2>6. /\ Acquired("decideRequest") \subseteq Acquired("decideTenant")
        /\ \A l \in Needs(p) : Kind(l) \in Acquired("decideTenant")
    BY <2>1 DEF Acquired, Kind, Update
  <2> QED
    BY <1>2, <2>5, <2>6, DecideWaitKeeps DEF DecideStep
<1> QED
  BY <1>1, <1>2 DEF DecideRequest, Check

LEMMA DecideTenantKeeps == ASSUME IInv, NEW p \in Proc, DecideTenant(p) PROVE IInv'
<1> USE DEF IInv
<1> SUFFICES ASSUME NEW to \in {"decideUser", "rejecting"}, Wait(p, "decideTenant", to)
             PROVE  IInv'
  BY DEF DecideTenant
<1>1. pc[p] = "decideTenant" /\ Needs(p) = {Share("tenant", 0)}
  BY WaitFacts, NeedsAtEnd
<1>2. /\ arg[p] \in 1..Len(requests) /\ requests[arg[p]].status = "pending"
      /\ Holds(p, Share("admin", 0)) /\ admin
      /\ Holds(p, Update("request", arg[p]))
  BY <1>1 DEF Knows, KnowsDeciding, DecideStep
<1>3. Holds(p, Share("admin", 0))' /\ Holds(p, Update("request", arg[p]))'
  BY <1>2, WaitFacts DEF Holds, Update
<1>4. /\ pc'[p] = to /\ arg'[p] = arg[p]
      /\ UNCHANGED <<requests, admin>>
  BY WaitFacts
<1>5. KnowsDeciding(p)'
  BY <1>2, <1>3, <1>4 DEF KnowsDeciding, Promoting, Holds, Share, Update, DecideStep
<1>6. /\ Acquired("decideTenant") \subseteq Acquired(to)
      /\ \A l \in Needs(p) : Kind(l) \in Acquired(to)
  <2>1. /\ Acquired("decideTenant") = {"admin", "request"}
        /\ Acquired("decideUser") = {"admin", "request", "tenant"}
        /\ Acquired("rejecting") = {"admin", "request", "tenant"}
    BY DEF Acquired
  <2>2. Acquired(to) = {"admin", "request", "tenant"}
    BY <2>1
  <2> QED
    BY <1>1, <2>1, <2>2 DEF Share, Kind
<1> QED
  BY <1>5, <1>6, DecideWaitKeeps DEF DecideStep

LEMMA DecideUserKeeps == ASSUME IInv, NEW p \in Proc, DecideUser(p) PROVE IInv'
<1> USE DEF IInv
<1>1. CASE Finish(p, "decideUser", "stale")
  BY <1>1, FinishKeeps
<1>2. CASE /\ Goto(p, "decideUser", IF account # "none" THEN "decideMember" ELSE "approving")
           /\ Take(p, Needs(p))
           /\ target' = [target EXCEPT ![p] = account # "none"]
           /\ UNCHANGED <<people, papers, arg, role, session, redemptions>>
  <2>1. /\ pc[p] = "decideUser"
        /\ pc'[p] = (IF account # "none" THEN "decideMember" ELSE "approving")
        /\ target'[p] = (account # "none")
        /\ \A q \in Proc \ {p} : pc'[q] = pc[q] /\ target'[q] = target[q]
        /\ UNCHANGED <<account, resets, elsewhere, member, invitations, requests, admin,
                       arg, role, session>>
    BY <1>2 DEF Goto, TypeOK, people, papers
  <2>2. ~(Approve(p) \/ Reject(p))
    BY <2>1 DEF Approve, Reject, Return, Finish
  <2>3. TypeOK'
    BY <2>2, DecidingType DEF Deciding
  <2>4. Needs(p) = (IF account = "none" THEN {} ELSE {Update("user", 0)})
    BY <2>1, NeedsAt
  <2>5. /\ arg[p] \in 1..Len(requests) /\ requests[arg[p]].status = "pending"
        /\ Holds(p, Share("admin", 0)) /\ admin
        /\ Holds(p, Update("request", arg[p]))
    BY <2>1 DEF Knows, KnowsDeciding, DecideStep
  <2>6. /\ Holds(p, Share("admin", 0))' /\ Holds(p, Update("request", arg[p]))'
        /\ account # "none" => Holds(p, Update("user", 0))'
    BY <1>2, <2>1, <2>4, <2>5, TakeLocks DEF Holds, Update
  <2>7. KnowsDeciding(p)'
    BY <2>1, <2>5, <2>6 DEF KnowsDeciding, Promoting, Holds, Share, Update
  <2>8. Knows(p)'
    BY <2>1, <2>7, KnowsNothing DEF Knows, InviteStep, ValidateStep, AcceptStep, RegisterStep, DecideStep
  <2>9. /\ Acquired(pc[p]) \subseteq Acquired(pc'[p])
        /\ \A l \in Needs(p) : Kind(l) \in Acquired(pc'[p])
    BY <2>1, <2>4 DEF Acquired, Kind, Update
  <2> QED
    BY <1>2, <2>1, <2>3, <2>8, <2>9, MoveKeeps
<1> QED
  BY <1>1, <1>2 DEF DecideUser

LEMMA DecideMemberKeeps == ASSUME IInv, NEW p \in Proc, DecideMember(p) PROVE IInv'
<1> USE DEF IInv
<1>1. CASE \E error : Finish(p, "decideMember", error)
  BY <1>1, FinishKeeps
<1>2. CASE Promotable /\ Wait(p, "decideMember", "approving")
  <2>1. /\ pc[p] = "decideMember"
        /\ Needs(p) = (IF member.state = "absent" THEN {} ELSE {Update("member", 0)})
    BY <1>2, WaitFacts, NeedsAt
  <2>2. /\ arg[p] \in 1..Len(requests) /\ requests[arg[p]].status = "pending"
        /\ Holds(p, Share("admin", 0)) /\ admin
        /\ Holds(p, Update("request", arg[p]))
        /\ Holds(p, Update("user", 0)) /\ account # "none"
        /\ target[p]
    BY <2>1 DEF Knows, KnowsDeciding, Promoting, DecideStep
  <2>3. /\ Holds(p, Share("admin", 0))' /\ Holds(p, Update("request", arg[p]))'
        /\ Holds(p, Update("user", 0))'
        /\ member.state # "absent" => Holds(p, Update("member", 0))'
    BY <1>2, <2>1, <2>2, WaitFacts DEF Holds, Update
  <2>4. /\ pc'[p] = "approving" /\ arg'[p] = arg[p]
        /\ UNCHANGED <<requests, admin, account, member>>
    BY <1>2, WaitFacts
  <2>5. Promotable'
    BY <1>2, <2>4 DEF Promotable
  <2>6. KnowsDeciding(p)'
    BY <2>2, <2>3, <2>5, <2>4 DEF KnowsDeciding, Promoting, Holds, Share, Update, DecideStep
  <2>7. /\ Acquired("decideMember") \subseteq Acquired("approving")
        /\ \A l \in Needs(p) : Kind(l) \in Acquired("approving")
    BY <2>1 DEF Acquired, Kind, Update
  <2> QED
    BY <1>2, <2>6, <2>7, DecideWaitKeeps DEF DecideStep
<1> QED
  BY <1>1, <1>2 DEF DecideMember, Check

\* What an approval leaves of the invitations: those there were, and a Creator's.
LEMMA ApprovedInvitations ==
    ASSUME TypeOK, NEW p \in Proc, Approve(p)
    PROVE  /\ Len(invitations) <= Len(invitations')
           /\ \A i \in 1..Len(invitations) : invitations'[i] = invitations[i]
           /\ \A i \in 1..Len(invitations') :
                 i > Len(invitations) => invitations'[i].role = "Creator"
           /\ target[p] => invitations' = invitations
<1>1. /\ invitations \in Seq(Invitation) /\ Len(invitations) \in Nat
      /\ NewInvitation("Creator") \in Invitation
      /\ NewInvitation("Creator").role = "Creator"
      /\ target[p] \in BOOLEAN
  BY NewInvitationType DEF TypeOK, NewInvitation, Role
<1>2. CASE target[p]
  <2>1. invitations' = invitations
    BY <1>2 DEF Approve
  <2> QED
    BY <1>1, <2>1
<1>3. CASE ~target[p]
  <2>1. invitations' = Append(invitations, NewInvitation("Creator"))
    BY <1>3 DEF Approve
  <2> DEFINE new == NewInvitation("Creator")
  <2> HIDE DEF new
  <2>2. /\ Len(invitations') = Len(invitations) + 1
        /\ \A i \in 1..Len(invitations) : invitations'[i] = invitations[i]
        /\ invitations'[Len(invitations) + 1] = new
    BY <1>1, <2>1 DEF new
  <2> QED
    BY <1>1, <1>3, <2>2 DEF new
<1> QED
  BY <1>1, <1>2, <1>3

LEMMA ApproveKeeps == ASSUME IInv, NEW p \in Proc, Approve(p) PROVE IInv'
<1> DEFINE r == arg[p]
<1>1. /\ Return(p, "approving", "success") /\ pc[p] = "approving"
      /\ member' = IF target[p] THEN [state |-> "active", role |-> "Creator"] ELSE member
      /\ UNCHANGED <<account, resets, elsewhere, admin>>
  BY DEF Approve, Return
<1>2. /\ r \in 1..Len(requests)
      /\ Holds(p, Update("request", r))
      /\ requests[r].status = "pending"
      /\ target[p] => /\ Holds(p, Update("user", 0)) /\ account # "none"
                      /\ member.state # "absent" => Holds(p, Update("member", 0))
  BY <1>1 DEF IInv, Knows, KnowsDeciding, Promoting, DecideStep
<1>3. /\ Len(requests') = Len(requests)
      /\ \A j \in 1..Len(requests) : j # r => requests'[j] = requests[j]
      /\ requests'[r].status = "approved"
  BY <1>2, ApproveWrites DEF IInv
<1>4. /\ Len(invitations) <= Len(invitations')
      /\ \A i \in 1..Len(invitations) : invitations'[i] = invitations[i]
      /\ \A i \in 1..Len(invitations') :
            i > Len(invitations) => invitations'[i].role = "Creator"
  BY ApprovedInvitations DEF IInv
<1>5. TypeOK'
  BY <1>2, DecidingType DEF IInv, Deciding
<1>6. /\ Len(invitations) \in Nat /\ Len(requests) \in Nat /\ r \in Nat
      /\ Len(invitations') \in Nat
  BY <1>5 DEF IInv, TypeOK
<1>7. ASSUME NEW q \in Proc \ {p} PROVE Protected(q)
  <2>1. ~Holds(q, Update("request", r))
    BY <1>2, <1>6, HeldTwice, UpdateExcludes, LockNames DEF IInv
  <2>2. target[p] => ~Holds(q, Update("user", 0))
    BY <1>2, HeldTwice, UpdateExcludes, LockNames DEF IInv
  <2>3. target[p] /\ member.state # "absent" =>
           ~Holds(q, Update("member", 0)) /\ ~Holds(q, Share("member", 0))
    BY <1>2, HeldTwice, UpdateExcludes, LockNames DEF IInv
  <2> QED
    BY <1>1, <1>3, <1>4, <1>6, <2>1, <2>2, <2>3 DEF Protected
<1>8. Grows
  BY <1>1, <1>2, <1>3, <1>4, <1>6 DEF Grows
<1>9. Joined' /\ CreatorOnlyByApproval'
  <2>1. r \in 1..Len(requests') /\ requests'[r].status = "approved"
    BY <1>2, <1>3
  <2> QED
    BY <1>1, <1>2, <2>1 DEF IInv, Joined, CreatorOnlyByApproval
<1>10. AtMostOne'
  <2> SUFFICES ASSUME NEW i \in Live', NEW j \in Live',
                      invitations'[i].role # "Creator", invitations'[j].role # "Creator"
               PROVE  i = j
    BY DEF AtMostOne, Live
  <2>1. i \in 1..Len(invitations) /\ j \in 1..Len(invitations)
    BY <1>4, <1>6 DEF Live
  <2> QED
    BY <1>4, <2>1 DEF IInv, AtMostOne, Live
<1> QED
  BY <1>1, <1>5, <1>7, <1>8, <1>9, <1>10, ReturnKeeps

LEMMA RejectKeeps == ASSUME IInv, NEW p \in Proc, Reject(p) PROVE IInv'
<1> DEFINE r == arg[p]
<1>1. CASE Finish(p, "rejecting", "invalid")
  BY <1>1, FinishKeeps
<1>2. CASE /\ Return(p, "rejecting", "success")
           /\ requests' = [requests EXCEPT ![r].status = "rejected"]
           /\ UNCHANGED <<people, invitations, admin, redemptions>>
  <2>1. pc[p] = "rejecting"
    BY <1>2 DEF Return
  <2>2. /\ r \in 1..Len(requests)
        /\ Holds(p, Update("request", r))
        /\ requests[r].status = "pending"
    BY <2>1 DEF IInv, Knows, KnowsDeciding, DecideStep
  <2>3. /\ Len(requests') = Len(requests)
        /\ \A j \in 1..Len(requests) : j # r => requests'[j] = requests[j]
    BY <1>2, <2>2, RejectWrites DEF IInv
  <2>4. TypeOK'
    BY <2>2, DecidingType DEF IInv, Deciding
  <2>5. /\ Len(invitations) \in Nat /\ Len(requests) \in Nat /\ r \in Nat
        /\ UNCHANGED <<account, resets, elsewhere, member, invitations, admin>>
    BY <1>2 DEF IInv, TypeOK, people
  <2>6. ASSUME NEW q \in Proc \ {p} PROVE Protected(q)
    <3>1. ~Holds(q, Update("request", r))
      BY <2>2, <2>5, HeldTwice, UpdateExcludes, LockNames DEF IInv
    <3> QED
      BY <2>3, <2>5, <3>1 DEF Protected
  <2>7. Grows
    BY <2>2, <2>3, <2>5 DEF Grows
  <2>8. Joined' /\ AtMostOne'
    BY <2>5 DEF IInv, Joined, AtMostOne, Live
  <2>9. CreatorOnlyByApproval'
    BY <2>2, <2>3, <2>5 DEF IInv, CreatorOnlyByApproval
  <2> QED
    BY <1>2, <2>4, <2>6, <2>7, <2>8, <2>9, ReturnKeeps
<1> QED
  BY <1>1, <1>2 DEF Reject

LEMMA DecidingKeeps == ASSUME IInv, NEW p \in Proc, Deciding(p) PROVE IInv'
BY RequestCreatorKeeps, SubmitRequestKeeps, DecideKeeps, DecideAssignmentKeeps,
   DecideRequestKeeps, DecideTenantKeeps, DecideUserKeeps, DecideMemberKeeps, ApproveKeeps,
   RejectKeeps
DEF Deciding

-----------------------------------------------------------------------------
(***************************************************************************)
(* Changing roles, and the rest of the system.                             *)
(***************************************************************************)

LEMMA ChangeRoleKeeps ==
    ASSUME IInv, NEW p \in Proc, NEW r \in Role, ChangeRole(p, r)
    PROVE  IInv'
<1> USE DEF IInv
<1>1. TypeOK'
  BY ManagingType DEF Managing
<1>2. pc'[p] = "changingRole" /\ role'[p] = r /\ r # "Creator"
  BY DEF ChangeRole, MayGrant, Start, Goto, TypeOK
<1>3. Knows(p)'
  BY <1>2, KnowsNothing DEF Knows, KnowsInviting, InviteStep, ValidateStep, AcceptStep, RegisterStep,
        DecideStep
<1>4. \A q \in Proc \ {p} : /\ arg'[q] = arg[q] /\ role'[q] = role[q]
                            /\ session'[q] = session[q] /\ target'[q] = target[q]
  BY DEF ChangeRole, TypeOK
<1> QED
  BY <1>1, <1>3, <1>4, StartKeeps DEF ChangeRole

LEMMA WriteRoleKeeps == ASSUME IInv, NEW p \in Proc, WriteRole(p) PROVE IInv'
<1>1. /\ \E error : Return(p, "changingRole", error)
      /\ pc[p] = "changingRole"
      /\ Free(Update("member", 0))
      /\ member' = IF member.state = "active" THEN [member EXCEPT !.role = role[p]] ELSE member
      /\ UNCHANGED <<account, resets, elsewhere, invitations, requests, admin>>
  BY DEF WriteRole, Return, papers
<1>2. TypeOK'
  BY ManagingType DEF IInv, Managing
<1>3. role[p] # "Creator" /\ member \in Member /\ Len(invitations) \in Nat /\ Len(requests) \in Nat
  BY <1>1 DEF IInv, Knows, KnowsInviting, TypeOK
<1>4. ASSUME NEW q \in Proc \ {p} PROVE Protected(q)
  <2>1. ~Holds(q, Update("member", 0)) /\ ~Holds(q, Share("member", 0))
    BY <1>1, FreeMeans, UpdateExcludes
  <2> QED
    BY <1>1, <1>3, <2>1 DEF Protected
<1>5. Grows
  BY <1>1, <1>3 DEF Grows
<1>6. member'.state = member.state /\ (member'.role = "Creator" => member.role = "Creator")
  BY <1>1, <1>3 DEF Member
<1>7. Joined' /\ CreatorOnlyByApproval' /\ AtMostOne'
  BY <1>1, <1>6 DEF IInv, Joined, CreatorOnlyByApproval, AtMostOne, Live
<1> QED
  BY <1>1, <1>2, <1>4, <1>5, <1>7, ReturnKeeps

LEMMA ManagingKeeps == ASSUME IInv, NEW p \in Proc, Managing(p) PROVE IInv'
BY ChangeRoleKeeps, WriteRoleKeeps DEF Managing

\* A step of no handler, at rows that are free.
LEMMA OutsideKeeps ==
    ASSUME IInv, TypeOK', UNCHANGED <<locks, pc, local>>,
           \A q \in Proc : Protected(q), Grows,
           Joined', CreatorOnlyByApproval', AtMostOne'
    PROVE  IInv'
<1>1. UNCHANGED <<locks, pc, arg, role, session, target>>
  BY DEF local
<1>2. Exclusive' /\ Within'
  BY <1>1 DEF IInv, Exclusive, Within, Holds
<1>3. \A q \in Proc : SameLocals(q)
  BY <1>1 DEF SameLocals
<1>4. \A q \in Proc : Knows(q)'
  BY <1>3, KnowsStable DEF IInv
<1> QED
  BY <1>2, <1>4 DEF IInv

LEMMA RevokeKeeps ==
    ASSUME IInv, NEW i \in 1..Len(invitations), Revoke(i)
    PROVE  IInv'
<1>1. TypeOK'
  BY EnvironmentType DEF IInv, Environment
<1>2. CASE Reply("revoke", "notFound")
  BY <1>1, <1>2, ReplyKeeps DEF Reply
<1>3. CASE /\ ~invitations[i].used
           /\ Free(Update("invitation", i))
           /\ invitations' = [invitations EXCEPT ![i] = Retired(i)]
           /\ UNCHANGED <<people, requests, admin, locks, pc, local, redemptions>>
  <2>1. /\ Retired(i) \in Invitation
        /\ Retired(i).role = invitations[i].role /\ Retired(i).used
    BY RowTypes DEF IInv, Retired, Invitation
  <2>2. /\ Len(invitations') = Len(invitations)
        /\ \A j \in 1..Len(invitations) : invitations'[j].role = invitations[j].role
        /\ \A j \in 1..Len(invitations) : j # i => invitations'[j] = invitations[j]
        /\ AtMostOne'
    BY <1>3, <2>1, InvitationWritten
  <2>3. /\ UNCHANGED <<account, resets, elsewhere, member, requests, admin>>
        /\ Len(invitations) \in Nat /\ Len(requests) \in Nat
    BY <1>3 DEF people, IInv, TypeOK
  <2>4. \A q \in Proc : ~Holds(q, Update("invitation", i))
    BY <1>3, FreeMeans, UpdateExcludes
  <2>5. Grows /\ \A q \in Proc : Protected(q)
    BY <2>2, <2>3, <2>4 DEF Grows, Protected
  <2>6. Joined' /\ CreatorOnlyByApproval'
    BY <2>3 DEF IInv, Joined, CreatorOnlyByApproval
  <2> QED
    BY <1>1, <1>3, <2>2, <2>5, <2>6, OutsideKeeps
<1> QED
  BY <1>2, <1>3 DEF Revoke

LEMMA ExpireKeeps ==
    ASSUME IInv, NEW i \in 1..Len(invitations), Expire(i)
    PROVE  IInv'
<1> DEFINE e == [invitations[i] EXCEPT !.expired = TRUE]
<1>1. TypeOK'
  BY EnvironmentType DEF IInv, Environment
<1>2. /\ e \in Invitation /\ e.role = invitations[i].role
      /\ e.used = invitations[i].used
  BY RowTypes DEF IInv, Invitation
<1>3. /\ invitations' = [invitations EXCEPT ![i] = e]
      /\ UNCHANGED <<locks, pc, local, account, resets, elsewhere, member, requests, admin>>
      /\ Len(invitations) \in Nat /\ Len(requests) \in Nat
  BY DEF Expire, people, IInv, TypeOK
<1> HIDE DEF e
<1>4. /\ Len(invitations') = Len(invitations)
      /\ \A j \in 1..Len(invitations) :
            /\ invitations'[j].role = invitations[j].role
            /\ invitations'[j].used = invitations[j].used
  BY <1>2, <1>3, InvitationsType DEF IInv
<1>5. Grows /\ \A q \in Proc : Protected(q)
  BY <1>3, <1>4 DEF Grows, Protected
<1>6. Joined' /\ CreatorOnlyByApproval'
  BY <1>3 DEF IInv, Joined, CreatorOnlyByApproval
<1>7. AtMostOne'
  BY <1>4 DEF IInv, AtMostOne, Live
<1> QED
  BY <1>1, <1>3, <1>5, <1>6, <1>7, OutsideKeeps

\* Joined, CreatorOnlyByApproval and AtMostOne are about these four.
LEMMA SameRows ==
    ASSUME IInv, UNCHANGED <<account, member, invitations, requests>>
    PROVE  Joined' /\ CreatorOnlyByApproval' /\ AtMostOne'
BY DEF IInv, Joined, CreatorOnlyByApproval, AtMostOne, Live

LEMMA EnvironmentKeeps == ASSUME IInv, Environment PROVE IInv'
<1>1. /\ TypeOK'
      /\ Len(invitations) \in Nat /\ Len(requests) \in Nat /\ member \in Member
  BY EnvironmentType DEF IInv, TypeOK
<1>2. ASSUME NEW i \in 1..Len(invitations), Verify(i) PROVE IInv'
  BY <1>1, <1>2, ReplyKeeps DEF Verify, Reply
<1>3. CASE Refuse
  BY <1>1, <1>3, ReplyKeeps DEF Refuse
<1>4. CASE RemoveMember
  <2>1. /\ UNCHANGED <<account, resets, elsewhere, invitations, requests, admin>>
        /\ UNCHANGED <<locks, pc, local>>
        /\ Free(Update("member", 0))
        /\ member.state = "active" /\ member' = [member EXCEPT !.state = "gone"]
    BY <1>4 DEF RemoveMember, papers
  <2>2. \A q \in Proc : ~Holds(q, Update("member", 0)) /\ ~Holds(q, Share("member", 0))
    BY <2>1, FreeMeans, UpdateExcludes
  <2>3. Grows /\ \A q \in Proc : Protected(q)
    BY <1>1, <2>1, <2>2 DEF Grows, Protected
  <2>4. member'.role = member.role
    BY <1>1, <2>1 DEF Member
  <2>5. Joined' /\ CreatorOnlyByApproval' /\ AtMostOne'
    BY <2>1, <2>4 DEF IInv, Joined, CreatorOnlyByApproval, AtMostOne, Live
  <2> QED
    BY <1>1, <2>1, <2>3, <2>5, OutsideKeeps
<1>5. CASE CreateAccount
  <2>1. /\ UNCHANGED <<member, resets, elsewhere, invitations, requests, admin>>
        /\ UNCHANGED <<locks, pc, local>>
        /\ Free(Update("user", 0))
        /\ account = "none" /\ account' # "none"
    BY <1>5 DEF CreateAccount, papers
  <2>2. \A q \in Proc : ~Holds(q, Update("user", 0))
    BY <2>1, FreeMeans, UpdateExcludes
  <2>3. Grows /\ \A q \in Proc : Protected(q)
    BY <1>1, <2>1, <2>2 DEF Grows, Protected
  <2>4. Joined' /\ CreatorOnlyByApproval' /\ AtMostOne'
    BY <2>1 DEF IInv, Joined, CreatorOnlyByApproval, AtMostOne, Live
  <2> QED
    BY <1>1, <2>1, <2>3, <2>4, OutsideKeeps
<1>6. CASE TeachElsewhere
  <2>1. /\ UNCHANGED <<account, member, resets, invitations, requests, admin>>
        /\ UNCHANGED <<locks, pc, local>>
        /\ Free(Update("elsewhere", 0))
    BY <1>6 DEF TeachElsewhere, papers
  <2>2. \A q \in Proc : ~Holds(q, Share("elsewhere", 0))
    BY <2>1, FreeMeans, UpdateExcludes
  <2>3. Grows /\ \A q \in Proc : Protected(q)
    BY <1>1, <2>1, <2>2 DEF Grows, Protected
  <2> QED
    BY <1>1, <2>1, <2>3, SameRows, OutsideKeeps
<1>7. CASE ResetPassword
  <2>1. /\ UNCHANGED <<account, member, elsewhere, invitations, requests, admin>>
        /\ UNCHANGED <<locks, pc, local>>
        /\ Free(Update("user", 0))
    BY <1>7 DEF ResetPassword, papers
  <2>2. \A q \in Proc : ~Holds(q, Update("user", 0))
    BY <2>1, FreeMeans, UpdateExcludes
  <2>3. Grows /\ \A q \in Proc : Protected(q)
    BY <1>1, <2>1, <2>2 DEF Grows, Protected
  <2> QED
    BY <1>1, <2>1, <2>3, SameRows, OutsideKeeps
<1>8. CASE RevokeAdmin
  <2>1. /\ UNCHANGED <<account, resets, elsewhere, member, invitations, requests>>
        /\ UNCHANGED <<locks, pc, local>>
        /\ Free(Update("admin", 0))
    BY <1>8 DEF RevokeAdmin, people
  <2>2. \A q \in Proc : ~Holds(q, Share("admin", 0))
    BY <2>1, FreeMeans, UpdateExcludes
  <2>3. Grows /\ \A q \in Proc : Protected(q)
    BY <1>1, <2>1, <2>2 DEF Grows, Protected
  <2> QED
    BY <1>1, <2>1, <2>3, SameRows, OutsideKeeps
<1> QED
  BY <1>2, <1>3, <1>4, <1>5, <1>6, <1>7, <1>8, RevokeKeeps, ExpireKeeps DEF Environment

-----------------------------------------------------------------------------
(***************************************************************************)
(* The invariant.                                                          *)
(***************************************************************************)

LEMMA InvInit == Init => IInv
<1> SUFFICES ASSUME Init PROVE IInv
  OBVIOUS
<1>1. TypeOK
  <2>1. NewInvitation("Creator") \in Invitation
    BY NewInvitationType DEF Role
  <2>2. invitations \in Seq(Invitation) /\ requests \in Seq(Request)
    <3> DEFINE new == NewInvitation("Creator")
    <3>1. invitations \in {<<>>, <<new>>} /\ requests = <<>>
      BY DEF Init
    <3> HIDE DEF new
    <3>2. new \in Invitation
      BY <2>1 DEF new
    <3>3. <<>> \in Seq(Invitation) /\ <<>> \in Seq(Request)
      OBVIOUS
    <3>4. <<new>> \in Seq(Invitation)
      BY <3>2
    <3> QED BY <3>1, <3>3, <3>4
  <2>3. member \in Member
    BY DEF Init, NoMember, Member, Role
  <2> QED
    BY <2>2, <2>3 DEF Init, TypeOK, Step, Role, NoAnswer
<1>2. Exclusive /\ Within
  BY DEF Init, Exclusive, Within, Holds
<1>3. \A p \in Proc : Knows(p)
  BY DEF Init, Knows, KnowsInviting, KnowsAccepting, KnowsRegistering, KnowsDeciding, Promoting,
         InviteStep, ValidateStep, AcceptStep, RegisterStep, DecideStep
<1>4. Joined /\ CreatorOnlyByApproval
  BY DEF Init, NoMember, Joined, CreatorOnlyByApproval
<1>5. AtMostOne
  BY DEF Init, AtMostOne, Live
<1> QED
  BY <1>1, <1>2, <1>3, <1>4, <1>5 DEF IInv

LEMMA InvStep == IInv /\ [Next]_vars => IInv'
<1> SUFFICES ASSUME IInv, [Next]_vars PROVE IInv'
  OBVIOUS
<1>1. CASE UNCHANGED vars
  <2>1. TypeOK'
    BY <1>1 DEF IInv, TypeOK, vars, people, papers, local
  <2> QED
    BY <1>1, <2>1, ReplyKeeps DEF vars
<1>2. ASSUME NEW p \in Proc, Inviting(p) PROVE IInv'
  BY <1>2, InvitingKeeps
<1>3. ASSUME NEW p \in Proc, Abort(p) PROVE IInv'
  BY <1>3, FinishKeeps DEF Abort
<1> QED
  BY <1>1, <1>2, <1>3, AcceptingKeeps, RegisteringKeeps, DecidingKeeps, ManagingKeeps,
     EnvironmentKeeps
  DEF Next

\* What every handler knows from its locks holds in every reachable state: the invariant
\* that the theorems below follow from.
THEOREM Invariant == Spec => []IInv
BY InvInit, InvStep, PTL DEF Spec

-----------------------------------------------------------------------------
(***************************************************************************)
(* What follows.                                                           *)
(***************************************************************************)

\* The variables keep their types, whatever handlers run and abort.
THEOREM TypeCorrect == Spec => []TypeOK
<1>1. IInv => TypeOK
  BY DEF IInv
<1> QED
  BY <1>1, Invariant, PTL

LEMMA OneLiveHolds == ASSUME IInv PROVE OneLiveInvitation
<1> DEFINE S == {i \in Live : invitations[i].role # "Creator"}
<1>1. \A i, j \in S : i = j
  BY DEF IInv, AtMostOne
<1>2. CASE S = {}
  BY <1>2, FS_EmptySet DEF OneLiveInvitation
<1>3. CASE S # {}
  <2>1. PICK i : S = {i}
    BY <1>1, <1>3
  <2>2. Cardinality(S) = 1
    BY <2>1, FS_Singleton
  <2> QED
    BY <2>2 DEF OneLiveInvitation
<1> QED
  BY <1>2, <1>3

\* However many members invite the address at the same time, and whatever is revoked,
\* redeemed and approved meanwhile, at most one of their invitations can be redeemed: the
\* UPDATE of ReplaceActive only sees its snapshot, and the tenant's lock is what makes that
\* snapshot complete.
THEOREM OneLive == Spec => []OneLiveInvitation
<1>1. IInv => OneLiveInvitation
  BY OneLiveHolds
<1> QED
  BY <1>1, Invariant, PTL

\* No interleaving of invitations, registrations, acceptances, role changes and decisions
\* makes a Creator of the tenant without a request that was approved.
THEOREM CreatorApproved == Spec => []CreatorOnlyByApproval
<1>1. IInv => CreatorOnlyByApproval
  BY DEF IInv
<1> QED
  BY <1>1, Invariant, PTL

-----------------------------------------------------------------------------
(***************************************************************************)
(* What no step does.                                                      *)
(***************************************************************************)

LEMMA UsedStep ==
    ASSUME IInv, [Next]_vars, NEW i \in 1..MaxInvitations, redemptions'[i] # redemptions[i]
    PROVE  i \in Live /\ i \notin Live'
<1> DEFINE Redeems(p) == Accept(p) \/ Register(p)
<1>1. \E p \in Proc : Redeems(p)
  <2>1. redemptions' # redemptions
    OBVIOUS
  <2>2. ~Environment
    BY <2>1 DEF Environment, Revoke, Reply, Expire, Verify, Refuse, RemoveMember, CreateAccount,
                TeachElsewhere, ResetPassword, RevokeAdmin
  <2>3. ASSUME NEW p \in Proc PROVE ~Inviting(p) /\ ~Managing(p) /\ ~Abort(p)
    BY <2>1, ValidatingSteps
    DEF Inviting, Invite, Start, Reply, LockTenant, LockInvitation, ReplaceActive, Managing, ChangeRole, WriteRole, Abort, Finish
  <2>4. ASSUME NEW p \in Proc PROVE ~Deciding(p)
    BY <2>1 DEF Deciding, RequestCreator, Start, Reply, SubmitRequest, Finish, Decide,
                DecideAssignment, DecideRequest, DecideTenant, Check, Wait, DecideUser,
                DecideMember, Approve, Reject
  <2>5. ASSUME NEW p \in Proc, Accepting(p) PROVE Redeems(p)
    BY <2>1, <2>5 DEF Accepting, AcceptExisting, Start, AcceptFirst, AcceptSecond, AcceptUser,
                AcceptTeacher, AcceptMember, AcceptOther, Check, Wait, Finish
  <2>6. ASSUME NEW p \in Proc, Registering(p) PROVE Redeems(p)
    BY <2>1, <2>6 DEF Registering, RegisterInvited, Start, RegisterCheck, InsertUser,
                InsertMember, Check, Wait, Finish
  <2>7. ~UNCHANGED vars
    BY <2>1 DEF vars
  <2> HIDE DEF Redeems
  <2> QED
    BY <2>2, <2>3, <2>4, <2>5, <2>6, <2>7 DEF Next
<1>2. PICK p \in Proc : Redeems(p)
  BY <1>1
<1> DEFINE n == arg[p]
<1>3. /\ n \in 1..Len(invitations) /\ ~invitations[n].used
      /\ \E e \in Invitation : e.used /\ invitations' = [invitations EXCEPT ![n] = e]
  <2>1. CASE Accept(p)
    <3>1. pc[p] = "accepting" /\ Redeemable(n)
          /\ invitations' = [invitations EXCEPT ![n] = Acknowledged(n)]
      BY <2>1 DEF Accept, Return
    <3>2. n \in 1..Len(invitations)
      BY <3>1 DEF IInv, Knows, KnowsAccepting, AcceptStep
    <3>3. Acknowledged(n) \in Invitation /\ Acknowledged(n).used
      BY <3>2, RowTypes DEF IInv, Acknowledged, Invitation
    <3> QED
      BY <3>1, <3>2, <3>3 DEF Redeemable
  <2>2. CASE Register(p)
    <3>1. pc[p] = "registering" /\ invitations' = [invitations EXCEPT ![n] = Retired(n)]
      BY <2>2 DEF Register, Return
    <3>2. n \in 1..Len(invitations) /\ ~invitations[n].used
      BY <3>1 DEF IInv, Knows, KnowsRegistering, RegisterStep
    <3>3. Retired(n) \in Invitation /\ Retired(n).used
      BY <3>2, RowTypes DEF IInv, Retired, Invitation
    <3> QED
      BY <3>1, <3>2, <3>3
  <2> QED
    BY <1>2, <2>1, <2>2
<1>4. i = n
  <2>1. redemptions' = [redemptions EXCEPT ![n] = @ + 1]
    BY <1>2 DEF Accept, Register, Redeem
  <2> QED
    BY <2>1 DEF IInv, TypeOK
<1>5. Len(invitations') = Len(invitations) /\ invitations'[n].used
  BY <1>3, InvitationsType DEF IInv
<1> QED
  BY <1>3, <1>4, <1>5 DEF Live

\* However redemptions, revocations and replacements of an invitation interleave, it is
\* redeemed when it is unused and is used from then on: nobody else joins with it.
THEOREM UsedAdmitNobody == Spec => UsedInvitationsAdmitNobody
<1>1. IInv /\ [Next]_vars =>
        [\A i \in 1..MaxInvitations :
           redemptions'[i] # redemptions[i] => i \in Live /\ i \notin Live']_vars
  BY UsedStep
<1> QED
  BY <1>1, Invariant, PTL DEF Spec, UsedInvitationsAdmitNobody

LEMMA DecidedStep ==
    ASSUME IInv, [Next]_vars, NEW r \in 1..Len(requests), requests'[r] # requests[r]
    PROVE  requests[r].status = "pending" /\ admin
<1>1. requests' # requests
  OBVIOUS
<1>2. ~Environment /\ ~UNCHANGED vars
  BY <1>1 DEF Environment, Revoke, Reply, Expire, Verify, Refuse, RemoveMember, CreateAccount,
              TeachElsewhere, ResetPassword, RevokeAdmin, papers, vars
<1>3. ASSUME NEW p \in Proc PROVE ~Inviting(p) /\ ~Managing(p) /\ ~Abort(p)
  BY <1>1, ValidatingSteps
  DEF Inviting, Invite, Start, Reply, LockTenant, LockInvitation, ReplaceActive, Managing, ChangeRole, WriteRole, Abort, Finish, papers
<1>4. ASSUME NEW p \in Proc PROVE ~Accepting(p)
  BY <1>1 DEF Accepting, AcceptExisting, Start, AcceptFirst, AcceptSecond, AcceptUser,
              AcceptTeacher, AcceptMember, Accept, AcceptOther, Check, Wait, Finish, papers
<1>5. ASSUME NEW p \in Proc PROVE ~Registering(p)
  BY <1>1 DEF Registering, RegisterInvited, Start, RegisterCheck, InsertUser, InsertMember,
              Register, Check, Wait, Finish, papers
<1>6. PICK p \in Proc : Deciding(p)
  BY <1>2, <1>3, <1>4, <1>5 DEF Next
<1>7. Approve(p) \/ (Reject(p) /\ requests' = [requests EXCEPT ![arg[p]].status = "rejected"])
      \/ SubmitRequest(p)
  BY <1>1, <1>6 DEF Deciding, RequestCreator, Start, Reply, Decide, DecideAssignment,
              DecideRequest, DecideTenant, Check, Wait, Finish, DecideUser, DecideMember,
              Reject, papers
<1>8. CASE Approve(p) \/ (Reject(p) /\ requests' = [requests EXCEPT ![arg[p]].status = "rejected"])
  <2>1. pc[p] \in {"approving", "rejecting"}
    BY <1>8 DEF Approve, Reject, Return, Finish
  <2>2. /\ arg[p] \in 1..Len(requests)
        /\ requests[arg[p]].status = "pending" /\ admin
    BY <2>1 DEF IInv, Knows, KnowsDeciding, DecideStep
  <2>3. r = arg[p]
    BY <1>8, <2>2, ApproveWrites, RejectWrites DEF IInv
  <2> QED
    BY <2>2, <2>3
<1>9. CASE SubmitRequest(p)
  <2> DEFINE e == [target |-> target[p], status |-> "pending", invitation |-> 0]
  <2>1. requests' = Append(requests, e)
    BY <1>1, <1>9 DEF SubmitRequest, Finish, papers
  <2>2. e \in Request /\ requests \in Seq(Request)
    BY DEF IInv, TypeOK, Request
  <2> HIDE DEF e
  <2>3. requests'[r] = requests[r]
    BY <2>1, <2>2
  <2> QED
    BY <2>3
<1> QED
  BY <1>7, <1>8, <1>9

\* Two decisions of one request, and the revocation of the administrator, come in any
\* order: only a pending request is decided, and only while the administrator is assigned.
THEOREM DecidedOnce == Spec => DecidedOnceByAdmin
<1>1. IInv /\ [Next]_vars =>
        [\A r \in 1..Len(requests) :
           requests'[r] # requests[r] => requests[r].status = "pending" /\ admin]_vars
  BY DecidedStep
<1> QED
  BY <1>1, Invariant, PTL DEF Spec, DecidedOnceByAdmin

\* What an acceptance relied on when it looked, the session and the Teacher standing, is
\* still so when it commits.
THEOREM LiveFacts == Spec => AcceptedOnLiveFacts
<1>1. ASSUME IInv, NEW p \in Proc, Accept(p)
      PROVE  session[p] = resets /\ (elsewhere \/ Teaches)
  <2>1. pc[p] = "accepting"
    BY <1>1 DEF Accept, Return
  <2> QED
    BY <1>1, <2>1 DEF IInv, Knows, KnowsAccepting, TeachesUnderLock
<1>2. IInv /\ [Next]_vars =>
        [\A p \in Proc : Accept(p) => session[p] = resets /\ (elsewhere \/ Teaches)]_vars
  BY <1>1
<1> QED
  BY <1>2, Invariant, PTL DEF Spec, AcceptedOnLiveFacts

LEMMA RemovedStep ==
    ASSUME IInv, [Next]_vars, member.state = "gone"
    PROVE  member' = member
<1> SUFFICES ASSUME member' # member PROVE FALSE
  OBVIOUS
<1>1. ~Environment /\ ~UNCHANGED vars
  BY DEF Environment, Revoke, Reply, Expire, Verify, Refuse, RemoveMember, CreateAccount,
         TeachElsewhere, ResetPassword, RevokeAdmin, people, vars
<1>2. ASSUME NEW p \in Proc PROVE ~Inviting(p) /\ ~Managing(p) /\ ~Abort(p)
  BY ValidatingSteps
  DEF Inviting, Invite, Start, Reply, LockTenant, LockInvitation, ReplaceActive, Managing,
      ChangeRole, WriteRole, Abort, Finish, people
<1>3. ASSUME NEW p \in Proc PROVE ~Accepting(p)
  BY DEF Accepting, AcceptExisting, Start, AcceptFirst, AcceptSecond, AcceptUser,
         AcceptTeacher, AcceptMember, Accept, AcceptOther, Check, Wait, Finish, people
<1>4. ASSUME NEW p \in Proc PROVE ~Registering(p)
  <2>1. ~Register(p)
    BY DEF Register, Return, IInv, Knows, KnowsRegistering, Joined
  <2> QED
    BY <2>1 DEF Registering, RegisterInvited, Start, RegisterCheck, InsertUser, InsertMember,
                Check, Wait, Finish, people
<1>5. ASSUME NEW p \in Proc PROVE ~Deciding(p)
  <2>1. ~Approve(p)
    BY DEF Approve, Return, IInv, Knows, KnowsDeciding, Promotable
  <2> QED
    BY <2>1 DEF Deciding, RequestCreator, Start, Reply, SubmitRequest, Decide,
                DecideAssignment, DecideRequest, DecideTenant, Check, Wait, Finish, DecideUser,
                DecideMember, Reject, people
<1> QED
  BY <1>1, <1>2, <1>3, <1>4, <1>5 DEF Next

\* No acceptance, registration, role change or approval that raced the removal of a member
\* brings the membership back.
THEOREM RemovedStay == Spec => RemovedStaysRemoved
<1>1. IInv /\ [Next]_vars => [member.state = "gone" => member' = member]_vars
  BY RemovedStep
<1> QED
  BY <1>1, Invariant, PTL DEF Spec, RemovedStaysRemoved

-----------------------------------------------------------------------------
(***************************************************************************)
(* Deadlocks.  Most handlers lock the tables in one order, so that each    *)
(* one in a circle would want a row of a later table than the one before.  *)
(* Those that do not are a registration and the invitation it has locked,  *)
(* and a validation, which locks the tenant and two times the membership.  *)
(***************************************************************************)

Rank(table) ==
    CASE table = "admin" -> 1
      [] table = "request" -> 2
      [] table \in {"tenant", "tenantForUpdate"} -> 3
      [] table = "invitation" -> 4
      [] table = "user" -> 5
      [] table = "elsewhere" -> 6
      [] table = "member" -> 7
      [] OTHER -> 0

LEMMA Ranks ==
    /\ Rank("admin") = 1 /\ Rank("request") = 2 /\ Rank("tenant") = 3
    /\ Rank("invitation") = 4 /\ Rank("user") = 5 /\ Rank("elsewhere") = 6
    /\ Rank("member") = 7 /\ Rank("tenantForUpdate") = 3
BY DEF Rank

\* The tables it may have to wait for in a step.
Wanted(step) ==
    CASE step \in {"inviting", "validateTenant", "acceptFirst", "decideTenant", "registerTenant"}
           -> {"tenant"}
      [] step \in {"retiring", "acceptSecond", "register"} -> {"invitation"}
      [] step \in {"validateUser", "acceptUser", "decideUser", "registerEmail"} -> {"user"}
      [] step \in {"validateTeacher", "acceptTeacher"} -> {"elsewhere", "member"}
      [] step \in {"validateMember", "acceptMember", "decideMember"} -> {"member"}
      [] step = "decide" -> {"admin"}
      [] step = "decideRequest" -> {"request"}
      [] OTHER -> {}

LEMMA NeedsWanted ==
    ASSUME TypeOK, NEW p \in Proc, NEW l \in Needs(p)
    PROVE  l.row.table \in Wanted(pc[p])
<1>1. pc[p] \in Step
  BY DEF TypeOK
<1>2. CASE pc[p] \in {"inviting", "acceptFirst"}
  BY <1>2, NeedsAt DEF Wanted, Update, Share
<1>3. CASE pc[p] \in {"retiring", "acceptSecond"}
  BY <1>3, NeedsAt DEF Wanted, Update
<1>4. CASE pc[p] \in {"acceptUser", "decideUser"}
  BY <1>4, NeedsAt DEF Wanted, Update
<1>5. CASE pc[p] \in {"acceptTeacher", "validateTeacher"}
  BY <1>5, NeedsAt DEF Wanted, Share
<1>6. CASE pc[p] \in {"acceptMember", "validateMember", "decideMember"}
  BY <1>6, NeedsAt DEF Wanted, Update
<1>7. CASE pc[p] \in {"register", "registerEmail", "registerTenant", "decide", "decideRequest",
                      "decideTenant", "validateUser", "validateTenant"}
  BY <1>7, NeedsAtEnd DEF Wanted, Update, Share, KeyShare
<1>8. CASE pc[p] \in {"idle", "accepting", "registering", "approving", "rejecting",
                      "requesting", "changingRole"}
  BY <1>8, NeedsAtEnd
<1> QED
  BY <1>1, <1>2, <1>3, <1>4, <1>5, <1>6, <1>7, <1>8
  DEF Step, InviteStep, ValidateStep, AcceptStep, RegisterStep, DecideStep

\* But for these steps, what it waits for ranks above what it has.
LEMMA InOrder ==
    ASSUME NEW step \in Step,
           step \notin {"registerTenant", "retiring", "validateTenant"},
           NEW a \in Acquired(step), NEW w \in Wanted(step), w # "member"
    PROVE  Rank(a) \in Nat /\ Rank(w) \in Nat /\ Rank(a) < Rank(w)
<1>1. CASE step \in {"inviting", "validateUser", "acceptFirst", "register", "decide"}
  BY <1>1 DEF Acquired
<1>2. CASE step \in {"idle", "accepting", "registering", "approving", "rejecting",
                     "requesting", "changingRole"}
  BY <1>2 DEF Wanted
<1>3. CASE step \in {"validateMember", "acceptMember", "decideMember"}
  BY <1>3 DEF Wanted
<1>4. CASE step = "acceptSecond"
  BY <1>4, Ranks DEF Acquired, Wanted
<1>5. CASE step = "acceptUser"
  BY <1>5, Ranks DEF Acquired, Wanted
<1>6. CASE step = "registerEmail"
  BY <1>6, Ranks DEF Acquired, Wanted
<1>7. CASE step = "acceptTeacher"
  BY <1>7, Ranks DEF Acquired, Wanted
<1>8. CASE step = "validateTeacher"
  BY <1>8, Ranks DEF Acquired, Wanted
<1>9. CASE step = "decideRequest"
  BY <1>9, Ranks DEF Acquired, Wanted
<1>10. CASE step = "decideTenant"
  BY <1>10, Ranks DEF Acquired, Wanted
<1>11. CASE step = "decideUser"
  BY <1>11, Ranks DEF Acquired, Wanted
<1> QED
  BY <1>1, <1>2, <1>3, <1>4, <1>5, <1>6, <1>7, <1>8, <1>9, <1>10, <1>11
  DEF Step, InviteStep, ValidateStep, AcceptStep, RegisterStep, DecideStep

\* p waits to lock l, for which q has locked h.
Obstructs(p, l, q, h) ==
    p # q /\ l \in Needs(p) /\ Holds(q, h) /\ Conflict(h, l)

LEMMA WaitsForHeld ==
    ASSUME IInv, NEW p \in Proc, NEW q \in Proc
    PROVE  WaitsFor(p, q) <=> \E l \in Needs(p), h \in Lock : Obstructs(p, l, q, h)
<1>1. ASSUME WaitsFor(p, q) PROVE \E l \in Needs(p), h \in Lock : Obstructs(p, l, q, h)
  <2>1. PICK l \in Needs(p) : q \in Blockers(p, l)
    BY <1>1 DEF WaitsFor
  <2>2. PICK h \in locks : h.proc = q /\ Conflict(h.lock, l)
    BY <2>1 DEF Blockers
  <2>3. h.lock \in Lock /\ Holds(q, h.lock)
    BY <2>2 DEF IInv, TypeOK, Holds
  <2> QED
    BY <2>1, <2>2, <2>3 DEF Obstructs, Blockers
<1>2. ASSUME NEW l \in Needs(p), NEW h \in Lock, Obstructs(p, l, q, h) PROVE WaitsFor(p, q)
  <2>1. q \in Blockers(p, l)
    BY <1>2 DEF Obstructs, Blockers, Holds
  <2> QED
    BY <2>1 DEF WaitsFor
<1> QED
  BY <1>1, <1>2

\* What p waits for is of a table its step wants, and among what q has acquired.
LEMMA ObstructionTables ==
    ASSUME IInv, NEW p \in Proc, NEW q \in Proc, NEW l, NEW h \in Lock, Obstructs(p, l, q, h)
    PROVE  /\ l \in Lock /\ l.row = h.row
           /\ l.mode = "update" \/ h.mode = "update"
           /\ l.row.table \in Wanted(pc[p])
           /\ Kind(h) \in Acquired(pc[q])
           /\ Kind(h) # "tenantForUpdate" => Kind(h) = l.row.table
           /\ Rank(Kind(h)) = Rank(l.row.table)
<1>1. l \in Lock /\ l.row.table \in Wanted(pc[p])
  BY NeedsType, NeedsWanted DEF IInv, Obstructs
<1>2. Kind(h) \in Acquired(pc[q])
  BY DEF IInv, Within, Obstructs
<1>3. h.row = l.row /\ (l.mode = "update" \/ h.mode = "update")
  BY DEF Obstructs, Conflict
<1>4. \/ Kind(h) = l.row.table
      \/ Kind(h) = "tenantForUpdate" /\ l.row.table = "tenant"
  BY <1>3 DEF Kind
<1> QED
  BY <1>1, <1>2, <1>3, <1>4, Ranks

\* Who holds an account's row, or waits behind it.
LEMMA AccountHolders ==
    ASSUME IInv, NEW p \in Proc
    PROVE  /\ pc[p] \in {"acceptTeacher", "acceptMember", "accepting", "decideMember"} =>
                Holds(p, Update("user", 0)) /\ account # "none"
           /\ pc[p] \in {"validateTeacher", "validateTenant", "validateMember"} =>
                Holds(p, Share("user", 0)) /\ account # "none"
BY DEF IInv, Knows, KnowsInviting, KnowsAccepting, KnowsDeciding, Promoting, ValidateStep

\* There is one membership to lock.
LEMMA NeedsMember ==
    ASSUME IInv, NEW p \in Proc, NEW l \in Needs(p), l.row.table = "member"
    PROVE  l.row.id = 0
<1>1. l.row.table \in Wanted(pc[p])
  BY NeedsWanted DEF IInv
<1>2. pc[p] \in {"acceptTeacher", "validateTeacher", "acceptMember", "validateMember",
                "decideMember"}
  BY <1>1 DEF Wanted
<1> QED
  BY <1>2, NeedsAt DEF Share, Update

\* A replacement of invitations waits for nobody who waits, unless he registers.
LEMMA RetiringWaits ==
    ASSUME IInv, NEW S \in SUBSET Proc, \A p \in S : \E q \in S : WaitsFor(p, q),
           \A p \in S : pc[p] # "registerTenant", NEW p \in S
    PROVE  pc[p] # "retiring"
<1> SUFFICES ASSUME pc[p] = "retiring" PROVE FALSE
  OBVIOUS
<1>1. Holds(p, Update("tenant", 0))
  BY DEF IInv, Knows, KnowsInviting
<1>2. PICK q \in S, l \in Needs(p), h \in Lock : Obstructs(p, l, q, h)
  BY WaitsForHeld
<1>3. l.row.table = "invitation" /\ Kind(h) = "invitation"
  BY <1>2, ObstructionTables DEF Wanted, Kind
<1>4. "invitation" \in Acquired(pc[q]) /\ p # q
  BY <1>2, <1>3, ObstructionTables DEF Obstructs
<1>5. pc[q] \in Step /\ ~Holds(q, Update("tenant", 0)) /\ ~Holds(q, Share("tenant", 0))
  BY <1>1, <1>4, HeldTwice, UpdateExcludes, LockNames DEF IInv, TypeOK
<1>6. pc[q] \notin {"retiring", "acceptUser", "acceptTeacher", "acceptMember", "accepting"}
  BY <1>5 DEF IInv, Knows, KnowsInviting, KnowsAccepting, AcceptStep
<1>7. pc[q] \in {"registerEmail", "registering"}
  BY <1>4, <1>5, <1>6 DEF Acquired
<1>8. PICK r \in S, m \in Needs(q), k \in Lock : Obstructs(q, m, r, k)
  BY WaitsForHeld
<1>9. pc[q] = "registerEmail" /\ account = "none" /\ m.row.table = "user"
  <2>1. pc[q] # "registering"
    BY <1>8, NeedsAtEnd
  <2>2. m \in (IF account = "none" THEN {Update("user", 0)} ELSE {})
    BY <1>7, <1>8, <2>1, NeedsAtEnd
  <2> QED
    BY <1>7, <2>1, <2>2 DEF Update
<1>10. Kind(k) = "user" /\ "user" \in Acquired(pc[r]) /\ pc[r] \in Step
  <2>1. /\ m.row = k.row /\ Kind(k) \in Acquired(pc[r])
        /\ Kind(k) # "tenantForUpdate" => Kind(k) = m.row.table
    BY <1>8, ObstructionTables
  <2>2. Kind(k) = "user"
    BY <1>9, <2>1 DEF Kind
  <2> QED
    BY <2>1, <2>2 DEF IInv, TypeOK
<1>11. \E m2 \in Needs(r) : TRUE
  BY WaitsForHeld
<1>12. pc[r] \notin {"accepting", "registering", "approving"}
  BY <1>11, NeedsAtEnd
<1>13. pc[r] \notin {"acceptTeacher", "acceptMember", "decideMember", "validateTeacher",
                     "validateTenant", "validateMember"}
  BY <1>9, AccountHolders
<1> QED
  BY <1>10, <1>12, <1>13 DEF Acquired

\* Who waits for a membership waits for an invitation being validated.
LEMMA MemberWaits ==
    ASSUME IInv, NEW S \in SUBSET Proc, \A p \in S : \E q \in S : WaitsFor(p, q),
           NEW p \in S, NEW q \in S, NEW l, NEW h \in Lock, Obstructs(p, l, q, h),
           l.row.table = "member"
    PROVE  pc[q] \in {"validateTenant", "validateMember"}
<1>1. p # q /\ "member" \in Wanted(pc[p]) /\ "member" \in Acquired(pc[q])
  BY ObstructionTables DEF Obstructs, Kind
<1>2. Holds(p, Update("user", 0)) \/ Holds(p, Share("user", 0))
  <2>1. pc[p] \in {"acceptTeacher", "acceptMember", "decideMember", "validateTeacher",
                   "validateMember"}
    BY <1>1 DEF Wanted
  <2> QED
    BY <2>1, AccountHolders
<1>3. ~Holds(q, Update("user", 0))
  BY <1>1, <1>2, HeldTwice, UpdateExcludes, LockNames DEF IInv
<1>4. \E m \in Needs(q) : TRUE
  BY WaitsForHeld
<1>5. pc[q] \notin {"accepting", "approving", "acceptMember"}
  BY <1>3, <1>4, NeedsAtEnd, AccountHolders
<1> QED
  BY <1>1, <1>5 DEF Acquired

LEMMA NoOtherCircle == ASSUME IInv PROVE KnownDeadlocks
<1> DEFINE Known(S) ==
      \E p, q \in S :
          /\ WaitsFor(p, q)
          /\ \/ pc[p] = "registerTenant" /\ pc[q] = "retiring"
             \/ /\ pc[p] = "validateMember" /\ pc[q] = "validateMember"
                /\ WaitsFor(q, p)
<1> SUFFICES ASSUME NEW S \in (SUBSET Proc) \ {{}}, \A p \in S : \E q \in S : WaitsFor(p, q)
             PROVE  Known(S)
  BY DEF KnownDeadlocks
<1>1. \A p \in S : pc[p] \in Step /\ \E q \in S, l \in Needs(p), h \in Lock : Obstructs(p, l, q, h)
  BY WaitsForHeld DEF IInv, TypeOK
<1>2. ASSUME NEW p \in S, pc[p] = "registerTenant" PROVE Known(S)
  <2>1. PICK q \in S, l \in Needs(p), h \in Lock : Obstructs(p, l, q, h)
    BY <1>1
  <2>2. l = KeyShare("tenant", 0)
    BY <1>2, <2>1, NeedsAtEnd
  <2>3. h.mode = "update" /\ h.row.table = "tenant" /\ Kind(h) \in Acquired(pc[q])
    BY <2>1, <2>2, ObstructionTables DEF KeyShare
  <2>4. "tenantForUpdate" \in Acquired(pc[q])
    BY <2>3 DEF Kind
  <2>5. pc[q] = "retiring"
    BY <2>4, <1>1 DEF Acquired
  <2> QED
    BY <1>2, <2>1, <2>5, WaitsForHeld
<1> SUFFICES ASSUME \A p \in S : pc[p] # "registerTenant" PROVE Known(S)
  BY <1>2
<1>3. \A p \in S : pc[p] # "retiring"
  BY RetiringWaits
<1>4. ASSUME NEW p \in S PROVE pc[p] # "validateTenant"
  <2> SUFFICES ASSUME pc[p] = "validateTenant" PROVE FALSE
    OBVIOUS
  <2>1. PICK q \in S, l \in Needs(p), h \in Lock : Obstructs(p, l, q, h)
    BY <1>1
  <2>2. l = Share("tenant", 0)
    BY <2>1, NeedsAtEnd
  <2>3. h.mode = "update" /\ h.row.table = "tenant" /\ Kind(h) \in Acquired(pc[q])
    BY <2>1, <2>2, ObstructionTables DEF Share
  <2>4. "tenantForUpdate" \in Acquired(pc[q])
    BY <2>3 DEF Kind
  <2> QED
    BY <1>1, <1>3, <2>4 DEF Acquired
\* Two validations that lock the same membership.
<1>5. ASSUME NEW p \in S, NEW q \in S, NEW l, NEW h \in Lock, Obstructs(p, l, q, h),
             l.row.table = "member"
      PROVE  Known(S)
  <2>1. pc[q] = "validateMember"
    BY <1>4, <1>5, MemberWaits
  <2>2. PICK r \in S, m \in Needs(q), k \in Lock : Obstructs(q, m, r, k)
    BY <1>1
  <2>3. m = Update("member", 0) /\ m.row.table = "member"
    BY <2>1, <2>2, NeedsAt DEF Update
  <2>4. pc[r] = "validateMember"
    BY <1>4, <2>2, <2>3, MemberWaits
  <2>5. PICK t \in Needs(r) : TRUE
    BY <1>1
  <2>6. t = Update("member", 0)
    BY <2>4, <2>5, NeedsAt
  <2>7. Obstructs(r, t, q, h)
    <3>1. l.row = h.row /\ Holds(q, h) /\ r # q
      BY <1>5, <2>2, ObstructionTables DEF Obstructs
    <3>2. l.row.id = 0
      BY <1>5, NeedsMember DEF Obstructs
    <3>3. h.row = t.row
      BY <1>5, <2>6, <3>1, <3>2 DEF Update, Lock, Row
    <3> QED
      BY <2>5, <2>6, <3>1, <3>3 DEF Obstructs, Conflict, Update
  <2> QED
    BY <2>1, <2>2, <2>4, <2>7, WaitsForHeld
<1> SUFFICES ASSUME \A p, q \in S, h \in Lock : \A l :
                      Obstructs(p, l, q, h) => l.row.table # "member"
             PROVE  FALSE
  BY <1>5
\* Without those, everyone waits for someone who wants a row of a later table.
<1> DEFINE Wants(p, n) ==
      \E q \in S, h \in Lock : \E l \in Needs(p) : Obstructs(p, l, q, h) /\ Rank(l.row.table) >= n
<1>6. ASSUME NEW n \in Nat, NEW p \in S, Wants(p, n) PROVE \E q \in S : Wants(q, n + 1)
  <2>1. PICK q \in S, h \in Lock : \E l \in Needs(p) : Obstructs(p, l, q, h) /\ Rank(l.row.table) >= n
    BY <1>6
  <2>2. PICK l \in Needs(p) : Obstructs(p, l, q, h) /\ Rank(l.row.table) >= n
    BY <2>1
  <2>3. PICK r \in S, m \in Needs(q), k \in Lock : Obstructs(q, m, r, k)
    BY <1>1
  <2>4. /\ Kind(h) \in Acquired(pc[q]) /\ Rank(Kind(h)) = Rank(l.row.table)
        /\ m.row.table \in Wanted(pc[q]) /\ m.row.table # "member"
    BY <2>2, <2>3, ObstructionTables
  <2>5. pc[q] \in Step /\ pc[q] \notin {"registerTenant", "retiring", "validateTenant"}
    BY <1>1, <1>3, <1>4
  <2>6. /\ Rank(Kind(h)) \in Nat /\ Rank(m.row.table) \in Nat
        /\ Rank(Kind(h)) < Rank(m.row.table)
    BY <2>4, <2>5, InOrder
  <2>7. Rank(m.row.table) >= n + 1
    BY <2>2, <2>4, <2>6
  <2> QED
    BY <2>3, <2>7
<1>7. ASSUME NEW p \in S PROVE ~Wants(p, 8)
  <2>1. \A table : Rank(table) \in Nat /\ ~(Rank(table) >= 8)
    BY DEF Rank
  <2> QED
    BY <2>1
<1>8. PICK p \in S : TRUE
  OBVIOUS
<1>9. Wants(p, 0)
  BY <1>1 DEF Rank
<1> HIDE DEF Wants
<1>10. \E q \in S : Wants(q, 1)
  BY <1>6, <1>9
<1>11. \E q \in S : Wants(q, 2)
  BY <1>6, <1>10
<1>12. \E q \in S : Wants(q, 3)
  BY <1>6, <1>11
<1>13. \E q \in S : Wants(q, 4)
  BY <1>6, <1>12
<1>14. \E q \in S : Wants(q, 5)
  BY <1>6, <1>13
<1>15. \E q \in S : Wants(q, 6)
  BY <1>6, <1>14
<1>16. \E q \in S : Wants(q, 7)
  BY <1>6, <1>15
<1>17. \E q \in S : Wants(q, 8)
  BY <1>6, <1>16
<1> QED
  BY <1>7, <1>17

\* However many handlers of an address and a tenant wait for each other, a registration is
\* among them that closes the circle with a replacement of invitations, or two invitations
\* are that upgrade their locks of one membership.
THEOREM DeadlocksOnly == Spec => []KnownDeadlocks
<1>1. IInv => KnownDeadlocks
  BY NoOtherCircle
<1> QED
  BY <1>1, Invariant, PTL

-----------------------------------------------------------------------------
(***************************************************************************)
(* Answers.                                                                *)
(***************************************************************************)

\* What AnswersTellMembership says of a handler that returns.
Tells(p) ==
    LET i == arg[p] IN
    /\ pc[p] \in AcceptStep /\ answer'.status = 200 =>
           member'.state = "active" /\ invitations'[i].accepted
    /\ pc[p] \in AcceptStep /\ answer'.status \in {400, 404, 409} =>
           ~(invitations[i].accepted /\ member.state = "active")
    /\ pc[p] \in RegisterStep /\ answer'.status = 201 =>
           member'.state = "active" /\ account' = "person"
    /\ pc[p] \in DecideStep /\ answer'.status = 200 => i \notin Pending'

LEMMA ReturnAnswer ==
    ASSUME NEW p, NEW from, NEW error, Return(p, from, error)
    PROVE  /\ pc[p] = from
           /\ from \in AcceptStep =>
                answer'.status = Status(AcceptExistingInvitationStatus, error)
           /\ from \in RegisterStep =>
                answer'.status = Status(RegisterInvitedUserStatus, error)
           /\ from \in DecideStep => answer'.status = Status(CreatorDecisionStatus, error)
<1>1. pc[p] = from /\ answer' = [op |-> Operation(from),
                                 status |-> Status(Table(Operation(from)), error)]
  BY DEF Return, Responds
<1>2. /\ from \in AcceptStep => Operation(from) = "accept"
      /\ from \in RegisterStep => Operation(from) = "register"
      /\ from \in DecideStep => Operation(from) = "decide"
  BY DEF Operation, InviteStep, ValidateStep, AcceptStep, RegisterStep, DecideStep
<1>3. /\ Table("accept") = AcceptExistingInvitationStatus
      /\ Table("register") = RegisterInvitedUserStatus
      /\ Table("decide") = CreatorDecisionStatus
  BY DEF Table
<1> QED
  BY <1>1, <1>2, <1>3

LEMMA Disjoint ==
    \A step : /\ step \in AcceptStep => step \notin RegisterStep \cup DecideStep
              /\ step \in RegisterStep => step \notin AcceptStep \cup DecideStep
              /\ step \in DecideStep => step \notin AcceptStep \cup RegisterStep
BY DEF AcceptStep, RegisterStep, DecideStep

\* A refusal that no conclusion is drawn from.
LEMMA RefusedTells ==
    ASSUME NEW p, NEW from, NEW error, Return(p, from, error), error # "success",
           from \in AcceptStep => error \in {"session", "mismatch", "existingTeacher", "database"}
    PROVE  Tells(p)
<1>1. Status(RegisterInvitedUserStatus, error) # 201
  BY DEF Status, RegisterInvitedUserStatus
<1>2. Status(CreatorDecisionStatus, error) # 200
  BY DEF Status, CreatorDecisionStatus
<1>3. from \in AcceptStep =>
        Status(AcceptExistingInvitationStatus, error) \notin {200, 400, 404, 409}
  BY DEF Status, AcceptExistingInvitationStatus
<1> QED
  BY <1>1, <1>2, <1>3, ReturnAnswer DEF Tells

LEMMA AcceptTells ==
    ASSUME IInv, NEW p \in Proc, pc[p] \in AcceptStep, pc'[p] = "idle", Accepting(p)
    PROVE  Tells(p)
<1> DEFINE i == arg[p]
<1>1. CASE AcceptUser(p)
  <2>1. PICK error \in {"session", "mismatch", "existingTeacher"} :
          Return(p, "acceptUser", error)
    <3>1. AcceptUserError(p) \in {"session", "existingTeacher", "success"}
      BY DEF AcceptUserError
    <3>2. ~Goto(p, "acceptUser", "acceptTeacher")
      BY DEF Goto, IInv, TypeOK
    <3> QED
      BY <1>1, <3>1, <3>2 DEF AcceptUser, Check, Wait, Finish
  <2> QED
    BY <2>1, RefusedTells
<1>2. CASE AcceptTeacher(p)
  <2>1. Return(p, "acceptTeacher", "existingTeacher")
    BY <1>2 DEF AcceptTeacher, Goto, Finish, IInv, TypeOK
  <2> QED
    BY <2>1, RefusedTells
<1>3. CASE AcceptMember(p)
  <2>1. member.state = "gone" /\ Return(p, "acceptMember", "inactive")
    BY <1>3 DEF AcceptMember, Check, Wait, Goto, Finish, IInv, TypeOK
  <2>2. answer'.status # 200 /\ pc[p] \notin RegisterStep \cup DecideStep
    BY <2>1, ReturnAnswer, Disjoint DEF Status, AcceptExistingInvitationStatus
  <2> QED
    BY <2>1, <2>2 DEF Tells
<1>4. CASE Accept(p)
  <2>1. /\ Return(p, "accepting", "success")
        /\ member' = IF member.state = "absent"
                     THEN [state |-> "active", role |-> invitations[i].role] ELSE member
        /\ invitations' = [invitations EXCEPT ![i] = Acknowledged(i)]
    BY <1>4 DEF Accept
  <2>2. pc[p] = "accepting"
    BY <2>1 DEF Return
  <2>3. i \in 1..Len(invitations) /\ member.state # "gone" /\ member \in Member
    BY <2>2 DEF IInv, Knows, KnowsAccepting, AcceptStep, TypeOK
  <2>4. member'.state = "active"
    BY <2>1, <2>3 DEF Member
  <2>5. Acknowledged(i) \in Invitation /\ Acknowledged(i).accepted
    BY <2>3, RowTypes DEF IInv, Acknowledged, Invitation
  <2>6. invitations'[i].accepted
    BY <2>1, <2>3, <2>5, InvitationsType DEF IInv
  <2>7. answer'.status = 200 /\ pc[p] \notin RegisterStep \cup DecideStep
    BY <2>1, <2>2, ReturnAnswer, Disjoint DEF Status, AcceptExistingInvitationStatus
  <2> QED
    BY <2>4, <2>6, <2>7 DEF Tells
<1>5. CASE AcceptOther(p)
  <2>1. pc[p] = "accepting"
    BY <1>5 DEF AcceptOther
  <2>2. /\ i \in 1..Len(invitations) /\ member.state \in {"absent", "active"}
        /\ invitations[i].accepted => invitations[i].used
        /\ pc[p] \notin RegisterStep \cup DecideStep
    BY <2>1, RowTypes, Disjoint
    DEF IInv, Knows, KnowsAccepting, AcceptStep, TypeOK, Member, Invitation
  <2>3. CASE Finish(p, "accepting", "session")
    BY <2>3, RefusedTells DEF Finish
  <2>4. CASE Repeated(i) /\ Finish(p, "accepting", "success")
    <3>1. member' = member /\ invitations' = invitations /\ answer'.status = 200
      BY <2>1, <2>4, ReturnAnswer
      DEF Finish, people, papers, Status, AcceptExistingInvitationStatus
    <3> QED
      BY <2>2, <2>4, <3>1 DEF Repeated, Tells
  <2>5. CASE ~Repeated(i) /\ Finish(p, "accepting", UnusableError(i))
    <3>1. answer'.status # 200
      BY <2>1, <2>5, ReturnAnswer
      DEF Finish, UnusableError, Status, AcceptExistingInvitationStatus
    <3> QED
      BY <2>2, <2>5, <3>1 DEF Repeated, Tells
  <2> QED
    BY <1>5, <2>3, <2>4, <2>5 DEF AcceptOther
<1>6. ~AcceptFirst(p) /\ ~AcceptSecond(p)
  BY DEF AcceptFirst, AcceptSecond, Wait, Goto, IInv, TypeOK
<1>7. ASSUME NEW n, NEW s PROVE ~AcceptExisting(p, n, s)
  BY DEF AcceptExisting, Start, Goto, AcceptStep
<1> QED
  BY <1>1, <1>2, <1>3, <1>4, <1>5, <1>6, <1>7 DEF Accepting

LEMMA RegisterTells ==
    ASSUME IInv, NEW p \in Proc, pc[p] \in RegisterStep, pc'[p] = "idle", Registering(p)
    PROVE  Tells(p)
<1>1. pc[p] \notin AcceptStep /\ pc[p] \notin DecideStep
  BY Disjoint
<1>2. CASE Register(p)
  BY <1>1, <1>2 DEF Register, Tells
<1>3. CASE RegisterCheck(p) \/ InsertUser(p)
  <2>1. \E error : error # "success" /\ Return(p, pc[p], error)
    BY <1>3 DEF RegisterCheck, InsertUser, Check, Wait, Goto, Finish, IInv, TypeOK
  <2> QED
    BY <1>1, <2>1, RefusedTells
<1>4. ~InsertMember(p)
  BY DEF InsertMember, Wait, Goto, IInv, TypeOK
<1>5. ASSUME NEW n PROVE ~RegisterInvited(p, n)
  BY DEF RegisterInvited, Start, Goto, RegisterStep
<1> QED
  BY <1>2, <1>3, <1>4, <1>5 DEF Registering

LEMMA DecideTells ==
    ASSUME IInv, NEW p \in Proc, pc[p] \in DecideStep, pc'[p] = "idle", Deciding(p)
    PROVE  Tells(p)
<1>1. pc[p] \notin AcceptStep /\ pc[p] \notin RegisterStep
  BY Disjoint
<1>2. CASE Approve(p) \/ (Reject(p) /\ requests' = [requests EXCEPT ![arg[p]].status = "rejected"])
  <2>1. pc[p] \in {"approving", "rejecting"}
    BY <1>2 DEF Approve, Reject, Return, Finish
  <2>2. arg[p] \in 1..Len(requests)
    BY <2>1 DEF IInv, Knows, KnowsDeciding, DecideStep
  <2>3. requests'[arg[p]].status # "pending"
    BY <1>2, <2>2, ApproveWrites, RejectWrites DEF IInv
  <2> QED
    BY <1>1, <2>3 DEF Tells, Pending
<1>3. CASE \E error : error # "success" /\ Return(p, pc[p], error)
  BY <1>1, <1>3, RefusedTells
<1>4. ~DecideTenant(p) /\ ~RequestCreator(p) /\ ~SubmitRequest(p)
  BY DEF DecideTenant, Wait, Goto, RequestCreator, Start, Reply, SubmitRequest, Return, Finish,
         DecideStep, IInv, TypeOK
<1>5. ASSUME NEW n PROVE ~Decide(p, n)
  BY DEF Decide, Start, Goto, DecideStep
<1>6. ASSUME Reject(p), ~(requests' = [requests EXCEPT ![arg[p]].status = "rejected"])
      PROVE  \E error : error # "success" /\ Return(p, pc[p], error)
  BY <1>6 DEF Reject, Finish, Return
<1>7. ASSUME DecideAssignment(p) \/ DecideRequest(p) \/ DecideMember(p)
      PROVE  \E error : error # "success" /\ Return(p, pc[p], error)
  BY <1>7 DEF DecideAssignment, DecideRequest, DecideMember, Check, Wait, Goto, Finish,
              IInv, TypeOK
<1>8. ASSUME DecideUser(p)
      PROVE  \E error : error # "success" /\ Return(p, pc[p], error)
  <2>1. ~Goto(p, "decideUser", IF account # "none" THEN "decideMember" ELSE "approving")
    BY DEF Goto, IInv, TypeOK
  <2> QED
    BY <1>8, <2>1 DEF DecideUser, Finish, Return
<1> QED
  BY <1>2, <1>3, <1>4, <1>5, <1>6, <1>7, <1>8 DEF Deciding

\* A step of another handler leaves this one where it is.
LEMMA OthersStay ==
    ASSUME TypeOK, NEW p \in Proc, NEW q \in Proc \ {p},
           \/ Inviting(q) \/ Accepting(q) \/ Registering(q) \/ Deciding(q) \/ Managing(q)
           \/ Abort(q)
    PROVE  pc'[p] = pc[p]
<1>1. CASE pc' = pc
  BY <1>1
<1>2. ASSUME NEW to, pc' = [pc EXCEPT ![q] = to] PROVE pc'[p] = pc[p]
  BY <1>2 DEF TypeOK
<1>3. ASSUME Inviting(q) \/ Managing(q) \/ Abort(q)
      PROVE  pc' = pc \/ \E to : pc' = [pc EXCEPT ![q] = to]
  BY <1>3, ValidatingSteps
  DEF Inviting, Invite, Start, Goto, Reply, LockTenant, LockInvitation, ReplaceActive, Managing,
      ChangeRole, WriteRole, Abort, Finish, Return
<1>4. ASSUME Accepting(q) PROVE pc' = pc \/ \E to : pc' = [pc EXCEPT ![q] = to]
  BY <1>4 DEF Accepting, AcceptExisting, Start, Goto, AcceptFirst, AcceptSecond, AcceptUser,
              AcceptTeacher, AcceptMember, Accept, AcceptOther, Check, Wait, Finish, Return
<1>5. ASSUME Registering(q) PROVE pc' = pc \/ \E to : pc' = [pc EXCEPT ![q] = to]
  BY <1>5 DEF Registering, RegisterInvited, Start, Goto, RegisterCheck, InsertUser,
              InsertMember, Register, Check, Wait, Finish, Return
<1>6. ASSUME Deciding(q) PROVE pc' = pc \/ \E to : pc' = [pc EXCEPT ![q] = to]
  BY <1>6 DEF Deciding, RequestCreator, Start, Goto, Reply, SubmitRequest, Decide,
              DecideAssignment, DecideRequest, DecideTenant, Check, Wait, Finish, Return,
              DecideUser, DecideMember, Approve, Reject
<1> QED
  BY <1>1, <1>2, <1>3, <1>4, <1>5, <1>6

\* Who does not accept, register or decide tells nothing of it.
LEMMA SilentTells ==
    ASSUME NEW p, pc[p] \notin AcceptStep \cup RegisterStep \cup DecideStep
    PROVE  Tells(p)
BY DEF Tells

LEMMA AnswersStep ==
    ASSUME IInv, [Next]_vars, NEW p \in Proc, pc[p] # "idle", pc'[p] = "idle"
    PROVE  Tells(p)
<1>1. ~UNCHANGED vars /\ ~Environment
  BY DEF vars, Environment, Revoke, Reply, Expire, Verify, Refuse, RemoveMember, CreateAccount,
         TeachElsewhere, ResetPassword, RevokeAdmin
<1>2. \/ Inviting(p) \/ Accepting(p) \/ Registering(p) \/ Deciding(p) \/ Managing(p)
      \/ Abort(p)
  BY <1>1, OthersStay DEF IInv, Next
<1>3. CASE Inviting(p)
  <2>1. pc[p] \in InviteStep
    BY <1>3, ValidatingSteps
    DEF Inviting, Invite, Start, Goto, Reply, LockTenant, LockInvitation, ReplaceActive, Return,
        InviteStep
  <2> QED
    BY <2>1, SilentTells DEF InviteStep, ValidateStep, AcceptStep, RegisterStep, DecideStep
<1>4. CASE Managing(p)
  <2>1. pc[p] = "changingRole"
    BY <1>4 DEF Managing, ChangeRole, Start, Goto, WriteRole, Return
  <2> QED
    BY <2>1, SilentTells DEF AcceptStep, RegisterStep, DecideStep
<1>5. CASE Accepting(p)
  <2>1. pc[p] \in AcceptStep
    BY <1>5 DEF Accepting, AcceptExisting, Start, Goto, AcceptFirst, AcceptSecond, AcceptUser,
                AcceptTeacher, AcceptMember, Accept, AcceptOther, Check, Wait, Finish, Return,
                AcceptStep
  <2> QED
    BY <1>5, <2>1, AcceptTells
<1>6. CASE Registering(p)
  <2>1. pc[p] \in RegisterStep
    BY <1>6 DEF Registering, RegisterInvited, Start, Goto, RegisterCheck, InsertUser,
                InsertMember, Register, Check, Wait, Finish, Return, RegisterStep
  <2> QED
    BY <1>6, <2>1, RegisterTells
<1>7. CASE Deciding(p)
  <2>1. pc[p] \in DecideStep \cup {"requesting"}
    BY <1>7 DEF Deciding, RequestCreator, Start, Goto, Reply, SubmitRequest, Decide,
                DecideAssignment, DecideRequest, DecideTenant, Check, Wait, Finish, Return,
                DecideUser, DecideMember, Approve, Reject, DecideStep
  <2>2. CASE pc[p] = "requesting"
    BY <2>2, SilentTells DEF AcceptStep, RegisterStep, DecideStep
  <2> QED
    BY <1>7, <2>1, <2>2, DecideTells
<1>8. CASE Abort(p)
  <2>1. Return(p, pc[p], "database")
    BY <1>8 DEF Abort, Finish
  <2> QED
    BY <2>1, RefusedTells
<1> QED
  BY <1>2, <1>3, <1>4, <1>5, <1>6, <1>7, <1>8

\* Whatever raced the request, who is told to have joined is a member when told so, an
\* acceptance that has happened is not refused when it is repeated, and a request that is
\* answered as decided no longer waits for a decision.
THEOREM AnswersTell == Spec => AnswersTellMembership
<1>1. IInv /\ [Next]_vars => [\A p \in Proc : pc[p] # "idle" /\ pc'[p] = "idle" => Tells(p)]_vars
  BY AnswersStep
<1>2. AnswersTellMembership <=>
        [][\A p \in Proc : pc[p] # "idle" /\ pc'[p] = "idle" => Tells(p)]_vars
  BY DEF AnswersTellMembership, Tells
<1> QED
  BY <1>1, <1>2, Invariant, PTL DEF Spec

-----------------------------------------------------------------------------
(***************************************************************************)
(* Joining: every step is one of the abstract steps, or none.  What a      *)
(* handler sees at each step, besides what it knows (Knows), is what makes *)
(* the conditions of the abstract step hold when it commits.               *)
(***************************************************************************)

SeesInviting(p) == pc[p] = "retiring" => arg[p] = Len(invitations)

SeesAccepting(p) ==
    pc[p] \in {"acceptTeacher", "acceptMember", "accepting"} => account = "person"

SeesDeciding(p) ==
    /\ pc[p] \in {"decideUser", "decideMember", "approving", "rejecting"} =>
         Holds(p, Share("tenant", 0))
    /\ pc[p] \in {"decideMember", "approving"} =>
         /\ requests[arg[p]].target = target[p]
         /\ target[p] => account = "person"
    /\ pc[p] = "requesting" /\ target[p] => account # "none"

Sees(p) == SeesInviting(p) /\ SeesAccepting(p) /\ SeesDeciding(p)

Stays == UNCHANGED Abstract!vars

LEMMA QuietStays == ASSUME UNCHANGED <<people, papers>> PROVE Stays
BY DEF people, papers, Stays, Abstract!vars

LEMMA Indices ==
    ASSUME TypeOK
    PROVE  /\ DOMAIN invitations = 1..Len(invitations)
           /\ DOMAIN requests = 1..Len(requests)
BY DEF TypeOK

LEMMA ReplaceActiveJoins ==
    ASSUME IInv, NEW p \in Proc, Sees(p), ReplaceActive(p)
    PROVE  Abstract!Invite
<1>1. /\ pc[p] = "retiring" /\ arg[p] = Len(invitations)
      /\ role[p] # "Creator" /\ role[p] \in Role
  BY DEF ReplaceActive, Return, Sees, SeesInviting, IInv, Knows, KnowsInviting, InviteStep, TypeOK
<1> DEFINE old == [i \in 1..Len(invitations) |->
                     IF i <= arg[p] THEN Retired(i) ELSE invitations[i]]
           all == [i \in DOMAIN invitations |-> [invitations[i] EXCEPT !.used = TRUE]]
<1>2. old = all
  BY <1>1, Indices DEF IInv, Retired
<1>3. invitations' = Append(old, NewInvitation(role[p]))
  BY DEF ReplaceActive
<1>4. role[p] \in Abstract!Grantable /\ NewInvitation(role[p]) = Abstract!Sent(role[p])
  BY <1>1 DEF Role, Abstract!Grantable, NewInvitation, Abstract!Sent
<1> HIDE DEF old, all
<1>5. \E r \in Abstract!Grantable : invitations' = Append(all, Abstract!Sent(r))
  BY <1>2, <1>3, <1>4
<1> QED
  BY <1>5 DEF ReplaceActive, Abstract!Invite, people, all

LEMMA AcceptJoins ==
    ASSUME IInv, NEW p \in Proc, Sees(p), Accept(p)
    PROVE  arg[p] \in DOMAIN invitations /\ Abstract!Accept(arg[p])
<1> DEFINE i == arg[p]
<1>1. /\ pc[p] = "accepting" /\ Redeemable(i)
      /\ member' = IF member.state = "absent"
                   THEN [state |-> "active", role |-> invitations[i].role] ELSE member
      /\ invitations' = [invitations EXCEPT ![i] = Acknowledged(i)]
      /\ UNCHANGED <<account, resets, elsewhere, requests, admin>>
  BY DEF Accept, Return
<1>2. /\ i \in DOMAIN invitations
      /\ account = "person"
      /\ invitations[i].role = "Teacher"
      /\ elsewhere \/ Teaches
      /\ member.state # "gone"
  BY <1>1, Indices DEF Sees, SeesAccepting, IInv, Knows, KnowsAccepting, TeachesUnderLock, AcceptStep
<1>3. member.state \in {"absent", "active", "gone"}
  BY DEF IInv, TypeOK, Member
<1>4. invitations' = [invitations EXCEPT ![i].used = TRUE, ![i].accepted = TRUE]
  BY <1>1, <1>2 DEF Acknowledged
<1> QED
  BY <1>1, <1>2, <1>3, <1>4 DEF Abstract!Accept, Abstract!Joins, Teaches, Redeemable

LEMMA RegisterJoins ==
    ASSUME IInv, NEW p \in Proc, Register(p)
    PROVE  arg[p] \in DOMAIN invitations /\ Abstract!Register(arg[p])
<1> DEFINE i == arg[p]
<1>1. /\ pc[p] = "registering" /\ account' = "person"
      /\ member' = [state |-> "active", role |-> invitations[i].role]
      /\ invitations' = [invitations EXCEPT ![i] = Retired(i)]
      /\ UNCHANGED <<resets, elsewhere, requests, admin>>
  BY DEF Register, Return
<1>2. /\ i \in DOMAIN invitations /\ ~invitations[i].used
      /\ Approved(i) /\ account = "none" /\ member.state = "absent"
  BY <1>1, Indices DEF IInv, Knows, KnowsRegistering, RegisterStep, Joined
<1>3. invitations[i].role = "Creator" =>
        \E r \in DOMAIN requests : requests[r].status = "approved" /\ requests[r].invitation = i
  BY <1>2, Indices DEF Approved, IInv
<1> QED
  BY <1>1, <1>2, <1>3 DEF Abstract!Register, Abstract!Joins, Retired

LEMMA SubmitJoins ==
    ASSUME IInv, NEW p \in Proc, Sees(p), SubmitRequest(p)
    PROVE  Stays \/ Abstract!Submit
<1> SUFFICES ASSUME Pending = {} PROVE Abstract!Submit
  BY QuietStays DEF SubmitRequest, Finish
<1>1. \A r \in DOMAIN requests : requests[r].status # "pending"
  BY Indices DEF IInv, Pending
<1>2. target[p] \in BOOLEAN /\ (target[p] => account # "none")
  BY DEF SubmitRequest, Return, Finish, IInv, TypeOK, Sees, SeesDeciding
<1> QED
  BY <1>1, <1>2 DEF SubmitRequest, Abstract!Submit, people

LEMMA ApproveJoins ==
    ASSUME IInv, NEW p \in Proc, Sees(p), Approve(p)
    PROVE  /\ arg[p] \in DOMAIN requests
           /\ Abstract!Promote(arg[p]) \/ Abstract!InviteCreator(arg[p])
<1> DEFINE r == arg[p]
<1>1. pc[p] = "approving" /\ UNCHANGED <<account, resets, elsewhere, admin>>
  BY DEF Approve, Return
<1>2. /\ r \in DOMAIN requests /\ Abstract!Decidable(r)
      /\ requests[r].target = target[p]
      /\ target[p] => account = "person" /\ Promotable
  BY <1>1, Indices DEF IInv, Knows, KnowsDeciding, DecideStep, Sees, SeesDeciding,
                       Abstract!Decidable
<1>3. CASE target[p]
  <2>1. /\ member' = [state |-> "active", role |-> "Creator"]
        /\ requests' = [requests EXCEPT ![r].status = "approved"]
        /\ UNCHANGED invitations
    BY <1>3 DEF Approve
  <2> QED
    BY <1>1, <1>2, <1>3, <2>1 DEF Abstract!Promote, Abstract!Joins, Promotable
<1>4. CASE ~target[p]
  <2>1. /\ invitations' = Append(invitations, Abstract!Sent("Creator"))
        /\ requests' = [requests EXCEPT ![r].status = "approved",
                                        ![r].invitation = Len(invitations) + 1]
        /\ UNCHANGED member
    BY <1>4 DEF Approve, NewInvitation, Abstract!Sent
  <2> QED
    BY <1>1, <1>2, <1>4, <2>1 DEF Abstract!InviteCreator
<1> QED
  BY <1>2, <1>3, <1>4

LEMMA RejectJoins ==
    ASSUME IInv, NEW p \in Proc, Reject(p)
    PROVE  Stays \/ (arg[p] \in DOMAIN requests /\ Abstract!Reject(arg[p]))
<1>1. CASE UNCHANGED <<people, papers>>
  BY <1>1, QuietStays
<1>2. CASE requests' = [requests EXCEPT ![arg[p]].status = "rejected"]
           /\ UNCHANGED <<people, invitations, admin>>
  <2>1. pc[p] = "rejecting"
    BY DEF Reject, Return, Finish
  <2>2. arg[p] \in DOMAIN requests /\ Abstract!Decidable(arg[p])
    BY <2>1, Indices DEF IInv, Knows, KnowsDeciding, DecideStep, Abstract!Decidable
  <2> QED
    BY <1>2, <2>2 DEF Abstract!Reject, people
<1> QED
  BY <1>1, <1>2 DEF Reject, Finish

LEMMA WriteRoleJoins ==
    ASSUME IInv, NEW p \in Proc, WriteRole(p)
    PROVE  Stays \/ Abstract!ChangeRole
<1>1. /\ pc[p] = "changingRole"
      /\ member' = IF member.state = "active" THEN [member EXCEPT !.role = role[p]] ELSE member
      /\ UNCHANGED <<account, resets, elsewhere, invitations, requests, admin>>
  BY DEF WriteRole, Return, papers
<1>2. role[p] \in Abstract!Grantable
  BY <1>1 DEF IInv, Knows, KnowsInviting, TypeOK, Role, Abstract!Grantable
<1> QED
  BY <1>1, <1>2 DEF Stays, Abstract!vars, Abstract!ChangeRole

LEMMA EnvironmentJoins == ASSUME IInv, Environment PROVE Stays \/ Abstract!Next
<1>1. ASSUME NEW i \in 1..Len(invitations), Revoke(i) \/ Expire(i) \/ Verify(i)
      PROVE  Stays \/ Abstract!Revoke(i) \/ Abstract!Expire(i)
  BY <1>1, QuietStays DEF Revoke, Expire, Verify, Reply, Retired, Abstract!Revoke,
                          Abstract!Expire, people
<1>2. Refuse => Stays
  BY QuietStays DEF Refuse
<1>3. RemoveMember => Abstract!Remove
  BY DEF RemoveMember, Abstract!Remove, papers
<1>4. CreateAccount \/ TeachElsewhere \/ ResetPassword \/ RevokeAdmin => Abstract!Elsewhere
  <2>1. (~elsewhere) \in BOOLEAN
    BY DEF IInv, TypeOK
  <2> QED
    BY <2>1 DEF CreateAccount, TeachElsewhere, ResetPassword, RevokeAdmin, Abstract!Elsewhere,
                people, papers
<1> QED
  BY <1>1, <1>2, <1>3, <1>4, Indices DEF Environment, Abstract!Next, IInv

Handler(p) ==
    Inviting(p) \/ Accepting(p) \/ Registering(p) \/ Deciding(p) \/ Managing(p) \/ Abort(p)

LEMMA HandlerJoins ==
    ASSUME IInv, NEW p \in Proc, Sees(p), Handler(p)
    PROVE  Stays \/ Abstract!Next
<1>1. CASE Inviting(p)
  <2>1. ReplaceActive(p) \/ UNCHANGED <<people, papers>>
    BY <1>1, ValidatingSteps DEF Inviting, Invite, Start, Reply, LockTenant, LockInvitation
  <2> QED
    BY <2>1, QuietStays, ReplaceActiveJoins DEF Abstract!Next
<1>2. CASE Accepting(p)
  <2>1. Accept(p) \/ UNCHANGED <<people, papers>>
    BY <1>2 DEF Accepting, AcceptExisting, Start, AcceptFirst, AcceptSecond, AcceptUser,
                AcceptTeacher, AcceptMember, AcceptOther, Check, Wait, Finish
  <2> QED
    BY <2>1, QuietStays, AcceptJoins DEF Abstract!Next
<1>3. CASE Registering(p)
  <2>1. Register(p) \/ UNCHANGED <<people, papers>>
    BY <1>3 DEF Registering, RegisterInvited, Start, RegisterCheck, InsertUser, InsertMember,
                Check, Wait, Finish
  <2> QED
    BY <2>1, QuietStays, RegisterJoins DEF Abstract!Next
<1>4. CASE Deciding(p)
  <2>1. SubmitRequest(p) \/ Approve(p) \/ Reject(p) \/ UNCHANGED <<people, papers>>
    BY <1>4 DEF Deciding, RequestCreator, Start, Reply, Decide, DecideAssignment,
                DecideRequest, DecideTenant, Check, Wait, Finish, DecideUser, DecideMember
  <2> QED
    BY <2>1, QuietStays, SubmitJoins, ApproveJoins, RejectJoins DEF Abstract!Next
<1>5. CASE Managing(p)
  <2>1. WriteRole(p) \/ UNCHANGED <<people, papers>>
    BY <1>5 DEF Managing, ChangeRole, Start
  <2> QED
    BY <2>1, QuietStays, WriteRoleJoins DEF Abstract!Next
<1>6. CASE Abort(p)
  BY <1>6, QuietStays DEF Abort, Finish
<1> QED
  BY <1>1, <1>2, <1>3, <1>4, <1>5, <1>6 DEF Handler

LEMMA StepJoins ==
    ASSUME IInv, \A p \in Proc : Sees(p), [Next]_vars
    PROVE  [Abstract!Next]_(Abstract!vars)
<1>1. UNCHANGED vars => Stays
  BY QuietStays DEF vars
<1> QED
  BY <1>1, EnvironmentJoins, HandlerJoins DEF Next, Handler, Stays

-----------------------------------------------------------------------------
\* What is seen stays so: an account and what a request was submitted for do not change,
\* and no invitation is sent past the lock of the tenant.

LEMMA AbstractKeeps ==
    ASSUME TypeOK, [Abstract!Next]_(Abstract!vars)
    PROVE  /\ account # "none" => account' = account
           /\ \A r \in 1..Len(requests) : requests'[r].target = requests[r].target
<1>1. account # "none" => account' = account
  BY DEF Abstract!Next, Abstract!vars, Abstract!Invite, Abstract!Revoke, Abstract!Expire,
         Abstract!Accept, Abstract!Register, Abstract!Submit, Abstract!Reject,
         Abstract!Promote, Abstract!InviteCreator, Abstract!ChangeRole, Abstract!Remove,
         Abstract!Elsewhere
<1>2. CASE Abstract!Submit
  <2>1. PICK found \in BOOLEAN :
          requests' = Append(requests,
                        [target |-> found, status |-> "pending", invitation |-> 0])
    BY <1>2 DEF Abstract!Submit
  <2> DEFINE e == [target |-> found, status |-> "pending", invitation |-> 0]
  <2>2. e \in Request /\ requests \in Seq(Request)
    BY DEF TypeOK, Request
  <2> HIDE DEF e
  <2>3. \A r \in 1..Len(requests) : requests'[r] = requests[r]
    BY <2>1, <2>2 DEF e
  <2> QED
    BY <1>1, <2>3
<1>3. ASSUME NEW r \in DOMAIN requests,
             Abstract!Reject(r) \/ Abstract!Promote(r) \/ Abstract!InviteCreator(r)
      PROVE  \A s \in 1..Len(requests) : requests'[s].target = requests[s].target
  <2>1. requests \in [1..Len(requests) -> Request]
    BY DEF TypeOK
  <2> QED
    BY <1>3, <2>1 DEF Abstract!Reject, Abstract!Promote, Abstract!InviteCreator, Request
<1>4. \/ requests' = requests
      \/ Abstract!Submit
      \/ \E r \in DOMAIN requests :
            Abstract!Reject(r) \/ Abstract!Promote(r) \/ Abstract!InviteCreator(r)
  BY DEF Abstract!Next, Abstract!vars, Abstract!Invite, Abstract!Revoke, Abstract!Expire,
         Abstract!Accept, Abstract!Register, Abstract!ChangeRole, Abstract!Remove,
         Abstract!Elsewhere
<1> QED
  BY <1>1, <1>2, <1>3, <1>4

\* Only a replacement and an approval send an invitation.
LEMMA Senders ==
    ASSUME IInv, NEW p \in Proc, Handler(p)
    PROVE  Len(invitations') = Len(invitations) \/ ReplaceActive(p) \/ Approve(p)
<1> SUFFICES ASSUME invitations' # invitations
             PROVE  Len(invitations') = Len(invitations) \/ ReplaceActive(p) \/ Approve(p)
  OBVIOUS
<1>1. CASE Accept(p)
  <2>1. pc[p] = "accepting" /\ invitations' = [invitations EXCEPT ![arg[p]] = Acknowledged(arg[p])]
    BY <1>1 DEF Accept, Return
  <2>2. arg[p] \in 1..Len(invitations)
    BY <2>1 DEF IInv, Knows, KnowsAccepting, AcceptStep
  <2> QED
    BY <2>1, <2>2, RowTypes, InvitationsType DEF IInv
<1>2. CASE Register(p)
  <2>1. pc[p] = "registering" /\ invitations' = [invitations EXCEPT ![arg[p]] = Retired(arg[p])]
    BY <1>2 DEF Register, Return
  <2>2. arg[p] \in 1..Len(invitations)
    BY <2>1 DEF IInv, Knows, KnowsRegistering, RegisterStep
  <2> QED
    BY <2>1, <2>2, RowTypes, InvitationsType DEF IInv
<1>3. Inviting(p) => ReplaceActive(p)
  BY ValidatingSteps DEF Inviting, Invite, Start, Reply, LockTenant, LockInvitation, papers
<1>4. Accepting(p) => Accept(p)
  BY DEF Accepting, AcceptExisting, Start, AcceptFirst, AcceptSecond, AcceptUser,
         AcceptTeacher, AcceptMember, AcceptOther, Check, Wait, Finish, papers
<1>5. Registering(p) => Register(p)
  BY DEF Registering, RegisterInvited, Start, RegisterCheck, InsertUser, InsertMember,
         Check, Wait, Finish, papers
<1>6. Deciding(p) => Approve(p)
  BY DEF Deciding, RequestCreator, Start, Reply, SubmitRequest, Decide, DecideAssignment,
         DecideRequest, DecideTenant, Check, Wait, Finish, DecideUser, DecideMember, Reject, papers
<1>7. ~Managing(p) /\ ~Abort(p)
  BY DEF Managing, ChangeRole, Start, WriteRole, Abort, Finish, papers
<1> QED
  BY <1>1, <1>2, <1>3, <1>4, <1>5, <1>6, <1>7 DEF Handler

\* What a step of p does to the variables of handlers.
LEMMA HandlerFrame ==
    ASSUME TypeOK, NEW p \in Proc, Handler(p)
    PROVE  \A q \in Proc \ {p} : SameLocals(q)
<1> DEFINE Mine(f, g) == g = f \/ \E v : g = [f EXCEPT ![p] = v]
           Frame == /\ Mine(pc, pc') /\ Mine(arg, arg') /\ Mine(role, role')
                    /\ Mine(session, session') /\ Mine(target, target')
                    /\ \/ UNCHANGED locks
                       \/ \E ls : Take(p, ls)
                       \/ locks' = {h \in locks : h.proc # p}
<1>1. ASSUME Frame PROVE \A q \in Proc \ {p} : SameLocals(q)
  <2>1. \A q \in Proc \ {p} : /\ pc'[q] = pc[q] /\ arg'[q] = arg[q] /\ role'[q] = role[q]
                              /\ session'[q] = session[q] /\ target'[q] = target[q]
    BY <1>1 DEF TypeOK
  <2>2. \A q \in Proc \ {p} : \A l :
            [proc |-> q, lock |-> l] \in locks' <=> [proc |-> q, lock |-> l] \in locks
    BY <1>1, TakeFrame
  <2> QED
    BY <2>1, <2>2 DEF SameLocals
<1>2. ASSUME NEW from, NEW error, Return(p, from, error) PROVE Frame
  BY <1>2 DEF Return
<1>3. ASSUME NEW from, NEW to, Wait(p, from, to) PROVE Frame
  BY <1>3 DEF Wait, Goto, local
<1>4. ASSUME NEW to, Start(p, to), Mine(arg, arg'), Mine(role, role'), Mine(session, session'),
             Mine(target, target')
      PROVE  Frame
  BY <1>4 DEF Start, Goto
<1>5. ASSUME NEW op, NEW error, Reply(op, error) PROVE Frame
  BY <1>5 DEF Reply, local
<1>6. ASSUME Inviting(p) PROVE Frame
  <2>1. ASSUME NEW r \in Role, Invite(p, r) PROVE Frame
    <3> HIDE DEF Frame
    <3> QED BY <1>4, <1>5, <2>1 DEF Invite
  <2>2. LockTenant(p) => Frame
    BY DEF LockTenant, Goto
  <2>3. LockInvitation(p) => Frame
    BY DEF LockInvitation, local
  <2>4. ReplaceActive(p) => Frame
    <3> HIDE DEF Frame
    <3> QED BY <1>2 DEF ReplaceActive
  <2>5. Validating(p) => Frame
    <3>1. ASSUME NEW error, Finish(p, pc[p], error) PROVE Frame
      <4> HIDE DEF Frame
      <4> QED BY <1>2, <3>1 DEF Finish
    <3>2. ASSUME NEW to, pc' = [pc EXCEPT ![p] = to], UNCHANGED local,
                 (\E ls : Take(p, ls)) \/ locks' = {h \in locks : h.proc # p}
          PROVE  Frame
      BY <3>2 DEF local
    <3> HIDE DEF Frame
    <3> QED BY <3>1, <3>2, ValidatingSteps
  <2> HIDE DEF Frame
  <2> QED
    BY <1>6, <2>1, <2>2, <2>3, <2>4, <2>5 DEF Inviting
<1>7. ASSUME Accepting(p) PROVE Frame
  <2>1. ASSUME NEW i \in 1..Len(invitations), NEW s \in 0..resets, AcceptExisting(p, i, s)
        PROVE  Frame
    <3> HIDE DEF Frame
    <3> QED BY <1>4, <2>1 DEF AcceptExisting
  <2>2. AcceptTeacher(p) => Frame
    <3>1. CASE Goto(p, "acceptTeacher", "acceptMember") /\ (\E l \in Needs(p) : Take(p, {l}))
               /\ UNCHANGED local
      BY <3>1 DEF Goto, local
    <3> HIDE DEF Frame
    <3> QED BY <1>2, <3>1 DEF AcceptTeacher, Finish
  <2> HIDE DEF Frame
  <2> QED
    BY <1>2, <1>3, <1>7, <2>1, <2>2 DEF Accepting, AcceptFirst, AcceptSecond, AcceptUser,
       AcceptMember, Accept, AcceptOther, Check, Finish
<1>8. ASSUME Registering(p) PROVE Frame
  <2>1. ASSUME NEW i \in 1..Len(invitations), RegisterInvited(p, i) PROVE Frame
    <3> HIDE DEF Frame
    <3> QED BY <1>4, <2>1 DEF RegisterInvited
  <2> HIDE DEF Frame
  <2> QED
    BY <1>2, <1>3, <1>8, <2>1 DEF Registering, RegisterCheck, InsertUser, InsertMember, Register,
       Check, Finish
<1>9. ASSUME Deciding(p) PROVE Frame
  <2>1. RequestCreator(p) \/ (\E r \in 1..Len(requests) : Decide(p, r)) => Frame
    <3> HIDE DEF Frame
    <3> QED BY <1>4, <1>5 DEF RequestCreator, Decide
  <2>2. DecideUser(p) => Frame
    <3>1. ASSUME NEW to, Goto(p, "decideUser", to), Take(p, Needs(p)),
                 target' = [target EXCEPT ![p] = account # "none"], UNCHANGED <<arg, role, session>>
          PROVE  Frame
      BY <3>1 DEF Goto
    <3> HIDE DEF Frame
    <3> QED BY <1>2, <3>1 DEF DecideUser, Finish
  <2> HIDE DEF Frame
  <2> QED
    BY <1>2, <1>3, <1>9, <2>1, <2>2 DEF Deciding, SubmitRequest, DecideAssignment,
       DecideRequest, DecideTenant, DecideMember, Approve, Reject, Check, Finish
<1>10. ASSUME Managing(p) PROVE Frame
  <2>1. ASSUME NEW r \in Role, ChangeRole(p, r) PROVE Frame
    <3> HIDE DEF Frame
    <3> QED BY <1>4, <2>1 DEF ChangeRole
  <2> HIDE DEF Frame
  <2> QED
    BY <1>2, <1>10, <2>1 DEF Managing, WriteRole
<1>11. ASSUME Abort(p) PROVE Frame
  <2> HIDE DEF Frame
  <2> QED BY <1>2, <1>11 DEF Abort, Finish
<1> HIDE DEF Frame
<1> QED
  BY <1>1, <1>6, <1>7, <1>8, <1>9, <1>10, <1>11 DEF Handler

-----------------------------------------------------------------------------

\* A handler that does not take the step sees what it saw.
LEMMA SeesStable ==
    ASSUME IInv, IInv', NEW q \in Proc, Sees(q), SameLocals(q),
           account # "none" => account' = account,
           \A r \in 1..Len(requests) : requests'[r].target = requests[r].target,
           pc[q] = "retiring" => Len(invitations') = Len(invitations)
    PROVE  Sees(q)'
<1>1. /\ pc'[q] = pc[q] /\ arg'[q] = arg[q] /\ target'[q] = target[q]
      /\ \A l : Holds(q, l)' <=> Holds(q, l)
  BY SameHolds DEF SameLocals
<1>2. SeesInviting(q)'
  BY <1>1 DEF Sees, SeesInviting
<1>3. SeesAccepting(q)'
  BY <1>1 DEF Sees, SeesAccepting
<1>4. pc[q] \in DecideStep => arg[q] \in 1..Len(requests)
  BY DEF IInv, Knows, KnowsDeciding
<1>5. SeesDeciding(q)'
  <2>1. Holds(q, Share("tenant", 0))' <=> Holds(q, Share("tenant", 0))
    BY <1>1 DEF Holds, Share
  <2> QED
    BY <1>1, <1>4, <2>1 DEF Sees, SeesDeciding, DecideStep
<1> QED
  BY <1>2, <1>3, <1>5 DEF Sees

LEMMA SeesNothing ==
    ASSUME NEW p, pc[p] \notin {"retiring", "acceptTeacher", "acceptMember", "accepting",
                                "decideUser", "decideMember", "approving", "rejecting",
                                "requesting"}
    PROVE  Sees(p)
BY DEF Sees, SeesInviting, SeesAccepting, SeesDeciding

\* Where a step of p leaves it.
LEMMA ReturnSees ==
    ASSUME TypeOK, NEW p \in Proc, NEW from, NEW error, Return(p, from, error)
    PROVE  Sees(p)'
<1>1. pc'[p] = "idle"
  BY DEF Return, TypeOK
<1> QED
  BY <1>1 DEF Sees, SeesInviting, SeesAccepting, SeesDeciding

LEMMA WaitSees ==
    ASSUME TypeOK, NEW p \in Proc, NEW from, NEW to, Wait(p, from, to)
    PROVE  /\ pc[p] = from /\ pc'[p] = to
           /\ arg'[p] = arg[p] /\ target'[p] = target[p]
           /\ account' = account /\ requests' = requests /\ invitations' = invitations
           /\ \A l : Holds(p, l)' <=> Holds(p, l) \/ l \in Needs(p)
BY TakeLocks DEF Wait, Goto, TypeOK, people, papers, local

LEMMA InvitingSees ==
    ASSUME IInv, NEW p \in Proc, Sees(p), Inviting(p)
    PROVE  Sees(p)'
<1>1. ASSUME NEW r \in Role, Invite(p, r) PROVE Sees(p)'
  <2>1. CASE Start(p, IF account = "none" THEN "inviting" ELSE "validateUser")
    <3>1. pc'[p] \in {"inviting", "validateUser"}
      BY <2>1 DEF Start, Goto, IInv, TypeOK
    <3> QED
      BY <3>1 DEF Sees, SeesInviting, SeesAccepting, SeesDeciding
  <2>2. CASE \E error : Reply("invite", error)
    BY <2>2 DEF Reply, Sees, SeesInviting, SeesAccepting, SeesDeciding, people, papers, local,
                Holds, Share
  <2> QED
    BY <1>1, <2>1, <2>2 DEF Invite
<1>2. CASE LockTenant(p)
  <2>1. pc'[p] = "retiring" /\ arg'[p] = Len(invitations) /\ invitations' = invitations
    BY <1>2 DEF LockTenant, Goto, IInv, TypeOK, papers
  <2> QED
    BY <2>1 DEF Sees, SeesInviting, SeesAccepting, SeesDeciding
<1>3. CASE LockInvitation(p)
  <2>1. pc[p] = "retiring" /\ pc'[p] = "retiring" /\ arg' = arg /\ invitations' = invitations
    BY <1>3 DEF LockInvitation, papers, local
  <2> QED
    BY <2>1 DEF Sees, SeesInviting, SeesAccepting, SeesDeciding
<1>4. CASE ReplaceActive(p)
  BY <1>4, ReturnSees DEF ReplaceActive, IInv
<1>5. CASE Validating(p)
  <2>1. CASE \E error : Finish(p, pc[p], error)
    BY <2>1, ReturnSees DEF Finish, IInv
  <2>2. CASE \E to \in ValidateStep \cup {"inviting"} : pc' = [pc EXCEPT ![p] = to]
    <3>1. pc'[p] \in ValidateStep \cup {"inviting"}
      BY <2>2 DEF IInv, TypeOK
    <3> QED
      BY <3>1 DEF Sees, SeesInviting, SeesAccepting, SeesDeciding, ValidateStep
  <2> QED
    BY <1>5, <2>1, <2>2, ValidatingSteps
<1> QED
  BY <1>1, <1>2, <1>3, <1>4, <1>5 DEF Inviting

LEMMA AcceptingSees ==
    ASSUME IInv, NEW p \in Proc, Sees(p), Accepting(p)
    PROVE  Sees(p)'
<1>1. ASSUME NEW i \in 1..Len(invitations), NEW s \in 0..resets, AcceptExisting(p, i, s)
      PROVE  Sees(p)'
  <2>1. pc'[p] = "acceptFirst"
    BY <1>1 DEF AcceptExisting, Start, Goto, IInv, TypeOK
  <2> QED
    BY <2>1 DEF Sees, SeesInviting, SeesAccepting, SeesDeciding
<1>2. CASE AcceptFirst(p) \/ AcceptSecond(p)
  <2>1. pc'[p] \in {"acceptSecond", "acceptUser"}
    BY <1>2, WaitSees DEF AcceptFirst, AcceptSecond, IInv
  <2> QED
    BY <2>1 DEF Sees, SeesInviting, SeesAccepting, SeesDeciding
<1>3. CASE AcceptUser(p)
  <2>1. CASE \E error : Finish(p, "acceptUser", error)
    BY <2>1, ReturnSees DEF Finish, IInv
  <2>2. CASE account # "none" /\ AcceptUserError(p) = "success"
             /\ Wait(p, "acceptUser", "acceptTeacher")
    <3>1. account = "person"
      BY <2>2 DEF AcceptUserError, IInv, TypeOK
    <3> QED
      BY <2>2, <3>1, WaitSees DEF IInv, Sees, SeesInviting, SeesAccepting, SeesDeciding
  <2> QED
    BY <1>3, <2>1, <2>2 DEF AcceptUser, Check
<1>4. CASE AcceptTeacher(p)
  <2>1. CASE Goto(p, "acceptTeacher", "acceptMember") /\ UNCHANGED people
    <3>1. pc[p] = "acceptTeacher" /\ pc'[p] = "acceptMember" /\ account' = account
      BY <2>1 DEF Goto, IInv, TypeOK, people
    <3> QED
      BY <3>1 DEF Sees, SeesInviting, SeesAccepting, SeesDeciding
  <2>2. CASE Finish(p, "acceptTeacher", "existingTeacher")
    BY <2>2, ReturnSees DEF Finish, IInv
  <2> QED
    BY <1>4, <2>1, <2>2 DEF AcceptTeacher
<1>5. CASE AcceptMember(p)
  <2>1. CASE \E error : Finish(p, "acceptMember", error)
    BY <2>1, ReturnSees DEF Finish, IInv
  <2>2. CASE Wait(p, "acceptMember", "accepting")
    BY <2>2, WaitSees DEF IInv, Sees, SeesInviting, SeesAccepting, SeesDeciding
  <2> QED
    BY <1>5, <2>1, <2>2 DEF AcceptMember, Check
<1>6. CASE Accept(p) \/ AcceptOther(p)
  BY <1>6, ReturnSees DEF Accept, AcceptOther, Finish, IInv
<1> QED
  BY <1>1, <1>2, <1>3, <1>4, <1>5, <1>6 DEF Accepting

LEMMA RegisteringSees ==
    ASSUME IInv, NEW p \in Proc, Registering(p)
    PROVE  Sees(p)'
<1>1. pc'[p] \in {"idle", "register", "registerEmail", "registerTenant", "registering"}
  BY DEF Registering, RegisterInvited, Start, Goto, RegisterCheck, InsertUser, InsertMember,
         Register, Check, Wait, Finish, Return, IInv, TypeOK
<1> QED
  BY <1>1 DEF Sees, SeesInviting, SeesAccepting, SeesDeciding

LEMMA DecidingSees ==
    ASSUME IInv, NEW p \in Proc, Sees(p), Deciding(p)
    PROVE  Sees(p)'
<1>1. CASE RequestCreator(p)
  <2>1. CASE Start(p, "requesting") /\ target' = [target EXCEPT ![p] = account # "none"]
    <3>1. pc'[p] = "requesting" /\ account' = account /\ (target'[p] => account # "none")
      BY <2>1 DEF Start, Goto, IInv, TypeOK, people
    <3> QED
      BY <3>1 DEF Sees, SeesInviting, SeesAccepting, SeesDeciding
  <2>2. CASE Reply("request", "alreadyCreator")
    BY <2>2 DEF Reply, Sees, SeesInviting, SeesAccepting, SeesDeciding, people, papers, local,
                Holds, Share
  <2> QED
    BY <1>1, <2>1, <2>2 DEF RequestCreator
<1>2. ASSUME NEW r \in 1..Len(requests), Decide(p, r) PROVE Sees(p)'
  <2>1. pc'[p] = "decide"
    BY <1>2 DEF Decide, Start, Goto, IInv, TypeOK
  <2> QED
    BY <2>1 DEF Sees, SeesInviting, SeesAccepting, SeesDeciding
<1>3. ASSUME NEW from, NEW error, Finish(p, from, error) PROVE Sees(p)'
  BY <1>3, ReturnSees DEF Finish, IInv
<1>4. ASSUME NEW to, Wait(p, "decideTenant", to), to \in {"decideUser", "rejecting"}
      PROVE  Sees(p)'
  <2>1. pc[p] = "decideTenant" /\ pc'[p] = to /\ Holds(p, Share("tenant", 0))'
    BY <1>4, WaitSees, NeedsAtEnd DEF IInv
  <2> QED
    BY <1>4, <2>1 DEF Sees, SeesInviting, SeesAccepting, SeesDeciding, Holds, Share
<1>5. CASE DecideAssignment(p) \/ DecideRequest(p)
  <2>1. ASSUME NEW from, NEW to, Wait(p, from, to), to \in {"decideRequest", "decideTenant"}
        PROVE  Sees(p)'
    <3>1. pc'[p] = to
      BY <2>1, WaitSees DEF IInv
    <3> QED
      BY <2>1, <3>1 DEF Sees, SeesInviting, SeesAccepting, SeesDeciding
  <2> QED
    BY <1>3, <1>5, <2>1 DEF DecideAssignment, DecideRequest, Check
<1>6. CASE DecideUser(p)
  <2> DEFINE found == account # "none"
             to == IF found THEN "decideMember" ELSE "approving"
  <2>1. CASE ~(requests[arg[p]].target # found \/ account = "parent")
             /\ pc[p] = "decideUser" /\ Goto(p, "decideUser", to) /\ Take(p, Needs(p))
             /\ target' = [target EXCEPT ![p] = found]
             /\ UNCHANGED <<people, papers, arg>>
    <3>1. /\ pc'[p] \in {"decideMember", "approving"} /\ target'[p] = found
          /\ arg' = arg /\ account' = account /\ requests' = requests
      BY <2>1 DEF Goto, IInv, TypeOK, people, papers
    <3>2. Holds(p, Share("tenant", 0))'
      BY <2>1, TakeLocks DEF Sees, SeesDeciding
    <3>3. found => account = "person"
      BY <2>1 DEF IInv, TypeOK
    <3> QED
      BY <2>1, <3>1, <3>2, <3>3 DEF Sees, SeesInviting, SeesAccepting, SeesDeciding, Holds, Share
  <2>2. CASE Finish(p, "decideUser", "stale")
    BY <1>3, <2>2
  <2> QED
    BY <1>6, <2>1, <2>2 DEF DecideUser
<1>7. CASE DecideMember(p)
  <2>1. CASE Wait(p, "decideMember", "approving")
    <3>1. /\ pc[p] = "decideMember" /\ pc'[p] = "approving"
          /\ arg'[p] = arg[p] /\ target'[p] = target[p]
          /\ account' = account /\ requests' = requests
          /\ Holds(p, Share("tenant", 0)) => Holds(p, Share("tenant", 0))'
      BY <2>1, WaitSees DEF IInv
    <3> QED
      BY <3>1 DEF Sees, SeesInviting, SeesAccepting, SeesDeciding, Holds, Share
  <2> QED
    BY <1>3, <1>7, <2>1 DEF DecideMember, Check
<1>8. CASE SubmitRequest(p) \/ Approve(p) \/ Reject(p)
  BY <1>8, ReturnSees DEF SubmitRequest, Approve, Reject, Finish, IInv
<1> QED
  BY <1>1, <1>2, <1>4, <1>5, <1>6, <1>7, <1>8 DEF Deciding, DecideTenant

LEMMA HandlerSees ==
    ASSUME IInv, NEW p \in Proc, Sees(p), Handler(p)
    PROVE  Sees(p)'
<1>1. CASE Managing(p)
  <2>1. pc'[p] \in {"idle", "changingRole"}
    BY <1>1 DEF Managing, ChangeRole, Start, Goto, WriteRole, Return, IInv, TypeOK
  <2> QED
    BY <2>1 DEF Sees, SeesInviting, SeesAccepting, SeesDeciding
<1>2. CASE Abort(p)
  BY <1>2, ReturnSees DEF Abort, Finish, IInv
<1> QED
  BY <1>1, <1>2, InvitingSees, AcceptingSees, RegisteringSees, DecidingSees DEF Handler

\* Nobody sends an invitation while another handler, having locked the tenant, retires those
\* it found.
LEMMA NoneSent ==
    ASSUME IInv, NEW p \in Proc, Sees(p), Handler(p), NEW q \in Proc \ {p}, pc[q] = "retiring"
    PROVE  Len(invitations') = Len(invitations)
<1>1. Holds(q, Update("tenant", 0))
  BY DEF IInv, Knows, KnowsInviting
<1>2. ~Holds(p, Update("tenant", 0)) /\ ~Holds(p, Share("tenant", 0))
  <2>1. Update("tenant", 0) \in Lock /\ Share("tenant", 0) \in Lock
    BY LockNames DEF RowName
  <2> QED
    BY <1>1, <2>1, HeldTwice, UpdateExcludes DEF IInv
<1>3. ~ReplaceActive(p)
  BY <1>2 DEF ReplaceActive, Return, IInv, Knows, KnowsInviting
<1>4. ~Approve(p)
  BY <1>2 DEF Approve, Return, Sees, SeesDeciding
<1> QED
  BY <1>3, <1>4, Senders

LEMMA OutsideFrame ==
    ASSUME IInv, Environment \/ UNCHANGED vars
    PROVE  Len(invitations') = Len(invitations) /\ \A q \in Proc : SameLocals(q)
<1>1. UNCHANGED <<locks, pc, local>>
  BY DEF Environment, Revoke, Expire, Verify, Refuse, Reply, RemoveMember, CreateAccount,
         TeachElsewhere, ResetPassword, RevokeAdmin, vars
<1>2. \A q \in Proc : SameLocals(q)
  BY <1>1 DEF local, SameLocals
<1>3. CASE UNCHANGED invitations
  BY <1>2, <1>3
<1>4. CASE \E i \in 1..Len(invitations) : Revoke(i) \/ Expire(i)
  <2>1. PICK i \in 1..Len(invitations) : Revoke(i) \/ Expire(i)
    BY <1>4
  <2>2. UNCHANGED invitations \/ \E e : invitations' = [invitations EXCEPT ![i] = e]
    BY <2>1 DEF Revoke, Expire, Reply, papers
  <2>3. Len(invitations') = Len(invitations)
    BY <2>2 DEF IInv, TypeOK
  <2> QED
    BY <1>2, <2>3
<1> QED
  BY <1>3, <1>4 DEF Environment, Verify, Refuse, Reply, RemoveMember, CreateAccount,
     TeachElsewhere, ResetPassword, RevokeAdmin, vars, papers

SeesAll == \A p \in Proc : Sees(p)

LEMMA SeesStep == IInv /\ IInv' /\ SeesAll /\ [Next]_vars => SeesAll'
<1> SUFFICES ASSUME IInv, IInv', SeesAll, [Next]_vars PROVE SeesAll'
  OBVIOUS
<1>1. /\ account # "none" => account' = account
      /\ \A r \in 1..Len(requests) : requests'[r].target = requests[r].target
  BY StepJoins, AbstractKeeps DEF SeesAll, IInv
<1>2. ASSUME NEW p \in Proc, Handler(p) PROVE SeesAll'
  <2>1. Sees(p)'
    BY <1>2, HandlerSees DEF SeesAll
  <2>2. ASSUME NEW q \in Proc \ {p} PROVE Sees(q)'
    <3>1. SameLocals(q)
      BY <1>2, HandlerFrame DEF IInv
    <3>2. pc[q] = "retiring" => Len(invitations') = Len(invitations)
      BY <1>2, NoneSent DEF SeesAll
    <3> QED
      BY <1>1, <3>1, <3>2, SeesStable DEF SeesAll
  <2> QED
    BY <2>1, <2>2 DEF SeesAll
<1>3. CASE Environment \/ UNCHANGED vars
  BY <1>1, <1>3, OutsideFrame, SeesStable DEF SeesAll
<1> QED
  BY <1>2, <1>3 DEF Next, Handler

LEMMA InitJoins == Init => SeesAll /\ Abstract!Init
<1>1. Init => Abstract!Init
  BY DEF Init, Abstract!Init, NoMember, NewInvitation, Abstract!Sent
<1>2. Init => SeesAll
  BY DEF Init, SeesAll, Sees, SeesInviting, SeesAccepting, SeesDeciding
<1> QED
  BY <1>1, <1>2

LEMMA SeesAlways == Spec => []SeesAll
BY InitJoins, SeesStep, Invariant, PTL DEF Spec

\* However invitations, acceptances, registrations, decisions, role changes and removals
\* interleave, each happens to the rows of an address and a tenant in one instant, and only
\* if these rows allow it at that instant.
THEOREM InOneInstant == Spec => ImplementsJoining
<1>1. IInv /\ SeesAll /\ [Next]_vars => [Abstract!Next]_(Abstract!vars)
  BY StepJoins DEF SeesAll
<1> QED
  BY <1>1, InitJoins, Invariant, SeesAlways, PTL DEF Spec, ImplementsJoining, Abstract!Spec
=============================================================================
