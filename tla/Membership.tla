----------------------------- MODULE Membership -----------------------------
(***************************************************************************)
(* How one email address becomes a member of one tenant: invitations by    *)
(* the tenant's members, requests for a Creator decided by the platform,   *)
(* and the role changes and removals that race them.                       *)
(*                                                                         *)
(* Invitations, requests and the membership row of an address and a tenant *)
(* are only ever read together with that tenant and that account, so one   *)
(* of each is modelled.  Transactions differ in the rows they lock, the    *)
(* strength and the order, so PostgreSQL's row locks are modelled as such: *)
(* a handler is one step per lock it waits for, and one that commits and   *)
(* answers.                                                                *)
(***************************************************************************)
EXTENDS Naturals, Sequences, FiniteSets, HandlerStatus

CONSTANTS
    Proc,             \* request goroutines
    Custom,           \* roles other than the system's Teacher and Creator
    MaxInvitations,   \* bound: invitations
    MaxRequests,      \* bound: creator requests
    MaxResets         \* bound: password resets

ASSUME MembershipAssumption ==
    /\ "Teacher" \notin Custom /\ "Creator" \notin Custom
    /\ MaxInvitations \in Nat
    /\ MaxRequests \in Nat
    /\ MaxResets \in Nat

VARIABLES
    account,       \* the users row of the address
    resets,        \* password resets of that account
    elsewhere,     \* is it a live Teacher of some other tenant?
    member,        \* its tenant_members row in this tenant
    invitations,   \* tenant_invitations rows of the address in this tenant
    requests,      \* creator_requests rows of the address in this tenant
    admin,         \* is the deciding platform administrator's assignment active?
    locks,         \* row locks held
    pc,            \* where each process is in its handler
    arg,           \* the invitation or request it works on; of ReplaceActive, the last
                   \* invitation its UPDATE can see
    role,          \* the role it grants
    session,       \* resets committed when its session was signed
    target,        \* was an account found when its request was looked up?
    answer,        \* the answer the last step gave, read by no action
    \* history, read by no action
    redemptions    \* redemptions of each invitation

people == <<account, resets, elsewhere, member>>
papers == <<invitations, requests, admin>>
local == <<arg, role, session, target>>
vars == <<people, papers, locks, pc, local, answer, redemptions>>

-----------------------------------------------------------------------------

Role == {"Teacher", "Creator"} \cup Custom
Grantable == Role \ {"Creator"}

\* A membership that was deactivated or soft-deleted is "gone".
Member == [state: {"absent", "active", "gone"}, role: Role]
NoMember == [state |-> "absent", role |-> "Teacher"]

\* accepted: accepted_member_id is set, by an acceptance.  An account has one membership
\* row per tenant, so it names that row.
Invitation ==
    {i \in [role: Role, used: BOOLEAN, expired: BOOLEAN, accepted: BOOLEAN] :
       i.accepted => i.used}

\* target: was target_user_id known at submission?  invitation: 0 for NULL
Request ==
    [target: BOOLEAN, status: {"pending", "approved", "rejected"}, invitation: Nat]

RowName == {"tenant", "user", "elsewhere", "member", "invitation", "request", "admin"}
Row == [table: RowName, id: Nat]
Mode == {"keyShare", "share", "update"}
Lock == [row: Row, mode: Mode]

ValidateStep == {"validateUser", "validateTeacher", "validateTenant", "validateMember"}
InviteStep == ValidateStep \cup {"inviting", "retiring"}
AcceptStep == {"acceptFirst", "acceptSecond", "acceptUser", "acceptTeacher", "acceptMember",
               "accepting"}
RegisterStep == {"register", "registerEmail", "registerTenant", "registering"}
DecideStep == {"decide", "decideRequest", "decideTenant", "decideUser", "decideMember",
               "approving", "rejecting"}

Step == InviteStep \cup AcceptStep \cup RegisterStep \cup DecideStep
            \cup {"idle", "requesting", "changingRole"}

NoAnswer == [op |-> "none", status |-> 0]

TypeOK ==
    /\ account \in {"none", "parent", "person"}
    /\ resets \in Nat
    /\ elsewhere \in BOOLEAN
    /\ member \in Member
    /\ invitations \in Seq(Invitation)
    /\ requests \in Seq(Request)
    /\ admin \in BOOLEAN
    /\ locks \in SUBSET [proc: Proc, lock: Lock]
    /\ pc \in [Proc -> Step]
    /\ arg \in [Proc -> Nat]
    /\ role \in [Proc -> Role]
    /\ session \in [Proc -> Nat]
    /\ target \in [Proc -> BOOLEAN]
    /\ answer.status \in Nat
    /\ redemptions \in [1..MaxInvitations -> Nat]

NewInvitation(r) == [role |-> r, used |-> FALSE, expired |-> FALSE, accepted |-> FALSE]

\* "Legacy invitations may predate the Creator grant guard."
Init ==
    /\ account \in {"none", "parent", "person"}
    /\ resets = 0
    /\ elsewhere = FALSE
    /\ member = NoMember
    /\ invitations \in {<<>>, <<NewInvitation("Creator")>>}
    /\ requests = <<>>
    /\ admin = TRUE
    /\ locks = {}
    /\ pc = [p \in Proc |-> "idle"]
    /\ arg = [p \in Proc |-> 0]
    /\ role = [p \in Proc |-> "Teacher"]
    /\ session = [p \in Proc |-> 0]
    /\ target = [p \in Proc |-> FALSE]
    /\ answer = NoAnswer
    /\ redemptions = [i \in 1..MaxInvitations |-> 0]

-----------------------------------------------------------------------------
\* Row locks.

KeyShare(table, id) == [row |-> [table |-> table, id |-> id], mode |-> "keyShare"]
Share(table, id) == [row |-> [table |-> table, id |-> id], mode |-> "share"]
Update(table, id) == [row |-> [table |-> table, id |-> id], mode |-> "update"]

Conflict(l, m) == l.row = m.row /\ (l.mode = "update" \/ m.mode = "update")

Blockers(p, l) ==
    {q \in Proc \ {p} : \E h \in locks : h.proc = q /\ Conflict(h.lock, l)}

Holds(p, l) == [proc |-> p, lock |-> l] \in locks

Free(l) == \A h \in locks : ~Conflict(h.lock, l)

Live == {i \in 1..Len(invitations) : ~invitations[i].used}

Teaches == member.state = "active" /\ member.role = "Teacher"

\* Mutation: the tenant is only locked FOR SHARE, as decisions and acceptances do.
ShareTenant == Share("tenant", 0)

TenantForUpdate == Update("tenant", 0)

\* Mutation: an acceptance locks its invitation before the tenant.
InvitationFirst(i) == <<Update("invitation", i), Share("tenant", 0)>>

TenantFirst(i) == <<Share("tenant", 0), Update("invitation", i)>>

\* Mutation: the assignment is read without FOR SHARE.
ReadAssignment == {}

ShareAssignment == {Share("admin", 0)}

\* Mutation: the account's row is read without FOR UPDATE.
ReadAccount == {}

AccountForUpdate == IF account = "none" THEN {} ELSE {Update("user", 0)}

\* The rows a process has to lock in its present step; what is absent cannot be locked.
\* An insert locks the unique email it claims, unless an account has it, and the tenant its
\* foreign key names.
Needs(p) ==
    CASE pc[p] = "validateUser" -> {Share("user", 0)}
      [] pc[p] = "inviting" -> {TenantForUpdate}
      [] pc[p] = "retiring" ->
           {l \in {Update("invitation", i) : i \in Live \cap 1..arg[p]} : ~Holds(p, l)}
      [] pc[p] = "acceptFirst" -> {TenantFirst(arg[p])[1]}
      [] pc[p] = "acceptSecond" -> {TenantFirst(arg[p])[2]}
      [] pc[p] \in {"acceptUser", "decideUser"} -> AccountForUpdate
      [] pc[p] \in {"acceptTeacher", "validateTeacher"} ->
           {l \in {Share("elsewhere", 0), Share("member", 0)} :
              IF l.row.table = "elsewhere" THEN elsewhere ELSE Teaches}
      [] pc[p] \in {"acceptMember", "validateMember", "decideMember"} ->
           IF member.state = "absent" THEN {} ELSE {Update("member", 0)}
      [] pc[p] = "register" -> {Update("invitation", arg[p])}
      [] pc[p] = "registerEmail" ->
           IF account = "none" THEN {Update("user", 0)} ELSE {}
      [] pc[p] = "registerTenant" -> {KeyShare("tenant", 0)}
      [] pc[p] = "decide" -> ShareAssignment
      [] pc[p] = "decideRequest" -> {Update("request", arg[p])}
      [] pc[p] \in {"validateTenant", "decideTenant"} -> {Share("tenant", 0)}
      [] OTHER -> {}

Take(p, ls) ==
    /\ \A l \in ls : Blockers(p, l) = {}
    /\ locks' = locks \cup {[proc |-> p, lock |-> l] : l \in ls}

-----------------------------------------------------------------------------
\* Going on, and answering.

Operation(step) ==
    CASE step \in InviteStep -> "invite"
      [] step \in AcceptStep -> "accept"
      [] step \in RegisterStep -> "register"
      [] step = "requesting" -> "request"
      [] step = "changingRole" -> "changeRole"
      [] OTHER -> "decide"

Table(op) ==
    CASE op = "invite" -> CreateInvitationStatus
      [] op = "revoke" -> RevokeInvitationStatus
      [] op = "verify" -> VerifyInvitationStatus
      [] op = "accept" -> AcceptExistingInvitationStatus
      [] op = "register" -> RegisterInvitedUserStatus
      [] op = "request" -> CreatorRequestStatus
      [] op = "decide" -> CreatorDecisionStatus
      [] OTHER -> UpdateMemberRoleStatus

Responds(op, error) == answer' = [op |-> op, status |-> Status(Table(op), error)]

\* An answer without a change.
Reply(op, error) ==
    /\ Responds(op, error)
    /\ UNCHANGED <<people, papers, locks, pc, local, redemptions>>

Goto(p, from, to) ==
    /\ pc[p] = from
    /\ pc' = [pc EXCEPT ![p] = to]
    /\ answer' = NoAnswer

\* Waits for the locks of this step, then goes on.
Wait(p, from, to) ==
    /\ Goto(p, from, to)
    /\ Take(p, Needs(p))
    /\ UNCHANGED <<people, papers, local, redemptions>>

\* The handler returns: its variables are gone and its transaction is over.
Return(p, from, error) ==
    /\ pc[p] = from
    /\ pc' = [pc EXCEPT ![p] = "idle"]
    /\ Responds(Operation(from), error)
    /\ locks' = {h \in locks : h.proc # p}
    /\ arg' = [arg EXCEPT ![p] = 0]
    /\ role' = [role EXCEPT ![p] = "Teacher"]
    /\ session' = [session EXCEPT ![p] = 0]
    /\ target' = [target EXCEPT ![p] = FALSE]

\* It returns and changes nothing.
Finish(p, from, error) ==
    /\ Return(p, from, error)
    /\ UNCHANGED <<people, papers, redemptions>>

\* Waits for the locks of this step, looks at the rows and goes on or returns.
Check(p, from, to, error) ==
    /\ pc[p] = from
    /\ \/ error = "success" /\ Wait(p, from, to)
       \/ /\ error # "success"
          /\ \A l \in Needs(p) : Blockers(p, l) = {}
          /\ Finish(p, from, error)

Start(p, to) ==
    /\ Goto(p, "idle", to)
    /\ UNCHANGED <<people, papers, locks, redemptions>>

-----------------------------------------------------------------------------
\* Inviting.  Whoever has an account must be a live Teacher, and not a member: a
\* transaction of its own sees to that before the invitation is replaced.

Invite(p, r) ==
    \/ /\ r # "Creator"
       /\ Start(p, IF account = "none" THEN "inviting" ELSE "validateUser")
       /\ role' = [role EXCEPT ![p] = r]
       /\ UNCHANGED <<arg, session, target>>
    \/ r = "Creator" /\ Reply("invite", "creatorGrant")

ValidateUser(p) ==
    Check(p, "validateUser", "validateTeacher",
          IF account = "parent" \/ role[p] # "Teacher" THEN "existingTeacher" ELSE "success")

\* A Teacher membership, of whatever tenant the query finds first, is locked together with
\* its tenant, which matters when it is this one.
ValidateTeacher(p) ==
    \/ /\ \E l \in Needs(p) :
            /\ Goto(p, "validateTeacher",
                    IF l.row.table = "member" THEN "validateTenant" ELSE "validateMember")
            /\ Take(p, {l})
       /\ UNCHANGED <<people, papers, local, redemptions>>
    \/ /\ Needs(p) = {}
       /\ Finish(p, "validateTeacher", "existingTeacher")

ValidateTenant(p) == Wait(p, "validateTenant", "validateMember")

\* Without a membership the transaction ends, and with it its locks.
ValidateMember(p) ==
    \/ /\ member.state = "absent"
       /\ Goto(p, "validateMember", "inviting")
       /\ locks' = {h \in locks : h.proc # p}
       /\ UNCHANGED <<people, papers, local, redemptions>>
    \/ /\ member.state # "absent"
       /\ Check(p, "validateMember", "inviting",
                IF member.state = "gone" THEN "inactive" ELSE "already")

LockTenant(p) ==
    /\ Goto(p, "inviting", "retiring")
    /\ Take(p, Needs(p))
    /\ arg' = [arg EXCEPT ![p] = Len(invitations)]
    /\ UNCHANGED <<people, papers, role, session, target, redemptions>>

\* One UPDATE waits for every unused invitation of its snapshot in turn.
LockInvitation(p) ==
    /\ pc[p] = "retiring"
    /\ \E l \in Needs(p) : Take(p, {l})
    /\ answer' = NoAnswer
    /\ UNCHANGED <<people, papers, pc, local, redemptions>>

Retired(i) == [invitations[i] EXCEPT !.used = TRUE]

ReplaceActive(p) ==
    /\ Needs(p) = {}
    /\ Return(p, "retiring", "success")
    /\ Len(invitations) < MaxInvitations
    /\ invitations' =
         Append([i \in 1..Len(invitations) |->
                   IF i <= arg[p] THEN Retired(i) ELSE invitations[i]],
                NewInvitation(role[p]))
    /\ UNCHANGED <<people, requests, admin, redemptions>>

Revoke(i) ==
    \/ /\ ~invitations[i].used
       /\ Free(Update("invitation", i))
       /\ invitations' = [invitations EXCEPT ![i] = Retired(i)]
       /\ Responds("revoke", "success")
       /\ UNCHANGED <<people, requests, admin, locks, pc, local, redemptions>>
    \/ invitations[i].used /\ Reply("revoke", "notFound")

\* 48 hours pass; for a used invitation they decide nothing.
Expire(i) ==
    /\ ~invitations[i].used /\ ~invitations[i].expired
    /\ invitations' = [invitations EXCEPT ![i].expired = TRUE]
    /\ answer' = NoAnswer
    /\ UNCHANGED <<people, requests, admin, locks, pc, local, redemptions>>

\* Mutation: is_used is not checked under the lock.
Unexpired(i) == ~invitations[i].expired

Redeemable(i) == ~invitations[i].used /\ ~invitations[i].expired

UnusableError(i) == IF invitations[i].used THEN "used" ELSE "expired"

Verify(i) == Reply("verify", IF Redeemable(i) THEN "success" ELSE UnusableError(i))

-----------------------------------------------------------------------------
\* Accepting an invitation with a session of the existing account.

AcceptExisting(p, i, s) ==
    /\ Start(p, "acceptFirst")
    /\ arg' = [arg EXCEPT ![p] = i]
    /\ session' = [session EXCEPT ![p] = s]
    /\ UNCHANGED <<role, target>>

AcceptFirst(p) == Wait(p, "acceptFirst", "acceptSecond")

AcceptSecond(p) == Wait(p, "acceptSecond", "acceptUser")

ValidSession(p) == session[p] = resets

AcceptUserError(p) ==
    IF ~ValidSession(p) THEN "session"
    ELSE IF account = "parent" \/ invitations[arg[p]].role # "Teacher" THEN "existingTeacher"
    ELSE "success"

\* A session may expire at any time; one of another account is only told here.
AcceptUser(p) ==
    \/ account # "none" /\ Check(p, "acceptUser", "acceptTeacher", AcceptUserError(p))
    \/ \E error \in {"session", "mismatch"} : Finish(p, "acceptUser", error)

\* A Teacher membership, of whatever tenant the query finds first, is locked.
AcceptTeacher(p) ==
    \/ /\ Goto(p, "acceptTeacher", "acceptMember")
       /\ \E l \in Needs(p) : Take(p, {l})
       /\ UNCHANGED <<people, papers, local, redemptions>>
    \/ /\ Needs(p) = {}
       /\ Finish(p, "acceptTeacher", "existingTeacher")

AcceptMember(p) ==
    Check(p, "acceptMember", "accepting",
          IF member.state = "gone" THEN "inactive" ELSE "success")

Redeem(i) == redemptions' = [redemptions EXCEPT ![i] = @ + 1]

\* Mutation: only accepted_member_id is written.
Unspent(i) == [invitations[i] EXCEPT !.accepted = TRUE]

Acknowledged(i) == [invitations[i] EXCEPT !.used = TRUE, !.accepted = TRUE]

\* Mutation: a used invitation is refused, whoever used it.
NeverRepeated(i) == FALSE

\* A used invitation that names the membership is acknowledged once more.
Repeated(i) == invitations[i].used /\ invitations[i].accepted /\ member.state # "absent"

Accept(p) ==
    LET i == arg[p] IN
    /\ Return(p, "accepting", "success")
    /\ Redeemable(i)
    /\ member' = IF member.state = "absent"
                 THEN [state |-> "active", role |-> invitations[i].role] ELSE member
    /\ invitations' = [invitations EXCEPT ![i] = Acknowledged(i)]
    /\ Redeem(i)
    /\ UNCHANGED <<account, resets, elsewhere, requests, admin>>

\* The row as locked is validated a second time, which only tells an expired session.
AcceptOther(p) ==
    LET i == arg[p] IN
    /\ pc[p] = "accepting"
    /\ \/ /\ ~Redeemable(i)
          /\ Finish(p, "accepting", IF Repeated(i) THEN "success" ELSE UnusableError(i))
       \/ Finish(p, "accepting", "session")

-----------------------------------------------------------------------------
\* Registering an account with an invitation.

\* Mutation: a legacy Creator invitation is redeemed like any other.
AnyRole(i) == TRUE

\* A Creator invitation needs the request that was approved with it.
Approved(i) ==
    invitations[i].role = "Creator" =>
        \E r \in 1..Len(requests) :
            /\ requests[r].invitation = i
            /\ requests[r].status = "approved" /\ ~requests[r].target

RegisterInvited(p, i) ==
    /\ Start(p, "register")
    /\ arg' = [arg EXCEPT ![p] = i]
    /\ UNCHANGED <<role, session, target>>

RegisterError(i) ==
    IF ~Redeemable(i) THEN UnusableError(i)
    ELSE IF ~Approved(i) THEN "creatorGrant"
    ELSE IF account # "none" THEN "userExists" ELSE "success"

RegisterCheck(p) == Check(p, "register", "registerEmail", RegisterError(arg[p]))

\* Inserting the user, unless its email was inserted meanwhile.
InsertUser(p) ==
    Check(p, "registerEmail", "registerTenant",
          IF account = "none" THEN "success" ELSE "userExists")

InsertMember(p) == Wait(p, "registerTenant", "registering")

Register(p) ==
    LET i == arg[p] IN
    /\ Return(p, "registering", "success")
    /\ account' = "person"
    /\ member' = [state |-> "active", role |-> invitations[i].role]
    /\ invitations' = [invitations EXCEPT ![i] = Retired(i)]
    /\ Redeem(i)
    /\ UNCHANGED <<resets, elsewhere, requests, admin>>

-----------------------------------------------------------------------------
\* Requesting a Creator.  The account is looked up without a lock; the unique index on
\* pending requests decides at the insert, whose foreign keys lock tenant and account.

IsCreator == member.state = "active" /\ member.role = "Creator"

RequestCreator(p) ==
    \/ /\ ~IsCreator
       /\ Start(p, "requesting")
       /\ target' = [target EXCEPT ![p] = account # "none"]
       /\ UNCHANGED <<arg, role, session>>
    \/ IsCreator /\ Reply("request", "alreadyCreator")

Pending == {r \in 1..Len(requests) : requests[r].status = "pending"}

SubmitRequest(p) ==
    \/ /\ Pending = {}
       /\ Return(p, "requesting", "success")
       /\ Len(requests) < MaxRequests
       /\ Free(KeyShare("tenant", 0))
       /\ target[p] => Free(KeyShare("user", 0))
       /\ requests' = Append(requests,
            [target |-> target[p], status |-> "pending", invitation |-> 0])
       /\ UNCHANGED <<people, invitations, admin, redemptions>>
    \/ Pending # {} /\ Finish(p, "requesting", "duplicate")

\* Deciding it, under a lock of the administrator's assignment.

Decide(p, r) ==
    /\ Start(p, "decide")
    /\ arg' = [arg EXCEPT ![p] = r]
    /\ UNCHANGED <<role, session, target>>

DecideAssignment(p) ==
    Check(p, "decide", "decideRequest", IF admin THEN "success" ELSE "forbidden")

DecideRequest(p) ==
    Check(p, "decideRequest", "decideTenant",
          IF arg[p] \in Pending THEN "success" ELSE "decided")

DecideTenant(p) ==
    \/ Wait(p, "decideTenant", "decideUser")
    \/ Wait(p, "decideTenant", "rejecting")

\* Approval resolves the email again: "a target ID or account appearing after
\* submission must never redirect a grant".
DecideUser(p) ==
    LET found == account # "none"
        stale == requests[arg[p]].target # found \/ account = "parent"
    IN  \/ /\ pc[p] = "decideUser" /\ ~stale
           /\ Goto(p, "decideUser", IF found THEN "decideMember" ELSE "approving")
           /\ Take(p, Needs(p))
           /\ target' = [target EXCEPT ![p] = found]
           /\ UNCHANGED <<people, papers, arg, role, session, redemptions>>
        \/ /\ pc[p] = "decideUser" /\ stale
           /\ \A l \in Needs(p) : Blockers(p, l) = {}
           /\ Finish(p, "decideUser", "stale")

\* Mutation: any membership row is made a Creator's.
AnyMember == TRUE

Promotable ==
    member.state = "absent" \/ (member.state = "active" /\ member.role # "Creator")

DecideMember(p) ==
    Check(p, "decideMember", "approving",
          IF Promotable THEN "success"
          ELSE IF IsCreator THEN "alreadyCreator" ELSE "stale")

\* An account becomes Creator at once; without one, a Creator invitation is created
\* beside whatever invitations the address has.
Approve(p) ==
    LET r == arg[p] IN
    /\ Return(p, "approving", "success")
    /\ IF target[p]
       THEN /\ member' = [state |-> "active", role |-> "Creator"]
            /\ requests' = [requests EXCEPT ![r].status = "approved"]
            /\ UNCHANGED invitations
       ELSE /\ Len(invitations) < MaxInvitations
            /\ invitations' = Append(invitations, NewInvitation("Creator"))
            /\ requests' = [requests EXCEPT ![r].status = "approved",
                                            ![r].invitation = Len(invitations) + 1]
            /\ UNCHANGED member
    /\ UNCHANGED <<account, resets, elsewhere, admin, redemptions>>

\* The reason of a rejection is looked at last.
Reject(p) ==
    \/ /\ Return(p, "rejecting", "success")
       /\ requests' = [requests EXCEPT ![arg[p]].status = "rejected"]
       /\ UNCHANGED <<people, invitations, admin, redemptions>>
    \/ Finish(p, "rejecting", "invalid")

-----------------------------------------------------------------------------
\* Changing a role reads the membership without a lock and writes it by id.

\* Mutation: the system Creator role can be granted.
AnyGrant(r) == TRUE

MayGrant(r) == r # "Creator"

ChangeRole(p, r) ==
    /\ Start(p, "changingRole")
    /\ MayGrant(r)
    /\ member.state = "active" /\ ~IsCreator
    /\ role' = [role EXCEPT ![p] = r]
    /\ UNCHANGED <<arg, session, target>>

\* A row removed meanwhile is not written: soft-deleted rows are out of scope.
WriteRole(p) ==
    /\ Return(p, "changingRole", IF member.state = "active" THEN "success" ELSE "notFound")
    /\ Free(Update("member", 0))
    /\ member' = IF member.state = "active" THEN [member EXCEPT !.role = role[p]] ELSE member
    /\ UNCHANGED <<account, resets, elsewhere, papers, redemptions>>

RemoveMember ==
    /\ member.state = "active"
    /\ Free(Update("member", 0))
    /\ member' = [member EXCEPT !.state = "gone"]
    /\ answer' = NoAnswer
    /\ UNCHANGED <<account, resets, elsewhere, papers, locks, pc, local, redemptions>>

-----------------------------------------------------------------------------
\* What the rest of the system does to these rows: registration without an invitation
\* (as a parent, or as a member of another tenant), memberships of other tenants,
\* password resets, and the operator's revocation of the administrator.

CreateAccount ==
    /\ account = "none"
    /\ Free(Update("user", 0))
    /\ account' \in {"parent", "person"}
    /\ answer' = NoAnswer
    /\ UNCHANGED <<resets, elsewhere, member, papers, locks, pc, local, redemptions>>

TeachElsewhere ==
    /\ account = "person"
    /\ Free(Update("elsewhere", 0))
    /\ elsewhere' = ~elsewhere
    /\ answer' = NoAnswer
    /\ UNCHANGED <<account, resets, member, papers, locks, pc, local, redemptions>>

ResetPassword ==
    /\ account # "none" /\ resets < MaxResets
    /\ Free(Update("user", 0))
    /\ resets' = resets + 1
    /\ answer' = NoAnswer
    /\ UNCHANGED <<account, elsewhere, member, papers, locks, pc, local, redemptions>>

RevokeAdmin ==
    /\ admin
    /\ Free(Update("admin", 0))
    /\ admin' = FALSE
    /\ answer' = NoAnswer
    /\ UNCHANGED <<people, invitations, requests, locks, pc, local, redemptions>>

\* An error of the database, a cancelled request, a crash, or the victim of a deadlock: the
\* transaction rolls back.
Abort(p) == pc[p] # "idle" /\ Finish(p, pc[p], "database")

\* What a request is refused with before any of these rows is read.
Refusals(op) ==
    CASE op = "invite" -> {"malformed", "denied", "roleInvalid"}
      [] op = "revoke" -> {"malformed", "denied", "notFound"}
      [] op \in {"verify", "register"} -> {"malformed", "notFound"}
      [] op = "accept" -> {"malformed", "session", "notFound"}
      [] op = "request" -> {"malformed", "forbidden", "invalid"}
      [] op = "decide" -> {"malformed", "forbidden", "notFound"}

\* The lists of requests: of the tenant for its Creators, and of every tenant's.
Listed == {Status(ListCreatorRequestsStatus, e) : e \in {"success", "forbidden"}}
              \cup {Status(ListPlatformStatus, "success")}

\* Of these answers only the status is kept.
Turned ==
    Listed \cup UNION {{Status(Table(op), e) : e \in Refusals(op)} :
        op \in {"invite", "revoke", "verify", "register", "accept", "request", "decide"}}

\* They depend on nothing that is modelled: between requests is as good as any time.
Refuse ==
    /\ \A p \in Proc : pc[p] = "idle"
    /\ \E status \in Turned : answer' = [op |-> "other", status |-> status]
    /\ UNCHANGED <<people, papers, locks, pc, local, redemptions>>

Validating(p) ==
    ValidateUser(p) \/ ValidateTeacher(p) \/ ValidateTenant(p) \/ ValidateMember(p)

Inviting(p) ==
    \/ \E r \in Role : Invite(p, r)
    \/ Validating(p) \/ LockTenant(p) \/ LockInvitation(p) \/ ReplaceActive(p)

Accepting(p) ==
    \/ \E i \in 1..Len(invitations), s \in 0..resets : AcceptExisting(p, i, s)
    \/ AcceptFirst(p) \/ AcceptSecond(p) \/ AcceptUser(p) \/ AcceptTeacher(p)
    \/ AcceptMember(p) \/ Accept(p) \/ AcceptOther(p)

Registering(p) ==
    \/ \E i \in 1..Len(invitations) : RegisterInvited(p, i)
    \/ RegisterCheck(p) \/ InsertUser(p) \/ InsertMember(p) \/ Register(p)

Deciding(p) ==
    \/ RequestCreator(p) \/ SubmitRequest(p)
    \/ \E r \in 1..Len(requests) : Decide(p, r)
    \/ DecideAssignment(p) \/ DecideRequest(p) \/ DecideTenant(p) \/ DecideUser(p)
    \/ DecideMember(p) \/ Approve(p) \/ Reject(p)

Managing(p) == (\E r \in Role : ChangeRole(p, r)) \/ WriteRole(p)

Environment ==
    \/ \E i \in 1..Len(invitations) : Revoke(i) \/ Expire(i) \/ Verify(i)
    \/ Refuse
    \/ RemoveMember \/ CreateAccount \/ TeachElsewhere \/ ResetPassword \/ RevokeAdmin

Next ==
    \/ Environment
    \/ \E p \in Proc : Inviting(p) \/ Accepting(p) \/ Registering(p) \/ Deciding(p)
                         \/ Managing(p) \/ Abort(p)

Spec == Init /\ [][Next]_vars

-----------------------------------------------------------------------------
\* Properties.

\* An invitation that was redeemed, revoked or replaced admits nobody any more, however
\* acceptances, registrations, revocations and replacements race ("AcceptExisting
\* serializes with revoke/resend", RegisterInvitedUserTx).
UsedInvitationsAdmitNobody ==
    [][\A i \in 1..MaxInvitations :
         redemptions'[i] # redemptions[i] => i \in Live /\ i \notin Live']_vars

\* Of the invitations the tenant's members sent to an address at most one can be
\* redeemed ("closes the gap where two concurrent requests both see no active
\* invitation", ReplaceActive).
OneLiveInvitation ==
    Cardinality({i \in Live : invitations[i].role # "Creator"}) <= 1

\* Nobody is a Creator of the tenant without a request the platform approved, whichever
\* of invitation, registration, role change and decision come together.
CreatorOnlyByApproval ==
    member.role = "Creator" =>
        \E r \in 1..Len(requests) : requests[r].status = "approved"

\* A request is decided once, by an administrator who is not revoked at that moment
\* ("revocation cannot race the grant", Decide).
DecidedOnceByAdmin ==
    [][\A r \in 1..Len(requests) :
         requests'[r] # requests[r] => requests[r].status = "pending" /\ admin]_vars

\* An account only joins by acceptance while it teaches elsewhere and its session was not
\* revoked by a reset: both facts are held through the commit (AcceptExisting).
AcceptedOnLiveFacts ==
    [][\A p \in Proc : Accept(p) =>
         session[p] = resets /\ (elsewhere \/ Teaches)]_vars

\* A removed member stays removed: no invitation and no approval that raced the removal
\* brings the membership back (invitationTargetMember, Decide, UpdateRole).
RemovedStaysRemoved == [][member.state = "gone" => member' = member]_vars

WaitsFor(p, q) == \E l \in Needs(p) : q \in Blockers(p, l)

\* Handlers of one address and tenant that wait for each other, however many they are.  Only
\* two kinds of circle exist: a registration by invitation, which locks the invitation first
\* and the tenant by its insert, against ReplaceActive; and two invitations of a Teacher of
\* this tenant, who share its membership row before both lock it for update
\* (ValidateExistingTeacher).  Acceptances take tenant and invitation in the order of
\* ReplaceActive (AcceptExisting), and nothing else waits in a circle.
KnownDeadlocks ==
    \A S \in (SUBSET Proc) \ {{}} :
        (\A p \in S : \E q \in S : WaitsFor(p, q)) =>
            \E p, q \in S :
                /\ WaitsFor(p, q)
                /\ \/ pc[p] = "registerTenant" /\ pc[q] = "retiring"
                   \/ /\ pc[p] = "validateMember" /\ pc[q] = "validateMember"
                      /\ WaitsFor(q, p)

\* Who is told to have joined has, who is refused has not: an acceptance is acknowledged
\* when it is repeated because its answer was lost (AcceptExisting), a registration's success
\* means a membership, and a request that is answered as decided is.
AnswersTellMembership ==
    [][\A p \in Proc : pc[p] # "idle" /\ pc'[p] = "idle" =>
          LET i == arg[p] IN
          /\ pc[p] \in AcceptStep /\ answer'.status = 200 =>
                 member'.state = "active" /\ invitations'[i].accepted
          /\ pc[p] \in AcceptStep /\ answer'.status \in {400, 404, 409} =>
                 ~(invitations[i].accepted /\ member.state = "active")
          /\ pc[p] \in RegisterStep /\ answer'.status = 201 =>
                 member'.state = "active" /\ account' = "person"
          /\ pc[p] \in DecideStep /\ answer'.status = 200 => i \notin Pending' ]_vars

\* "a member whose current role is the system Creator keeps it".
CreatorKeepsRole ==
    [][\A p \in Proc : WriteRole(p) /\ member.role = "Creator" => member' = member]_vars

Abstract == INSTANCE Joining

\* Whatever the handlers do to the rows of an address and a tenant seems to be done in one
\* instant, at which everything it rests on holds: an invitation nobody used, a request
\* nobody decided, an administrator in office, an account that still teaches and a membership
\* that was not removed; and an invitation retires all that came before it.
ImplementsJoining == Abstract!Spec

=============================================================================
