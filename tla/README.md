# Verification of the identity service

TLA+ models of `kelolakelas-identity-service` (Go, PostgreSQL through GORM, HTTP and
gRPC), checked with TLC on small instances and, for the core modules, proved with TLAPS
for every value of the constants.

What is hard in this service is not one handler but several at once: each request is a few
SQL statements, sometimes in more than one transaction, and correctness rests on row
locks, optimistic versions, whole-second JWT times compared with boundaries kept in the
database, and the order in which all of these happen. The models therefore keep every
statement that reads or locks a row as a step of its own, and abstract the data to what
the properties tell apart.

## 1. The system

| Component | State | Operations | Hard behaviour | What makes it correct |
|---|---|---|---|---|
| Account sessions (`login_attempts.go`, `password_reset_repository.go`, `tenant_session.go`, `auth_usecase.go`, `pkg/jwt`) | user row: password, `session_valid_after`, failure counter, lock; reset tokens; issued JWTs | login, request and confirm reset, switch tenant, session check | clock read before a lock wait, whole seconds, boundaries in the future, two transactions per login | a reset revokes what was issued before it; current sessions are accepted; failures are never lost; one token, one reset |
| Platform factor (`platform_factor.go`, `platform_auth.go`, `cmd/platform-admin`) | assignment (active, secret, version, enrollment gate), challenges, pending and verified JWTs | grant, revoke, recover, login, begin, consume, check version | JWT vetted outside the transaction; an operator changes the row at any time | a session belongs to the seed enrolled now; one enrollment per grant; bounded guesses |
| Configuration control plane (`configuration*.go`) | head, versions, reports per key | create version, roll back, report, list | optimistic concurrency, ids drawn before commit, target read before the write | no version overwritten; rollback restores something applied |
| Registration, catalog and fee policies (`registration_policy.go`, ...) | none of their own: keys of the control plane | evaluate, open, close; gate of `RegisterTenantTx` | a registration racing the acknowledgement of a close | registrations commit under the policy in force |
| Invitations (`invitation_*.go`, `RegisterInvitedUserTx`) | invitations: role, address, used, expiry | invite or replace, revoke, register | gap between "no live invitation" and the insert | one live invitation; a used one admits nobody |
| Existing accounts (`existing_invitation.go`) | memberships | preview, accept | rows found, then locked one by one | accepted only on facts that still hold |
| Creator requests and decisions (`creator_*`) | requests, decisions | submit, approve, reject | the deciding administrator may be revoked meanwhile | the Creator role only by an approval; one decision |
| Members (`member_*`) | membership: role, deleted | change role, remove | unlocked read, then write | removed stays removed |
| Custom roles (`rbac_repository.go`, `role_usecase.go`, `permission.go`, `member_permission.go`) | roles, role permissions, memberships | create, update, delete role; permission check before every operation | counting and deleting in two transactions; delete-and-insert of permissions by two updates; a check outside the transaction it allows | every assigned role exists; permissions are those of one update; a stale token changes nothing |
| Tenant settings (`tenant_usecase.go`) | tenant row | update profile, update location | whole-row save after an unlocked read | answers tell what was done |
| HTTP handlers, middleware, gRPC services | none | admission, status of every outcome, projections | answers given after a commit | what is answered agrees with what was committed |
| Server lifecycle (`cmd/server/lifecycle.go`) | two servers, their goroutines, two channels | serve, fail, drain, stop | a signal before Serve, a failure during a drain, requests that never end | always exits, clean, with the right error |
| Permission cache (`redis.go`) | permissions per role, for 24 hours | write at login | nothing invalidates it, nothing here reads it | - |
| Migration tools, clients, configuration, generated code | files, connections | command line and I/O | version numbering of new files | - |

The components meet in the database. Login, reset, switch and acceptance share the user
row; invitation, registration and decision share the invitation, tenant and member rows;
role changes, removals and the permission check share the member rows; the platform factor
and the decisions share the administrator's assignment; the policies share the control
plane's head. The gateway and the other services call `SessionCheck` and the gRPC
services, which only read.

`PROJECT.json` lists every component with what is left out of it, and every hazard with
its line and the property that covers it.

## 2. The modules

| Module | Models | Kind |
|---|---|---|
| `SessionRevocation` | account sessions | detailed |
| `PlatformFactor` | platform factor | detailed |
| `ConfigurationControl` | control plane, the three policies kept in it, the registration gate | detailed, implements the next |
| `PolicyRegister` | what the control plane promises of one policy | abstract |
| `Membership` | invitations, acceptance, creator decisions, members of one address at one tenant | detailed, composes four components, implements `Joining` |
| `Joining` | what inviting, accepting, registering and deciding promise together | abstract |
| `TenantAdministration` | custom roles, roles and removal of members, invitations' roles, profile and location of one tenant | detailed, composes the next two, implements `TenantRegister` |
| `TenantRegister` | what the requests of a tenant's members promise together | abstract |
| `AccessControl` | the rows that decide who may do what, and every decision taken from them | state and operators |
| `MemberListing` | pages and order of the members' and tutors' listings | operators |
| `HandlerStatus` | the HTTP status each handler answers each outcome with | tables |
| `ServerLifecycle` | the process | detailed |
| `MC...` | symmetry sets and model values for TLC | |
| `..._proofs` | theorems | |

### Conventions

- A handler is a process `p` with `pc[p]`. `Goto` moves it on, `Return` ends it, and
  `Abort` ends it anywhere: a failed query, a cancelled request, a crash. An open
  transaction then rolls back and its locks are dropped, so an uncommitted write is never
  part of the shared state; a transaction's writes appear at its last step, which is its
  commit.
- PostgreSQL runs READ COMMITTED: a plain read sees what is committed at that moment; a
  locking read waits, then sees the newest committed row. `LockForUpdate`, `LockForShare`
  and `Needs`/`Take` model these. In `Membership` the locks are taken one at a time in the
  order of the statements, foreign keys included (an insert takes KEY SHARE on the row it
  refers to), because the order is what a deadlock depends on.
- Handlers answer. `Return(p, ..., error)` ends a request with the status the handler's
  table (`HandlerStatus`) has for the outcome; an error no table knows is a 500. `answer`
  holds what the last step answered. No action reads it, and what is said of it is said of
  steps, so the runs leave it out of the state's fingerprint (`VIEW WithoutAnswer`): two
  states that differ in nothing else have the same successors. A request that reads
  or writes none of the modelled rows is one step that answers.
- Where several fields change under a lock in one transaction, one action does the whole.
- Passwords, seeds, tokens and versions are numbers that only grow: two values are the
  same password exactly if they are the same number.
- Time is a counter. In `SessionRevocation` a second has `TicksPerSecond` ticks, so the
  truncation of the code (`Truncate(time.Second)`, JWT `iat`) is a real loss.
- Definitions named "Mutation: ..." are unused variants of the definition that follows
  them. Putting one in its place must violate a property of a run: this shows that each
  property depends on the code it is about.

### SessionRevocation

`account` is the user row. `Authenticate` is `AuthLock` (SELECT ... FOR UPDATE) followed by
one of `AuthRefused`, `AuthMismatch`, `AuthMatch`; `Login` goes on with `ReadBoundary` and
`SignLogin` outside that transaction. `ConfirmReset` reads the clock, `FindToken` reads the
token, `ConsumeLock` locks the account, `Consume` writes. `SwitchLock`/`SwitchSign` is the
tenant switch. `Accepted` is the session check. A session records which password
authenticated it (`auth`), which the boundary it was signed with belongs to (`knew`),
which was current (`gen`), and when; these are history, no action reads them.

### PlatformFactor

`assignment` is the administrator's row; `Grant` is `cmd/platform-admin` (grant and recovery
are the same statement), `Revoke` the operator's update. `Begin` writes a challenge under
the row's lock, `ConsumeLock`/`WrongCode`/`RightCode`/`Refused` are `Consume`, and
`CheckVersion` and `Sign` come after it without a lock. A TOTP code is right or wrong for a
seed; the arithmetic is not modelled.

### ConfigurationControl and PolicyRegister

One `setting`: the registration, the catalog or the fee policy; a behaviour is about one of
them. `CreateVersion` and the policies' own endpoints (`SetRegistration`, `SetCatalog`,
`SetFee`) draft a version; `Create` moves the head (the length of `versions`) or `Conflict`
ends the request. Reports draw their id at `InsertReport` and become visible at
`CommitReport`, possibly in another order; only applied reports of the registration policy
lock the head (`LocksHead`). `Gate` and `RegisterTenant` evaluate the policy twice, without
and with a lock; `Evaluate`/`Answer` is the reading of any policy in two statements
without a lock, over HTTP and gRPC.

`PolicyRegister` is a log of desired values, the one applied, a registration counter, and
readers that begin (`looked`) and are told a value (`told`), each changed in one atomic
step. A value may be told only if it was in force at some moment since the reading began:
the two statements of the code look atomic. The refinement mapping takes the log from
`versions`, `applied` from the newest applied report, and the earliest moment of a reading
from the head it saw.

Three things the model makes visible. With no version at all the fee is zero and the
catalog open, but with a version that was never applied the fee is *unknown*
(`FAILED_PRECONDITION` over gRPC) and the catalog closed; the registration is open in both
cases (finding `registration_open`). A failed read of the policy is answered to a
registering user as "registration closed" (403). A registration or a policy change that was
committed is answered 500 when the statement after the commit fails. For the catalog and
the fee, whose reports do not lock the head, the acknowledgement that commits last need not
decide, and `configuration_control` does not claim it.

### Membership and Joining

One e-mail address at one tenant: its account, its membership, the invitations sent to it,
creator requests for it, and the administrator who decides. Handlers race on row locks.
`Wait` takes the locks of a step, `Check` takes them, looks at the rows and goes on or
returns the error; `Needs` is the table of which statement locks which rows how.
Role changes, removals and what other components do to these rows (registration as a
parent, memberships elsewhere, resets, the revocation of the administrator) are single
steps that wait for the locks they need. Refusals that depend on none of these rows
(`Refuse`) happen between requests. `redemptions` is history. Users are never deleted by
the program, and no code clears `is_active` of a membership; the model relies on both.

Before it replaces anything, an invitation of somebody who has an account goes through
`ValidateExistingTeacher`, a transaction of its own: `ValidateUser` shares the account and
the role, `ValidateTeacher` a Teacher membership and `ValidateTenant` its tenant, of whichever
tenant the query finds first, and `ValidateMember` locks the membership here for update. Only
an account with no membership here gets past it, and then all these locks are released.

An acceptance whose answer was lost is repeated: `Repeated` answers success for an
invitation the account had accepted. The teacher and session checks come before it, so
a repeated acceptance is refused when the account no longer teaches anywhere.

`Joining` says what all of this comes to. It has the same rows and no handlers, no locks and
no answers: inviting, revoking, accepting, registering, submitting, deciding, a role change
and a removal each happen in one instant, with the conditions that must hold at *that*
instant. A new invitation retires every other one, whoever sent it. An acceptance needs an
open invitation for a Teacher, an account that teaches elsewhere or here, and no membership
that was removed; a registration an invitation nobody used, and, for a Creator's, the
approval that sent it; a decision a pending request and an administrator in office; a
promotion the account that was there when the request was made, not a parent's, and a
membership that was not removed. The handlers read these facts one after the other and
write several statements later. Three things are *not* promised, because the code does not
keep them: an invitation may expire while a registration waits for its locks; a Creator's
invitation may be sent although the account has meanwhile been created; and a role change
may replace a Creator's role (`creator_demotion`). A request may also be recorded without the
account that appeared between lookup and insert; its approval then refuses (`stale`).

### TenantAdministration, TenantRegister, AccessControl and MemberListing

The members of one tenant use tokens signed for their membership. `Begin` is the permission
check that precedes every operation, in a statement of its own; the request then goes on
statement by statement. Which locks an open transaction holds follows from its `pc`
(`HoldsRole`, `HoldsKey`, `HoldsName`, `HoldsPermissions`, `HoldsMember`, `HoldsTenant`,
`SharesTenant`), and `WaitsFor` says for whom the next statement waits: the role row, its
unique name, its permission rows, a membership, the tenant's row, or the key share of a
foreign key. A statement whose foreign keys are checked while it holds what others may want is
two steps: `CreateInsert` enters the name and `CreateTenant` needs the tenant, `DeleteRow`
locks the role and `DeleteKeys` looks for what refers to it, `MemberWrite` locks the
membership and `MemberKey` needs the role. An invitation validates the account it is for
(`ValidateTeacher`, `ValidateTenant`, `ValidateMember`) and takes the tenant's row
(`InviteTenant`) before it inserts (`InviteWrite`). `Victim` is the request PostgreSQL aborts
to end a deadlock of two; a larger one ends in `Fail`. The history variables `overtaken`, `granted` and `wrote` are read only by properties.

`TenantRegister` says what all of this comes to: a request is admitted with a permission, takes
effect once at most, in one instant and exactly as asked, and is answered. The effects carry
the conditions that must hold *at that instant*: a name no other role has, a role no
membership and no invitation refers to, a member that is active, not the caller and not a
Creator, a new role that exists and is not the Creator's. In the code each of these is read
one or several statements before the write, often in another transaction; what makes them
hold again at the write is a foreign key, a unique index, a row lock or the fact that no
request of a member could have changed them. The mapping leaves rows and requests as they
are and takes `done` from `wrote`. The profile and the location are `Elsewhere`: their
whole-row updates may be lost, so nothing is promised of those rows. A platform
administrator's decision is no request of a member and is not in this module: with one, the
promise about Creators fails, which is what the run `creator_demotion` shows.

`AccessControl` has each decision as an operator over the same rows: the HTTP permission
check (`callerHasPermission`), gRPC `CheckPermission` with a member, with a tenant only and
with neither, `CheckActiveMembership`, `FindActiveMembership`, and the middleware's
admission of other credentials. `DecisionsNest` relates them; it also shows that the form
without a member is the *loosest*, whatever a comment calls transitional.

`MemberListing` treats a listing as a function of the rows: `Partitioned` says that its pages
partition them. It holds because the id breaks ties of equal keys. The tutors' listing has
no such second key, so its pages may overlap; no property is claimed for it.

What the model shows and no document promises otherwise: two updates of profile and
location overwrite each other's columns; the tenant's name is looked up in any case but
unique only as written; `DeleteCustomRole` counts active members only, while removed members
and used invitations also refer to the role, so their foreign key turns the deletion into
a 500 rather than a conflict.

### ServerLifecycle

The goroutines of `serveUntilDone` and its two channels of capacity 2. The two servers are
modelled by their documented contract: Serve returns at once when it was stopped before,
Shutdown and GracefulStop close the listener and wait for what is in flight, Close and Stop
cancel it; GracefulStop then still waits for the handlers, Close does not.

## 3. What the runs check

| Run | Result | Shows |
|---|---|---|
| `session_revocation` | holds, 3.1M states | a reset revokes everything issued up to the clock value it used; current sessions are accepted; no failure is lost; a lock blocks; tokens are redeemed newest and once; a switch never revives |
| `session_overlap` | violated | ... but not what was issued while the reset waited for the lock (finding) |
| `session_stale_login` | violated | a login with the replaced password may sign under the new boundary (finding) |
| `platform_factor` | holds, 4.2M states | sessions are of the current seed, one enrollment per grant, guesses bounded, dead sessions stay dead |
| `platform_after_reset` | violated | a platform login in the second of a reset is born rejected (finding) |
| `configuration_control` | holds, 0.7M states | for each of the three policies the control plane implements `PolicyRegister`, reads and answers included; no version overwritten; rollbacks restore what was applied; for the registration policy the last acknowledgement decides |
| `registration_open` | violated | the evaluation answers open with nothing applied (finding) |
| `configuration_rollback` | violated | a rollback may restore what is no longer last known good (finding) |
| `membership` | holds, 1.6M states | one live invitation, redeemed by one; Creator only by approval; one decision by a live administrator; acceptances hold their facts; two kinds of deadlock only; answers tell what was done; the handlers together implement `Joining` (so a removed member stays removed) |
| `tenant_administration` | holds, 0.35M states | the interleaved statements implement `TenantRegister` (so every assigned role exists and no two roles share a name); permissions are those of the last update; stale tokens change nothing; a tenant loses its last member only by removals that cross; answers tell what was committed; decisions nest; pages partition the members |
| `creator_demotion` | violated | a role change overwrites the Creator role granted meanwhile (finding) |
| `server_lifecycle` | holds, 7k states | the process always exits, clean, and reports failures and nothing else |

Each finding in `PROJECT.json` quotes the sentence of the repository that the run refutes.

`KnownDeadlocks` deserves a word: there *are* deadlocks. A registration by invitation locks
the invitation and then, by the foreign key of the membership, the tenant, while
`ReplaceActive` locks the tenant first. And two invitations of somebody who teaches in this
tenant each share the membership row (`existingTeacher`) and then each want it for update
(`invitationTargetMember`). PostgreSQL aborts one of the two, so each is an error and not a
hang; the property says that handlers of one address at one tenant wait in no other circle.
Acceptances do share and then update the same row too, but under an exclusive lock of the
account, and so never meet another.

The property is about the rows of one address at one tenant. It does not exclude circles
across two addresses or two tenants, for instance two platform administrators each deciding a
request made for the other (`decided_by` refers to the deciding user's row, which the other
decision locks), nor circles that also pass through the custom roles of
`TenantAdministration`, whose locks `Membership` does not have.

### Bounds

Two processes: every property above relates one handler to one that overtakes it, and a
third step in between is an atomic operation of the environment. Counters are bounded by
`Max...` constants in the guards.

- `session_revocation`: 2 ticks per second and clocks 0..2 give the same second, the next
  one and the boundary in the future; two tokens, two sessions and two failures to lock give rotation, switch and
  lost increments. `SessionSeconds = 1` makes sessions expire within the run.
- `platform_factor`: two grants (a recovery), three challenges (two of one grant, one of
  another), one guess each (so that the limit is reached by a race), one tick.
- `configuration_control`: two versions and two reports, so that a report is acknowledged
  between selection and write and ids commit out of order, one registration, a free and a
  charged fee. The rollback's counterexample needs three versions and has a configuration
  of its own.
- `membership`: two invitations (the first replaced or approved), one request, one reset,
  no role beside Teacher and Creator in the run that holds (`creator_demotion` has one:
  a custom role is told from Teacher only by the check that existing accounts are invited
  as Teachers).
- `tenant_administration`: two members, two ids for custom roles (`InitialRoles = 2`: none,
  one or both of them live at the start, with different names), two names, `MaxWrites = 2` committed writes of requests in flight at the same time (one
  overtakes the other); permission lists with and without one permission. Listings have up to `MaxRows = 4` rows with
  pages of up to `PageLimit = 3`, so that there are full and partial pages, keys of two
  values so that ties occur, and `Bystanders = 2` members no request is about.
  An update and a deletion that wait for each other, and two invitations of one Teacher, are
  reached. Two deletions that do need a third write, and a circle of renamings a third
  request or name; those are for the theorem `Deadlocks`.
- `server_lifecycle`: two requests per server, which tell none, one and some left apart.

The `VIEW` of `configuration_control`, `membership`, `creator_demotion` and
`tenant_administration` drops `answer`, as explained above. `TenantRegister` and `Joining`
read no answer. For the refinement of `PolicyRegister`, which maps answers to what readers were told, TLC therefore sees one
representative of each state; the theorem `Implements` covers all of them.

Deadlock checking is off in `platform_factor` and `platform_after_reset` (a revoked
assignment with exhausted bounds has nothing left to do) and in `server_lifecycle` (the
process ends).

### Fairness

Only `server_lifecycle` has a liveness property. It assumes weak fairness of what the Go
scheduler and the clock provide: main, each Serve goroutine, each shutdown goroutine, and
the deadline. Requests are not assumed to finish, with one exception: a gRPC call
that Stop has cancelled returns, because every gRPC handler passes its context to the
database. Signals and failures are not assumed to happen. The other modules state
safety only: a handler may abort at any step, so nothing must eventually happen.

## 4. What is proved

All theorems hold for every number of processes and every value of the bounds, under the
named assumptions of the modules' constants (they are natural numbers, and the threshold
and the ticks of a second are positive). Each module's `IInv` is a conjunction of named parts
and each action has one step per part it can disturb.

- `SessionRevocation_proofs`: `TypeCorrect`, `Revocation`, `CurrentAccepted`,
  `FailuresCounted`, `RedeemsNewest`, `LockoutHolds`, `SwitchSafe`. The properties are not
  inductive: that a reset revokes an earlier session needs that boundaries strictly
  increase and that the row a handler saw under its lock is still the row; the lock
  invariant and the bound of every `iat` by the boundary it was signed with carry this.
- `PlatformFactor_proofs`: `TypeCorrect`, `CurrentSeed`, `OneEnrollment`, `Guesses`,
  `PendingBinds`, `AcceptsOnce`, `DeadStayDead`. The invariant ties a version to the seed
  enrolled at it (`SeedInv`), a challenge to the version it was begun at, and a request
  under way to the row it locked.
- `ConfigurationControl_proofs`: `TypeCorrect`, `RollbackSafe`, `NoneOverwritten`,
  `LastDecides`, and `Implements`, the refinement of `PolicyRegister`, for every set of
  policies. The heart is `OrderInv`: when the head is locked at most one applied report is
  uncommitted and its id is the largest, so the newest is the last; existence of a newest
  report is the well-foundedness of the naturals.
- `ServerLifecycle_proofs`: `TypeCorrect`, `CleanExit`, `FaithfulReport`, for any number of
  requests in flight. Conservation carries them: the results sent and those still to come
  are as many as the goroutines that ended (`CountInv`), and an error is in a channel until
  main has it (`ErrorInv`).

- `Membership_proofs`: `TypeCorrect`, `OneLive`, `CreatorApproved`, `UsedAdmitNobody`,
  `DecidedOnce`, `LiveFacts`, `DeadlocksOnly`, `AnswersTell` and `InOneInstant`, which are all
  the properties of the run `membership`, and `RemovedStay` (no step changes a membership that
  was removed). The argument is rely-guarantee. None of the properties
  is inductive, because a handler writes from what it read several steps earlier. `Knows`
  says what it still knows at each step: the invitation it redeems is unused, the request it
  decides is pending, the membership it promotes is not gone. `Protected` says what a lock
  somebody holds keeps everybody else from changing, and `Grows` what nobody ever takes back
  (an approved request, the role of an invitation, an account). One lemma shows that what is
  known survives every step that respects both, and one lemma per action that the action
  respects them. That at most one invitation is live rests on the snapshot
  `ReplaceActive` takes under the tenant's lock: all it cannot see are Creators'. The deadlock
  theorem ranks the tables (administrator, request, tenant, invitation, account, membership
  elsewhere, membership): at most steps what a handler waits for ranks above all it holds, so
  in a circle every handler would want a later table than the one before it. The exceptions
  are the two circles named, and the tenant that a validation shares after the account: for it
  one only waits behind `ReplaceActive`, which in a circle can only wait for a registration.
  `InOrder` says so table by table, `NoOtherCircle` puts it together.
  `InOneInstant` is `ImplementsJoining`: `StepJoins` shows that every step is one abstract step
  or changes no row. `Knows` was made for the other properties and is not enough for that;
  `Sees` adds what the handlers have read and nobody can change under them: the snapshot of
  `ReplaceActive` holds every invitation there is (whoever sends another one needs the tenant's
  lock, `NoneSent`), an accepting account is a person's, a decision holds the tenant in share
  mode from its lookup on, and the request it decides names an account exactly if it found one.
  `SeesStable` is the step of others (`HandlerFrame`, and `AbstractKeeps`: an account keeps its
  kind and a request what it was made for), `HandlerSees` a handler's own.

- `TenantAdministration_proofs`: `TypeCorrect`, `RolesExist`, `LastUpdate`, `StaleTokens`,
  `LastMember`, `AnswersTell`, `Nest`, `Pages` and `Deadlocks`, for any number of requests,
  members, custom roles, names and permission lists. Again a handler writes by what it read before, and `Knows` says
  what of that still holds: an id given out for a new role is nobody else's (`DistinctIds`);
  the row of a live role is locked by one update at a time (`LockedOnce`), so what its DELETE
  found are all its permissions when it commits; the caller is still a member in the role of
  its token, or was overtaken; what was written agrees with the step the handler is at.
  `Stable` is what a step must leave to the others, `Progress` what nobody takes back (an id
  given out, a deletion, a removal), and `StepKeeps` reduces each action to its own handler.
  `RolesExist` does not rest on the count of members, which is stale, but on the foreign
  keys alone; `LastUpdate` rests on the row lock alone. Besides non-emptiness of names, the
  only assumptions are that ids of custom roles are not those of system roles, that a
  membership is not the absent one, and that a tenant has finitely many of both.
  `Deadlocks` says which circles of waiting requests there are. For `DeadlocksAreThree` take any
  nonempty set of requests each of which waits for another of the set. Whoever is waited for
  has a row, a name or permissions by its step (`Holders`). One that waits for a role's
  permissions, an update or a deletion that locked the role first, waits for a deletion that
  has removed them and can only wait for the same role (`PermissionsAwaited`): that is the first
  kind. Two that wait for one membership to update it while both share it are the second. If
  neither is there, every wait leads to a request that waits for a name: deletions,
  assignments and invitations wait for a role that is being renamed, creations and
  validations for an invitation that holds the tenant, renamings for a name in use. So the
  third kind is left, a circle of renamings, creations and invitations; an invitation waits
  for a role that is renamed, to a name that is being created, in a tenant whose row the
  invitation holds. PostgreSQL ends each with an error, whose answer `AnswersTell` covers.
  This is stronger than a statement about pairs: it excludes longer circles too. It takes
  for granted that the DELETEs and locking reads of several rows visit these in the same
  order, and that foreign keys of one row are checked in the order they were created in. It
  covers the rows of one tenant that this module has: not `users`, not other tenants, and not
  the handlers of `Membership`.

- `TenantRegister_proofs`: `Refinement`, which is `ImplementsRegister`, and two facts it
  needs or gives: `NamesStayApart` (`uq_roles_tenant_name` in every reachable state) and
  `CreatorsStay` (no step makes a Creator or unmakes one). Every step of a handler is an
  `Outcome`: it answers, looks, or writes, and a write is one `Effect` of the register
  followed or not by the answer. What must be shown is that the effect's conditions hold at
  the write although they were read before it. `RInv` adds to `IInv` what a handler may be
  `Sure` of at each step: the member a role change is about is not the caller and was not a
  Creator when it looked, which `CreatorsKept` carries to the write (`SureOfMember`); the
  role it gives exists or the foreign key will refuse it (`SureOfRole`); the name it entered
  in the unique index is held by no live role but its own (`SureOfName`), and two open updates
  never hold one name (`NamesApart`), because an update waits for whoever holds the name it
  wants. The lemmas `...Comes`, one per action, and `SureStable` for the other handlers give the
  induction step.

- `MemberListing_proofs`: `PagesPartition`, for any finite list of rows, any sort key (it may
  tie), both directions and every page size: no row is on two pages, none is missing, and all
  pages but the last are full. `Offset` counts the rows before a row; that it is a bijection
  from the rows to `0..n-1` follows without an induction from its injectivity
  (`OffsetIncreases`, a strict total order) and the pigeonhole principle of finite sets
  (`OffsetIsBijection`); the page of a row is then a quotient. `Pages` applies it to
  every reachable state, `PagesPartitionMembers`.

Liveness and ENABLED are out of the prover's reach. What `AlwaysExits` rests on is proved
nevertheless, as two safety theorems of `ServerLifecycle_proofs`. `WorkEnds`: `Work` is a natural
number (goroutines to start and to end, results to send and to receive, calls that were cut,
the deadline) that every step under the fairness assumption decreases and no other step
increases, arriving requests and failures included. `NeverStuck`: from the first signal or
failure to the exit the guard of one of those steps holds. That this
guard means what ENABLED says of the steps, and the last inference, are TLC's.

Only model-checked: the liveness property `AlwaysExits`, and every violation.

## 5. Not modelled, and why

- Decoding of requests, wording of answers, logging, e-mail and map clients, password
  hashing, JWT signatures, the TOTP arithmetic: no property here depends on more than their
  outcome, and that is a choice of the model.
- The permission cache: written at login, never read by this service.
- Delivery of an approved invitation's e-mail, audit rows, the contents of projections.
- The creation of the system Creator role by a first registration: it is reached only on a
  database without the seeded roles, where two of them may create it twice.
- Migration and seeder tools, configuration parsing, generated code.

## 6. Plan

1. An abstract list of revoked and current sessions for `SessionRevocation`.
2. Liveness of a request under a fair database that resolves deadlocks: it needs a bound on
   aborts, which the code does not give.
