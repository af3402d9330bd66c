--------------------------- MODULE PlatformFactor ---------------------------
(***************************************************************************)
(* The second factor of one platform administrator (ADR-KEL-105): the      *)
(* operator's grant, enrollment and verification challenges, and the       *)
(* versions that bind pending and verified JWTs to the assignment row.     *)
(*                                                                         *)
(* Only rows of one user are ever read together, so one user is modelled;  *)
(* the user itself exists and its password is known to the caller.  A TOTP *)
(* seed is the number of the challenge that generated it, and a code is    *)
(* right or wrong.  Processes are requests that race.                      *)
(***************************************************************************)
EXTENDS Naturals, FiniteSets

CONSTANTS
    Proc,            \* request goroutines
    PendingTTL,      \* life of a pending JWT, in seconds
    ChallengeTTL,    \* life of a challenge, in seconds
    MaxAttempts,     \* wrong codes a challenge allows
    MaxClock,        \* bound: last second
    MaxGrants,       \* bound: operator grants
    MaxResets,       \* bound: password resets
    MaxChallenges,   \* bound: challenges ever created
    MaxPendings,     \* bound: pending JWTs ever issued
    MaxSessions      \* bound: verified JWTs ever issued

ASSUME FactorAssumption ==
    /\ PendingTTL \in Nat
    /\ ChallengeTTL \in Nat
    /\ MaxAttempts \in Nat
    /\ MaxClock \in Nat
    /\ MaxGrants \in Nat
    /\ MaxResets \in Nat
    /\ MaxChallenges \in Nat
    /\ MaxPendings \in Nat
    /\ MaxSessions \in Nat

VARIABLES
    clock,        \* wall clock, in seconds
    assignment,   \* the committed platform_admin_assignments row
    challenges,   \* the committed platform_factor_challenges rows
    minted,       \* challenges ever created; the number of the last one
    boundary,     \* users.session_valid_after, moved by password resets
    resets,       \* password resets committed
    holders,      \* transactions that hold the assignment row FOR UPDATE
    pendings,     \* every pending JWT issued
    sessions,     \* every verified JWT issued
    pc,           \* where each process is in its handler
    held,         \* the pending JWT its request carries
    purpose,      \* the route it called: "enroll" or "verify"
    target,       \* the challenge its request carries
    at,           \* the clock value its handler captured
    row,          \* the assignment as its transaction read it
    found,        \* the challenges its transaction's lookup returned
    outcome,      \* version and seed an accepted challenge gave it
    \* history, read by no action
    grants,       \* grants committed
    enrollments,  \* enrollments committed
    guesses,      \* wrong codes evaluated, per challenge
    accepted      \* challenges accepted

rows == <<assignment, challenges, minted>>
reset == <<boundary, resets>>
jwts == <<pendings, sessions>>
local == <<held, purpose, target, at, row, found, outcome>>
history == <<grants, enrollments, guesses, accepted>>
vars == <<clock, rows, reset, holders, jwts, pc, local, history>>

-----------------------------------------------------------------------------

Purpose == {"enroll", "verify"}

\* Secret and seed 0 are NULL.  A user without an assignment row behaves like an
\* inactive one of version 0.
Assignment == [active: BOOLEAN, secret: Nat, allowed: BOOLEAN, version: Nat]

Challenge ==
    [id: Nat, purpose: Purpose, seed: Nat, version: Nat, expires: Nat,
     attempts: 0..MaxAttempts, consumed: BOOLEAN]

\* since: password resets committed when the password was presented.
Pending == [version: Nat, expires: Nat, since: Nat]
NoPending == [version |-> 0, expires |-> 0, since |-> 0]

\* pending: the version of the pending JWT it was exchanged for, by way of via;
\* seed: the TOTP seed its code was checked against.
Session == [version: Nat, iat: Nat, pending: Nat, via: Purpose, seed: Nat, since: Nat]

Outcome == [version: Nat, seed: Nat]
NoOutcome == [version |-> 0, seed |-> 0]

Step == {"idle", "starting", "finishing", "consuming", "accepted", "checked"}

Unassigned == [active |-> FALSE, secret |-> 0, allowed |-> FALSE, version |-> 0]

TypeOK ==
    /\ clock \in Nat
    /\ assignment \in Assignment
    /\ challenges \in SUBSET Challenge
    /\ minted \in Nat
    /\ boundary \in Nat /\ resets \in Nat
    /\ holders \in SUBSET Proc
    /\ pendings \in SUBSET Pending
    /\ sessions \in SUBSET Session
    /\ pc \in [Proc -> Step]
    /\ held \in [Proc -> Pending]
    /\ purpose \in [Proc -> Purpose]
    /\ target \in [Proc -> Nat]
    /\ at \in [Proc -> Nat]
    /\ row \in [Proc -> Assignment]
    /\ found \in [Proc -> SUBSET Challenge]
    /\ outcome \in [Proc -> Outcome]
    /\ grants \in Nat /\ enrollments \in Nat
    /\ guesses \in [1..MaxChallenges -> Nat]
    /\ accepted \in SUBSET Nat

\* A row that predates the factor is active, but has no version and no seed.
Init ==
    /\ clock = 0
    /\ assignment \in {Unassigned, [Unassigned EXCEPT !.active = TRUE]}
    /\ challenges = {}
    /\ minted = 0
    /\ boundary = 0 /\ resets = 0
    /\ holders = {}
    /\ pendings = {}
    /\ sessions = {}
    /\ pc = [p \in Proc |-> "idle"]
    /\ held = [p \in Proc |-> NoPending]
    /\ purpose = [p \in Proc |-> "verify"]
    /\ target = [p \in Proc |-> 0]
    /\ at = [p \in Proc |-> 0]
    /\ row = [p \in Proc |-> Unassigned]
    /\ found = [p \in Proc |-> {}]
    /\ outcome = [p \in Proc |-> NoOutcome]
    /\ grants = 0 /\ enrollments = 0
    /\ guesses = [c \in 1..MaxChallenges |-> 0]
    /\ accepted = {}

-----------------------------------------------------------------------------

RowFree == holders = {}

Goto(p, from, to) ==
    /\ pc[p] = from
    /\ pc' = [pc EXCEPT ![p] = to]

\* The handler returns; its variables are gone and its transaction is over.
Return(p, from) ==
    /\ Goto(p, from, "idle")
    /\ holders' = holders \ {p}
    /\ held' = [held EXCEPT ![p] = NoPending]
    /\ purpose' = [purpose EXCEPT ![p] = "verify"]
    /\ target' = [target EXCEPT ![p] = 0]
    /\ at' = [at EXCEPT ![p] = 0]
    /\ row' = [row EXCEPT ![p] = Unassigned]
    /\ found' = [found EXCEPT ![p] = {}]
    /\ outcome' = [outcome EXCEPT ![p] = NoOutcome]

\* CheckVersion: what every platform request asks of a verified session's version.
Live(v) ==
    v # 0 /\ assignment.active /\ assignment.secret # 0 /\ assignment.version = v

\* SessionCheck's verdict on a verified session.
Accepted(s) == s.iat >= boundary /\ Live(s.version)

-----------------------------------------------------------------------------
\* The operator, and a password reset (SessionRevocation's Consume).

\* Mutation: the upsert overwrites the version with that of a fresh row.
Regranted(a) == [active |-> TRUE, secret |-> 0, allowed |-> TRUE, version |-> 1]

\* Mutation: an enrolled but revoked assignment is simply switched on again.
Reactivated(a) ==
    IF a.secret # 0 /\ ~a.active THEN [a EXCEPT !.active = TRUE]
    ELSE [active |-> TRUE, secret |-> 0, allowed |-> TRUE, version |-> a.version + 1]

Granted(a) ==
    [active |-> TRUE, secret |-> 0, allowed |-> TRUE, version |-> a.version + 1]

Grant ==
    /\ grants < MaxGrants
    /\ RowFree
    /\ assignment' = Granted(assignment)
    /\ challenges' = {}
    /\ grants' = grants + 1
    /\ UNCHANGED <<clock, minted, reset, holders, jwts, pc, local,
                   enrollments, guesses, accepted>>

\* The application has no revoke endpoint: the operator clears is_active in the table.
Revoke ==
    /\ assignment.active
    /\ RowFree
    /\ assignment' = [assignment EXCEPT !.active = FALSE]
    /\ UNCHANGED <<clock, challenges, minted, reset, holders, jwts, pc, local, history>>

ResetPassword ==
    /\ resets < MaxResets
    /\ resets' = resets + 1
    /\ boundary' = IF boundary > clock THEN boundary + 1 ELSE clock + 1
    /\ UNCHANGED <<clock, rows, holders, jwts, pc, local, history>>

Tick ==
    /\ clock < MaxClock
    /\ clock' = clock + 1
    /\ UNCHANGED <<rows, reset, holders, jwts, pc, local, history>>

-----------------------------------------------------------------------------
\* The password stage only yields a pending JWT of the version it reads.

Login ==
    /\ assignment.active
    /\ Cardinality(pendings) < MaxPendings
    /\ pendings' = pendings \cup
         {[version |-> assignment.version, expires |-> clock + PendingTTL,
           since |-> resets]}
    /\ UNCHANGED <<clock, rows, reset, holders, sessions, pc, local, history>>

\* Mutation: the pending JWT's version is not compared.
VettedUnversioned(d) == clock < d.expires /\ assignment.active

\* Both factor handlers first vet the pending JWT, outside their transaction.
Vetted(d) ==
    /\ clock < d.expires
    /\ assignment.active
    /\ assignment.version = d.version

-----------------------------------------------------------------------------
\* Starting a challenge.

StartFactor(p, d, use) ==
    /\ Goto(p, "idle", "starting")
    /\ Vetted(d)
    /\ held' = [held EXCEPT ![p] = d]
    /\ purpose' = [purpose EXCEPT ![p] = use]
    /\ at' = [at EXCEPT ![p] = clock]
    /\ UNCHANGED <<clock, rows, reset, holders, jwts, target, row, found, outcome, history>>

\* Enrollment needs the operator's gate and no seed; verification needs a seed.
Open(a, use) ==
    IF use = "enroll" THEN a.allowed /\ a.secret = 0 ELSE a.secret # 0

\* The challenge takes the version of the row as locked, not that of the JWT.
Begin(p) ==
    /\ Return(p, "starting")
    /\ RowFree
    /\ assignment.active
    /\ Open(assignment, purpose[p])
    /\ minted < MaxChallenges
    /\ minted' = minted + 1
    /\ challenges' = challenges \cup
         {[id |-> minted + 1, purpose |-> purpose[p],
           seed |-> IF purpose[p] = "enroll" THEN minted + 1 ELSE 0,
           version |-> assignment.version, expires |-> at[p] + ChallengeTTL,
           attempts |-> 0, consumed |-> FALSE]}
    /\ UNCHANGED <<clock, assignment, reset, jwts, history>>

-----------------------------------------------------------------------------
\* Finishing one.  The request carries a challenge its sender was given before.

FinishFactor(p, d, id, use) ==
    /\ Goto(p, "idle", "finishing")
    /\ Vetted(d)
    /\ held' = [held EXCEPT ![p] = d]
    /\ purpose' = [purpose EXCEPT ![p] = use]
    /\ target' = [target EXCEPT ![p] = id]
    /\ at' = [at EXCEPT ![p] = clock]
    /\ UNCHANGED <<clock, rows, reset, holders, jwts, row, found, outcome, history>>

\* Mutation: the rows are read without FOR UPDATE.
Readable == TRUE

Lockable == RowFree

ConsumeLock(p) ==
    /\ Goto(p, "finishing", "consuming")
    /\ Lockable
    /\ holders' = holders \cup {p}
    /\ row' = [row EXCEPT ![p] = assignment]
    /\ found' = [found EXCEPT ![p] =
         {c \in challenges : c.id = target[p] /\ c.purpose = purpose[p]}]
    /\ UNCHANGED <<clock, rows, reset, jwts, held, purpose, target, at, outcome, history>>

\* Mutation: one guess too many.
AttemptsSpent(c) == c.attempts <= MaxAttempts

AttemptsLeft(c) == c.attempts < MaxAttempts

\* The conditions under which a code is evaluated at all.  Expiry is judged by the
\* clock value captured before the lock was awaited.
Usable(p, c) ==
    /\ row[p].active
    /\ ~c.consumed
    /\ c.expires > at[p]
    /\ AttemptsLeft(c)
    /\ c.version = row[p].version
    /\ Open(row[p], purpose[p])

Guessed(c) == [c EXCEPT !.attempts = @ + 1]

Spent(c) == [c EXCEPT !.consumed = TRUE, !.seed = 0]

Enrolled(a, c) ==
    [active |-> a.active, secret |-> c.seed, allowed |-> FALSE, version |-> a.version + 1]

Stored(c) == {IF d.id = c.id THEN c ELSE d : d \in challenges}

WrongCode(p) ==
    \E c \in found[p] :
        /\ Return(p, "consuming")
        /\ Usable(p, c)
        /\ challenges' = Stored(Guessed(c))
        /\ guesses' = [guesses EXCEPT ![c.id] = @ + 1]
        /\ UNCHANGED <<clock, assignment, minted, reset, jwts, grants, enrollments, accepted>>

\* A right code consumes the challenge; on enrollment its seed becomes the secret,
\* the gate closes and the version moves on.
RightCode(p) ==
    \E c \in found[p] :
        LET enrolling == purpose[p] = "enroll" IN
        /\ Goto(p, "consuming", "accepted")
        /\ Usable(p, c)
        /\ assignment' = IF enrolling THEN Enrolled(row[p], c) ELSE assignment
        /\ challenges' = Stored(Spent(c))
        /\ outcome' = [outcome EXCEPT ![p] =
             [version |-> IF enrolling THEN row[p].version + 1 ELSE row[p].version,
              seed |-> IF enrolling THEN c.seed ELSE row[p].secret]]
        /\ holders' = holders \ {p}
        /\ enrollments' = IF enrolling THEN enrollments + 1 ELSE enrollments
        /\ accepted' = accepted \cup {c.id}
        /\ UNCHANGED <<clock, minted, reset, jwts, held, purpose, target, at, row, found,
                       grants, guesses>>

Refused(p) ==
    /\ Return(p, "consuming")
    /\ \A c \in found[p] : ~Usable(p, c)
    /\ UNCHANGED <<clock, rows, reset, jwts, history>>

\* The version is checked once more before the session is signed, without a lock.
CheckVersion(p) ==
    /\ Goto(p, "accepted", "checked")
    /\ Live(outcome[p].version)
    /\ UNCHANGED <<clock, rows, reset, holders, jwts, local, history>>

Sign(p) ==
    /\ Return(p, "checked")
    /\ Cardinality(sessions) < MaxSessions
    /\ sessions' = sessions \cup
         {[version |-> outcome[p].version, iat |-> clock,
           pending |-> held[p].version, via |-> purpose[p],
           seed |-> outcome[p].seed, since |-> held[p].since]}
    /\ UNCHANGED <<clock, rows, reset, pendings, history>>

\* Any handler can end early: a refused challenge or version, a failed query, a
\* cancelled request or a crash.  An open transaction rolls back.
Abort(p) ==
    /\ pc[p] # "idle"
    /\ Return(p, pc[p])
    /\ UNCHANGED <<clock, rows, reset, jwts, history>>

Operate == Grant \/ Revoke \/ ResetPassword \/ Tick

Challenged(p) ==
    \/ \E d \in pendings, use \in Purpose :
          \/ StartFactor(p, d, use)
          \/ \E c \in challenges : FinishFactor(p, d, c.id, use)
    \/ Begin(p)
    \/ ConsumeLock(p) \/ WrongCode(p) \/ RightCode(p) \/ Refused(p)
    \/ CheckVersion(p) \/ Sign(p) \/ Abort(p)

Next == Operate \/ Login \/ \E p \in Proc : Challenged(p)

Spec == Init /\ [][Next]_vars

-----------------------------------------------------------------------------
\* Properties.

\* A verified session that passes SessionCheck goes back to the seed enrolled now:
\* recovery and re-enrollment never bring a session of an older seed to life, however
\* its signing raced them ("Every invocation [...] increments the factor version",
\* Grant and Consume against CheckVersion).
SessionsOfCurrentSeed ==
    \A s \in sessions : Accepted(s) => s.seed = assignment.secret

\* A session once refused for its version stays refused: no sequence of revocation,
\* recovery and enrollment reaches its version again (Grant, Consume).
DeadSessionsStayDead ==
    [][\A s \in sessions : ~Live(s.version) => ~Live(s.version)']_vars

\* "Every invocation enables one enrollment": concurrent enrollment challenges cannot
\* spend one grant twice (Consume).
OneEnrollmentPerGrant == enrollments <= grants

\* A challenge "allows five attempts" and is accepted once, although requests with the
\* same challenge race (Consume).
GuessesBounded == \A c \in 1..MaxChallenges : guesses[c] <= MaxAttempts
AcceptedOnce ==
    [][\A p \in Proc : RightCode(p) => target[p] \notin accepted]_vars

\* A session's version is that of the pending JWT it was exchanged for, or its successor
\* on enrollment: a pending JWT from before a recovery never becomes a session after it,
\* although the JWT is vetted outside the transaction (FinishFactor, Begin, Consume).
PendingBindsSession ==
    \A s \in sessions :
        s.version = IF s.via = "enroll" THEN s.pending + 1 ELSE s.pending

\* "post-reset login issues a JWT at or after that boundary" (ADR-KEL-66), read for the
\* platform login: the session it ends in is not rejected for its iat.
PostResetSessionsAccepted ==
    \A s \in sessions : s.since = resets => s.iat >= boundary

=============================================================================
