------------------------- MODULE SessionRevocation -------------------------
(***************************************************************************)
(* Password reset, account lockout and session revocation of one account.  *)
(*                                                                         *)
(* The account is one row of "users" with its "password_reset_tokens".     *)
(* Every transaction of these handlers locks only its own user row, so two *)
(* accounts never interact and one is modelled.  Processes are request     *)
(* goroutines; each runs one handler at a time, and a handler is split     *)
(* exactly where it reads without the row lock, waits for it, or commits.  *)
(*                                                                         *)
(* A password is its generation: 1 at first, one more per committed reset  *)
(* (a reset to a password used before is not distinguished).  Guess 0      *)
(* stands for a password the account never had.                            *)
(***************************************************************************)
EXTENDS Naturals, FiniteSets

CONSTANTS
    Proc,             \* request goroutines
    TicksPerSecond,   \* JWT iat and the boundary are whole seconds; the rest is finer
    ResetTTL,         \* life of a reset token, in ticks
    LockTicks,        \* login_locked_until - now when an account locks, in ticks
    SessionSeconds,   \* life of a JWT, in seconds
    Threshold,        \* failed logins that lock the account
    MaxClock,         \* bound: last tick
    MaxIssued,        \* bound: reset tokens ever issued
    MaxSessions       \* bound: sessions ever issued

ASSUME TimeAssumption ==
    /\ TicksPerSecond \in Nat \ {0}
    /\ ResetTTL \in Nat
    /\ LockTicks \in Nat
    /\ SessionSeconds \in Nat
    /\ MaxClock \in Nat
ASSUME CountAssumption ==
    /\ Threshold \in Nat \ {0}
    /\ MaxIssued \in Nat
    /\ MaxSessions \in Nat

VARIABLES
    clock,      \* wall clock, in ticks
    account,    \* the committed users row
    tokens,     \* the committed password_reset_tokens rows
    issued,     \* serial of the last committed reset token
    writers,    \* transactions that hold the row FOR UPDATE
    readers,    \* transactions that hold it FOR SHARE
    pc,         \* where each process is in its handler
    at,         \* the clock value its handler captured
    guess,      \* the password (generation) a login presents
    token,      \* the reset token a request carries
    claim,      \* the session a tenant switch presents
    seen,       \* the row as the handler last read it
    sessions,   \* every JWT ever issued for the account
    \* history, read by no action
    resetLog,   \* the clock value captured by each committed reset
    redeemed,   \* reset tokens redeemed
    streak      \* failed logins since the last success or lock

db == <<account, tokens, issued>>
locks == <<writers, readers>>
history == <<resetLog, redeemed, streak>>
local == <<pc, at, guess, token, claim, seen>>
vars == <<clock, db, locks, local, sessions, history>>

-----------------------------------------------------------------------------

\* The whole second a clock value falls in: time.Truncate and JWT NumericDate.
Second(t) == t \div TicksPerSecond

Later(a, b) == IF a > b THEN a ELSE b

\* session_valid_after and login_locked_until are NULL at first; no clock value
\* lies before 0, so 0 is NULL for both comparisons.
Account ==
    [pw: Nat, validAfter: Nat, attempts: 0..(Threshold - 1), lockedUntil: Nat]

Token == [id: Nat, expires: Nat, used: BOOLEAN]

\* auth:  generation of the password the session goes back to
\* knew:  generation when the boundary it was issued under was read
\* gen:   generation when it was issued;  when, iat: its issue tick and JWT iat
Session == [auth: Nat, knew: Nat, gen: Nat, when: Nat, iat: Nat]
NoClaim == [auth |-> 0, knew |-> 0, gen |-> 0, when |-> 0, iat |-> 0]

Step == {"idle", "authenticating", "authenticated", "bounded",
         "requested", "confirming", "found", "consuming", "switching"}

TypeOK ==
    /\ clock \in Nat
    /\ account \in Account
    /\ tokens \in SUBSET Token
    /\ issued \in Nat
    /\ writers \in SUBSET Proc
    /\ readers \in SUBSET Proc
    /\ pc \in [Proc -> Step]
    /\ at \in [Proc -> Nat]
    /\ guess \in [Proc -> Nat]
    /\ token \in [Proc -> Nat]
    /\ claim \in [Proc -> Session]
    /\ seen \in [Proc -> Account]
    /\ sessions \in SUBSET Session
    /\ resetLog \in SUBSET [gen: Nat, at: Nat]
    /\ redeemed \in SUBSET Nat
    /\ streak \in Nat

FreshAccount == [pw |-> 1, validAfter |-> 0, attempts |-> 0, lockedUntil |-> 0]

Init ==
    /\ clock = 0
    /\ account = FreshAccount
    /\ tokens = {}
    /\ issued = 0
    /\ writers = {}
    /\ readers = {}
    /\ pc = [p \in Proc |-> "idle"]
    /\ at = [p \in Proc |-> 0]
    /\ guess = [p \in Proc |-> 0]
    /\ token = [p \in Proc |-> 0]
    /\ claim = [p \in Proc |-> NoClaim]
    /\ seen = [p \in Proc |-> FreshAccount]
    /\ sessions = {}
    /\ resetLog = {}
    /\ redeemed = {}
    /\ streak = 0

-----------------------------------------------------------------------------
\* The row lock of PostgreSQL: one writer, or any number of readers.

WriteFree == writers = {} /\ readers = {}

\* Mutation: the rows are read without FOR UPDATE.
ReadForUpdate(p) ==
    /\ writers' = writers \cup {p}
    /\ seen' = [seen EXCEPT ![p] = account]
    /\ UNCHANGED readers

LockForUpdate(p) ==
    /\ WriteFree
    /\ writers' = writers \cup {p}
    /\ seen' = [seen EXCEPT ![p] = account]
    /\ UNCHANGED readers

\* Mutation: the row is read without FOR SHARE.
ReadForShare(p) ==
    /\ seen' = [seen EXCEPT ![p] = account]
    /\ UNCHANGED locks

LockForShare(p) ==
    /\ writers = {}
    /\ readers' = readers \cup {p}
    /\ seen' = [seen EXCEPT ![p] = account]
    /\ UNCHANGED writers

Unlock(p) ==
    /\ writers' = writers \ {p}
    /\ readers' = readers \ {p}

Goto(p, from, to) ==
    /\ pc[p] = from
    /\ pc' = [pc EXCEPT ![p] = to]

\* The handler returns: its variables are gone and its transaction, if any, over.
Return(p, from) ==
    /\ Goto(p, from, "idle")
    /\ Unlock(p)
    /\ at' = [at EXCEPT ![p] = 0]
    /\ guess' = [guess EXCEPT ![p] = 0]
    /\ token' = [token EXCEPT ![p] = 0]
    /\ claim' = [claim EXCEPT ![p] = NoClaim]
    /\ seen' = [seen EXCEPT ![p] = FreshAccount]

\* Mutation: the JWT is dated now, whatever the boundary.
IssuedNow(validAfter) == Second(clock)

\* iat and exp are fixed when the JWT is signed: never before the boundary.
IssuedAt(validAfter) == Later(Second(clock), validAfter)

Unexpired(s) == Second(clock) < s.iat + SessionSeconds

\* SessionCheck's verdict on a signed session.
Accepted(s) == Unexpired(s) /\ s.iat >= account.validAfter

-----------------------------------------------------------------------------
\* Login.  Authenticate runs in one transaction under the row lock.

AuthLock(p, g) ==
    /\ Goto(p, "idle", "authenticating")
    /\ LockForUpdate(p)
    /\ at' = [at EXCEPT ![p] = clock]
    /\ guess' = [guess EXCEPT ![p] = g]
    /\ UNCHANGED <<clock, db, token, claim, sessions, history>>

\* While the account is locked nothing is written, whatever the password.
AuthRefused(p) ==
    /\ Return(p, "authenticating")
    /\ at[p] < seen[p].lockedUntil
    /\ UNCHANGED <<clock, db, sessions, history>>

\* Mutation: one failure too many is allowed.
LocksAfter(failures) == failures > Threshold

Locks(failures) == failures >= Threshold

\* A mismatch is committed, not rolled back; the Threshold-th locks the account.
AuthMismatch(p) ==
    LET failures == seen[p].attempts + 1
        locking == Locks(failures)
    IN  /\ Return(p, "authenticating")
        /\ at[p] >= seen[p].lockedUntil
        /\ guess[p] # seen[p].pw
        /\ account' = [account EXCEPT
                         !.attempts = IF locking THEN 0 ELSE failures,
                         !.lockedUntil = IF locking THEN at[p] + LockTicks ELSE 0]
        /\ streak' = IF locking THEN 0 ELSE streak + 1
        /\ UNCHANGED <<clock, tokens, issued, sessions, resetLog, redeemed>>

AuthMatch(p) ==
    /\ Goto(p, "authenticating", "authenticated")
    /\ at[p] >= seen[p].lockedUntil
    /\ guess[p] = seen[p].pw
    /\ account' = [account EXCEPT !.attempts = 0, !.lockedUntil = 0]
    /\ streak' = 0
    /\ Unlock(p)
    /\ UNCHANGED <<clock, tokens, issued, at, guess, token, claim, seen,
                   sessions, resetLog, redeemed>>

\* The boundary is read after that transaction, without a lock.
ReadBoundary(p) ==
    /\ Goto(p, "authenticated", "bounded")
    /\ seen' = [seen EXCEPT ![p] = account]
    /\ UNCHANGED <<clock, db, locks, at, guess, token, claim, sessions, history>>

SignLogin(p) ==
    /\ Return(p, "bounded")
    /\ Cardinality(sessions) < MaxSessions
    /\ sessions' = sessions \cup
         {[auth |-> guess[p], knew |-> seen[p].pw, gen |-> account.pw,
           when |-> clock, iat |-> IssuedAt(seen[p].validAfter)]}
    /\ UNCHANGED <<clock, db, history>>

-----------------------------------------------------------------------------
\* Requesting a reset.  The expiry is fixed before the row lock is awaited.

RequestReset(p) ==
    /\ Goto(p, "idle", "requested")
    /\ at' = [at EXCEPT ![p] = clock]
    /\ UNCHANGED <<clock, db, locks, guess, token, claim, seen, sessions, history>>

\* Issue's transaction reads nothing it writes, so lock and commit are one step.
IssueToken(p) ==
    /\ Return(p, "requested")
    /\ issued < MaxIssued
    /\ WriteFree
    /\ issued' = issued + 1
    /\ tokens' = {[id |-> issued', expires |-> at[p] + ResetTTL, used |-> FALSE]}
    /\ UNCHANGED <<clock, account, sessions, history>>

-----------------------------------------------------------------------------
\* Confirming a reset.  The caller's clock value is captured here, before Consume
\* looks the token up and before it waits for the row lock.

ConfirmReset(p, id) ==
    /\ Goto(p, "idle", "confirming")
    /\ at' = [at EXCEPT ![p] = clock]
    /\ token' = [token EXCEPT ![p] = id]
    /\ UNCHANGED <<clock, db, locks, guess, claim, seen, sessions, history>>

Rows(id) == {t \in tokens : t.id = id}

FindToken(p) ==
    /\ Rows(token[p]) # {}
    /\ Goto(p, "confirming", "found")
    /\ UNCHANGED <<clock, db, locks, at, guess, token, claim, seen, sessions, history>>

TokenGone(p) ==
    /\ Rows(token[p]) = {}
    /\ Return(p, "confirming")
    /\ UNCHANGED <<clock, db, sessions, history>>

ConsumeLock(p) ==
    /\ Goto(p, "found", "consuming")
    /\ LockForUpdate(p)
    /\ UNCHANGED <<clock, db, at, guess, token, claim, sessions, history>>

\* Mutation: the used flag is not checked again under the lock.
Unexpiring(t) == clock < t.expires

\* Expiry is judged by the clock of now, not by the captured one.
Redeemable(t) == ~t.used /\ clock < t.expires

\* Mutation: the boundary is not moved past the previous one.
NextSecond(p) == Second(at[p]) + 1

\* First whole second after the captured clock value, and past the old boundary.
NewBoundary(p) ==
    Later(Second(at[p]) + 1, seen[p].validAfter + 1)

Consume(p) ==
    \E t \in Rows(token[p]) :
        /\ Return(p, "consuming")
        /\ Redeemable(t)
        /\ account' = [account EXCEPT !.pw = @ + 1, !.validAfter = NewBoundary(p)]
        /\ tokens' = {[id |-> t.id, expires |-> t.expires, used |-> TRUE]}
        /\ resetLog' = resetLog \cup {[gen |-> account.pw + 1, at |-> at[p]]}
        /\ redeemed' = redeemed \cup {t.id}
        /\ UNCHANGED <<clock, issued, sessions, streak>>

ConsumeRefused(p) ==
    /\ Return(p, "consuming")
    /\ \A t \in Rows(token[p]) : ~Redeemable(t)
    /\ UNCHANGED <<clock, db, sessions, history>>

-----------------------------------------------------------------------------
\* Switching the tenant: a session signed under the row's FOR SHARE lock for the
\* holder of a live one.

SwitchLock(p, s) ==
    /\ Goto(p, "idle", "switching")
    /\ Unexpired(s)
    /\ LockForShare(p)
    /\ claim' = [claim EXCEPT ![p] = s]
    /\ UNCHANGED <<clock, db, at, guess, token, sessions, history>>

SwitchSign(p) ==
    /\ Return(p, "switching")
    /\ Unexpired(claim[p])
    /\ claim[p].iat >= seen[p].validAfter
    /\ Cardinality(sessions) < MaxSessions
    /\ sessions' = sessions \cup
         {[auth |-> claim[p].auth, knew |-> seen[p].pw, gen |-> account.pw,
           when |-> clock, iat |-> IssuedAt(seen[p].validAfter)]}
    /\ UNCHANGED <<clock, db, history>>

-----------------------------------------------------------------------------
\* A failed query, a cancelled request or a crash ends the handler anywhere; its
\* open transaction rolls back and PostgreSQL drops its locks.  A switch refused
\* for a revoked session or a missing membership ends the same way.
Abort(p) ==
    /\ pc[p] # "idle"
    /\ Return(p, pc[p])
    /\ UNCHANGED <<clock, db, sessions, history>>

Tick ==
    /\ clock < MaxClock
    /\ clock' = clock + 1
    /\ UNCHANGED <<db, locks, local, sessions, history>>

Login(p) ==
    \/ \E g \in 0..account.pw : AuthLock(p, g)
    \/ AuthRefused(p) \/ AuthMismatch(p) \/ AuthMatch(p)
    \/ ReadBoundary(p) \/ SignLogin(p)

Reset(p) ==
    \/ RequestReset(p) \/ IssueToken(p)
    \/ \E id \in 1..issued : ConfirmReset(p, id)
    \/ FindToken(p) \/ TokenGone(p) \/ ConsumeLock(p) \/ Consume(p) \/ ConsumeRefused(p)

Switch(p) ==
    \/ \E s \in sessions : SwitchLock(p, s)
    \/ SwitchSign(p)

Next == Tick \/ \E p \in Proc : Login(p) \/ Reset(p) \/ Switch(p) \/ Abort(p)

Spec == Init /\ [][Next]_vars

-----------------------------------------------------------------------------
\* Properties.

\* A reset revokes every session that was issued before its handler read the
\* clock, for good, however the JWT came about: by a login or a tenant switch, in
\* the same second, or carrying a boundary of an earlier reset that still lies in
\* the future (Consume's boundary arithmetic, SessionCheck's comparison).
ResetRevokesEarlierSessions ==
    \A s \in sessions, r \in resetLog :
        s.gen < r.gen /\ s.when <= r.at => ~Accepted(s)

\* A login or switch that read the boundary of the last reset holds a session that
\* SessionCheck accepts at once: the boundary may lie in the future, and the JWT is
\* then dated forward (GenerateTokenAfter), never born revoked.
CurrentSessionsAccepted ==
    \A s \in sessions :
        s.knew = account.pw /\ Unexpired(s) => Accepted(s)

\* A password changes only by redeeming the last committed reset token, once, although
\* tokens are rotated and confirmed concurrently and a confirmation finds its token
\* before it holds the row lock (Issue, Consume).
ResetRedeemsNewestTokenOnce ==
    [][account'.pw # account.pw =>
         /\ issued \notin redeemed
         /\ redeemed' = redeemed \cup {issued}]_vars

\* Failed logins are never lost: Threshold of them without a success always lock the
\* account, however many run at once (Authenticate).
FailuresAlwaysCounted == streak < Threshold

\* A login succeeds only while the committed row is not locked: a correct password
\* racing the failure that locks the account does not slip through (Authenticate).
LockoutBlocksLogin ==
    [][\A p \in Proc : AuthMatch(p) => at[p] >= account.lockedUntil]_vars

\* A tenant switch signs a new session only for one that is not revoked at that very
\* moment, so a concurrent reset cannot be outrun by trading the old session for a new
\* one (WithMembership holds the user row FOR SHARE until the JWT is signed).
SwitchNeverRevives ==
    [][\A p \in Proc : SwitchSign(p) => claim[p].iat >= account.validAfter]_vars

\* "Pre-reset JWTs therefore compare strictly before the current boundary"
\* (ADR-KEL-66): no session issued before the last reset committed is accepted.
PreResetSessionsRevoked ==
    \A s \in sessions : s.gen < account.pw => ~Accepted(s)

\* The same decision seen from the password: a session at or after the boundary comes
\* from a post-reset login, one that presented the current password.
ReplacedPasswordGrantsNothing ==
    \A s \in sessions : Accepted(s) => s.auth = account.pw

=============================================================================
