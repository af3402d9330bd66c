---------------------- MODULE SessionRevocation_proofs ----------------------
(***************************************************************************)
(* Proofs about SessionRevocation, for any number of processes, any clock  *)
(* resolution and any bound.                                               *)
(***************************************************************************)
EXTENDS SessionRevocation, TLAPS

\* Seconds are natural numbers and never run backwards.
LEMMA SecondNat == ASSUME NEW t \in Nat PROVE Second(t) \in Nat
BY TimeAssumption DEF Second

LEMMA SecondMonotonic ==
    ASSUME NEW t \in Nat, NEW u \in Nat, t <= u
    PROVE  Second(t) <= Second(u)
BY TimeAssumption DEF Second

LEMMA LaterNat ==
    ASSUME NEW a \in Nat, NEW b \in Nat
    PROVE  /\ Later(a, b) \in Nat
           /\ Later(a, b) >= a
           /\ Later(a, b) >= b
           /\ Later(a, b) = a \/ Later(a, b) = b
BY DEF Later

-----------------------------------------------------------------------------
(***************************************************************************)
(* Type correctness.  Every action is either one of a process or a tick.   *)
(***************************************************************************)

\* Init and every step keep the types, among them that a committed row never
\* holds Threshold failures.
LEMMA TypeInit == Init => TypeOK
<1>1. FreshAccount \in Account
  BY CountAssumption DEF FreshAccount, Account
<1>2. NoClaim \in Session
  BY DEF NoClaim, Session
<1> QED
  BY <1>1, <1>2 DEF Init, TypeOK, Step

\* What Return leaves behind is typed.
LEMMA ReturnType ==
    ASSUME TypeOK, NEW p \in Proc, NEW from, Return(p, from)
    PROVE  /\ writers' \in SUBSET Proc
           /\ readers' \in SUBSET Proc
           /\ pc' \in [Proc -> Step]
           /\ at' \in [Proc -> Nat]
           /\ guess' \in [Proc -> Nat]
           /\ token' \in [Proc -> Nat]
           /\ claim' \in [Proc -> Session]
           /\ seen' \in [Proc -> Account]
<1>1. FreshAccount \in Account
  BY CountAssumption DEF FreshAccount, Account
<1>2. NoClaim \in Session
  BY DEF NoClaim, Session
<1> QED
  BY <1>1, <1>2 DEF Return, Goto, Unlock, TypeOK, Step

\* A signed session is a session.
LEMMA IssuedAtNat ==
    ASSUME TypeOK, NEW v \in Nat
    PROVE  IssuedAt(v) \in Nat
BY SecondNat, LaterNat DEF IssuedAt, TypeOK

LEMMA LoginType == ASSUME TypeOK, NEW p \in Proc, Login(p) PROVE TypeOK'
<1>1. ASSUME NEW g \in 0..account.pw, AuthLock(p, g) PROVE TypeOK'
  <2>1. g \in Nat
    BY DEF TypeOK, Account
  <2> QED
    BY <1>1, <2>1 DEF AuthLock, Goto, LockForUpdate, TypeOK, Step, db, history
<1>2. CASE AuthRefused(p)
  BY <1>2, ReturnType DEF AuthRefused, TypeOK, db, history
<1>3. CASE AuthMismatch(p)
  <2> DEFINE f == seen[p].attempts + 1
             u == at[p] + LockTicks
  <2>1. f \in Nat /\ u \in Nat
    BY TimeAssumption, CountAssumption DEF TypeOK, Account
  <2>2. account' = [account EXCEPT !.attempts = IF Locks(f) THEN 0 ELSE f,
                                   !.lockedUntil = IF Locks(f) THEN u ELSE 0]
    BY <1>3 DEF AuthMismatch
  <2>3. (IF Locks(f) THEN 0 ELSE f) \in 0..(Threshold - 1)
    BY <2>1, CountAssumption DEF Locks
  <2>4. account' \in Account
    <3> HIDE DEF f, u
    <3> QED BY <2>1, <2>2, <2>3 DEF TypeOK, Account
  <2>5. streak' \in Nat
    BY <1>3 DEF AuthMismatch, TypeOK
  <2>6. /\ Return(p, "authenticating")
        /\ UNCHANGED <<clock, tokens, issued, sessions, resetLog, redeemed>>
    BY <1>3 DEF AuthMismatch
  <2> QED
    BY <2>4, <2>5, <2>6, ReturnType DEF TypeOK
<1>4. CASE AuthMatch(p)
  <2>1. account' = [account EXCEPT !.attempts = 0, !.lockedUntil = 0]
    BY <1>4 DEF AuthMatch
  <2>2. 0 \in 0..(Threshold - 1)
    BY CountAssumption
  <2>3. account' \in Account
    BY <2>1, <2>2 DEF TypeOK, Account
  <2> QED
    BY <1>4, <2>3 DEF AuthMatch, Goto, Unlock, TypeOK, Step
<1>5. CASE ReadBoundary(p)
  BY <1>5 DEF ReadBoundary, Goto, TypeOK, Step, db, locks, history
<1>6. CASE SignLogin(p)
  <2>1. IssuedAt(seen[p].validAfter) \in Nat
    BY IssuedAtNat DEF TypeOK, Account
  <2>2. sessions' \in SUBSET Session
    BY <1>6, <2>1 DEF SignLogin, TypeOK, Session, Account
  <2> QED
    BY <1>6, <2>2, ReturnType DEF SignLogin, TypeOK, db, history
<1> QED
  BY <1>1, <1>2, <1>3, <1>4, <1>5, <1>6 DEF Login

\* The new boundary is past the old one and past the captured second.
LEMMA NewBoundaryAdvances ==
    ASSUME TypeOK, NEW p \in Proc
    PROVE  /\ NewBoundary(p) \in Nat
           /\ NewBoundary(p) > seen[p].validAfter
           /\ NewBoundary(p) > Second(at[p])
<1>1. Second(at[p]) \in Nat /\ seen[p].validAfter \in Nat
  BY SecondNat DEF TypeOK, Account
<1> QED
  BY <1>1 DEF NewBoundary, Later

LEMMA ResetType == ASSUME TypeOK, NEW p \in Proc, Reset(p) PROVE TypeOK'
<1>1. CASE RequestReset(p)
  BY <1>1 DEF RequestReset, Goto, TypeOK, Step, db, locks, history
<1>2. CASE IssueToken(p)
  <2>1. tokens' \in SUBSET Token /\ issued' \in Nat
    BY <1>2, TimeAssumption DEF IssueToken, TypeOK, Token
  <2> QED
    BY <1>2, <2>1, ReturnType DEF IssueToken, TypeOK, history
<1>3. ASSUME NEW id \in 1..issued, ConfirmReset(p, id) PROVE TypeOK'
  BY <1>3 DEF ConfirmReset, Goto, TypeOK, Step, db, locks, history
<1>4. CASE FindToken(p)
  BY <1>4 DEF FindToken, Goto, TypeOK, Step, db, locks, history
<1>5. CASE TokenGone(p)
  BY <1>5, ReturnType DEF TokenGone, TypeOK, db, history
<1>6. CASE ConsumeLock(p)
  BY <1>6 DEF ConsumeLock, Goto, LockForUpdate, TypeOK, Step, db, history
<1>7. CASE Consume(p)
  <2>1. PICK t \in Rows(token[p]) :
           /\ Return(p, "consuming")
           /\ account' = [account EXCEPT !.pw = @ + 1, !.validAfter = NewBoundary(p)]
           /\ tokens' = {[id |-> t.id, expires |-> t.expires, used |-> TRUE]}
           /\ resetLog' = resetLog \cup {[gen |-> account.pw + 1, at |-> at[p]]}
           /\ redeemed' = redeemed \cup {t.id}
           /\ UNCHANGED <<clock, issued, sessions, streak>>
    BY <1>7 DEF Consume
  <2>2. t \in Token
    BY DEF Rows, TypeOK
  <2>3. account' \in Account
    <3>1. account' = [account EXCEPT !.pw = account.pw + 1,
                                     !.validAfter = NewBoundary(p)]
      BY <2>1
    <3>2. NewBoundary(p) \in Nat
      BY NewBoundaryAdvances
    <3>3. account \in Account /\ account.pw + 1 \in Nat
      BY DEF TypeOK, Account
    <3> DEFINE n == account.pw + 1
               b == NewBoundary(p)
    <3> HIDE DEF n, b
    <3>4. /\ account' = [account EXCEPT !.pw = n, !.validAfter = b]
          /\ n \in Nat
          /\ b \in Nat
      BY <3>1, <3>2, <3>3 DEF n, b
    <3> QED BY <3>3, <3>4 DEF Account
  <2>4. tokens' \in SUBSET Token /\ redeemed' \in SUBSET Nat
    BY <2>1, <2>2 DEF TypeOK, Token
  <2>5. resetLog' \in SUBSET [gen: Nat, at: Nat]
    BY <2>1 DEF TypeOK, Account
  <2> QED
    BY <2>1, <2>3, <2>4, <2>5, ReturnType DEF TypeOK
<1>8. CASE ConsumeRefused(p)
  BY <1>8, ReturnType DEF ConsumeRefused, TypeOK, db, history
<1> QED
  BY <1>1, <1>2, <1>3, <1>4, <1>5, <1>6, <1>7, <1>8 DEF Reset

LEMMA SwitchType == ASSUME TypeOK, NEW p \in Proc, Switch(p) PROVE TypeOK'
<1>1. ASSUME NEW s \in sessions, SwitchLock(p, s) PROVE TypeOK'
  BY <1>1 DEF SwitchLock, Goto, LockForShare, TypeOK, Step, db, history
<1>2. CASE SwitchSign(p)
  <2>1. IssuedAt(seen[p].validAfter) \in Nat
    BY IssuedAtNat DEF TypeOK, Account
  <2>2. sessions' \in SUBSET Session
    BY <1>2, <2>1 DEF SwitchSign, TypeOK, Session, Account
  <2> QED
    BY <1>2, <2>2, ReturnType DEF SwitchSign, TypeOK, db, history
<1> QED
  BY <1>1, <1>2 DEF Switch

LEMMA TypeStep == TypeOK /\ [Next]_vars => TypeOK'
<1> SUFFICES ASSUME TypeOK, [Next]_vars PROVE TypeOK'
  OBVIOUS
<1>1. CASE Tick
  BY <1>1 DEF Tick, TypeOK, db, locks, local, history
<1>2. ASSUME NEW p \in Proc, Abort(p) PROVE TypeOK'
  BY <1>2, ReturnType DEF Abort, TypeOK, db, history
<1>3. CASE UNCHANGED vars
  BY <1>3 DEF vars, TypeOK, db, locks, local, history
<1> QED
  BY <1>1, <1>2, <1>3, LoginType, ResetType, SwitchType DEF Next

\* Every reachable state is typed: among others, the committed row never holds
\* Threshold failures (Authenticate stores 0 when it locks).
THEOREM TypeCorrect == Spec => []TypeOK
BY TypeInit, TypeStep, PTL DEF Spec

-----------------------------------------------------------------------------
(***************************************************************************)
(* The inductive invariant.                                                *)
(***************************************************************************)

\* The row lock excludes, and is held exactly while a handler's transaction is
\* open; what its holder has read is therefore still the committed row.
LockInv ==
    /\ \A p \in Proc : p \in writers <=> pc[p] \in {"authenticating", "consuming"}
    /\ \A p \in Proc : p \in readers <=> pc[p] = "switching"
    /\ \A p, q \in writers : p = q
    /\ writers # {} => readers = {}
    /\ \A p \in writers \cup readers : seen[p] = account

\* A login that has read the boundary without the lock has read one of some
\* generation up to the current one.
ReadInv ==
    \A p \in Proc : pc[p] = "bounded" =>
        /\ seen[p].pw <= account.pw
        /\ seen[p].validAfter <= account.validAfter
        /\ seen[p].pw = account.pw => seen[p].validAfter = account.validAfter

\* A session is dated by its second or by a boundary that was in force.
SessionInv ==
    \A s \in sessions :
        /\ s.gen <= account.pw
        /\ s.iat <= Second(s.when) \/ s.iat <= account.validAfter
        /\ s.knew <= account.pw
        /\ s.knew = account.pw => s.iat >= account.validAfter

ResetInv ==
    \A r \in resetLog :
        /\ r.gen <= account.pw
        /\ \A s \in sessions :
              s.gen < r.gen /\ s.when <= r.at => s.iat < account.validAfter

\* Only the last committed token is on record, and it is unused until redeemed.
TokenInv ==
    /\ \A t \in tokens : t.id = issued /\ (~t.used => issued \notin redeemed)
    /\ \A id \in redeemed : id <= issued

\* The stored count is the number of failures since the last success or lock.
FailureInv == streak = account.attempts

IInv == LockInv /\ ReadInv /\ SessionInv /\ ResetInv /\ TokenInv /\ FailureInv

LEMMA IInvInit == Init => IInv
<1> SUFFICES ASSUME Init PROVE IInv
  OBVIOUS
<1>1. LockInv
  BY DEF Init, LockInv
<1>2. ReadInv
  BY DEF Init, ReadInv
<1>3. SessionInv /\ ResetInv /\ TokenInv
  BY DEF Init, SessionInv, ResetInv, TokenInv
<1>4. FailureInv
  BY DEF Init, FailureInv, FreshAccount
<1> QED
  BY <1>1, <1>2, <1>3, <1>4 DEF IInv

\* The password and the boundary only move together, and only forwards.
Forward ==
    \/ account'.pw = account.pw /\ account'.validAfter = account.validAfter
    \/ account'.pw > account.pw /\ account'.validAfter > account.validAfter

\* A handler that returns keeps the lock discipline: if it wrote the row, it was
\* the only holder of the lock.
LEMMA ReturnKeepsLocks ==
    ASSUME TypeOK, LockInv, NEW p \in Proc, NEW from, Return(p, from),
           account' = account \/ p \in writers
    PROVE  LockInv'
<1>1. /\ writers' = writers \ {p}
      /\ readers' = readers \ {p}
      /\ pc' = [pc EXCEPT ![p] = "idle"]
      /\ \A q \in Proc : q # p => seen'[q] = seen[q]
  BY DEF Return, Goto, Unlock, TypeOK
<1>2. \A q \in Proc : q # p => pc'[q] = pc[q]
  BY <1>1 DEF TypeOK
<1>3. pc'[p] = "idle"
  BY <1>1 DEF TypeOK
<1>4. \A q \in writers' \cup readers' : seen'[q] = account'
  BY <1>1 DEF LockInv, TypeOK
<1>5. /\ \A q \in Proc : q \in writers' <=> pc'[q] \in {"authenticating", "consuming"}
      /\ \A q \in Proc : q \in readers' <=> pc'[q] = "switching"
  BY <1>1, <1>2, <1>3 DEF LockInv
<1>6. /\ \A q, r \in writers' : q = r
      /\ writers' # {} => readers' = {}
  BY <1>1 DEF LockInv
<1> QED
  BY <1>4, <1>5, <1>6 DEF LockInv

LEMMA ReturnKeepsReads ==
    ASSUME TypeOK, ReadInv, NEW p \in Proc, NEW from, Return(p, from),
           TypeOK', Forward
    PROVE  ReadInv'
<1> SUFFICES ASSUME NEW q \in Proc, pc'[q] = "bounded"
             PROVE  /\ seen'[q].pw <= account'.pw
                    /\ seen'[q].validAfter <= account'.validAfter
                    /\ seen'[q].pw = account'.pw =>
                         seen'[q].validAfter = account'.validAfter
  BY DEF ReadInv
<1>1. q # p /\ pc[q] = "bounded" /\ seen'[q] = seen[q]
  BY DEF Return, Goto, TypeOK
<1>2. /\ seen[q].pw <= account.pw
      /\ seen[q].validAfter <= account.validAfter
      /\ seen[q].pw = account.pw => seen[q].validAfter = account.validAfter
  BY <1>1 DEF ReadInv
<1>3. /\ seen[q] \in Account /\ account \in Account /\ account' \in Account
  BY DEF TypeOK
<1> QED
  BY <1>1, <1>2, <1>3 DEF Forward, Account

\* What a step that writes no table keeps.
LEMMA QuietKeeps ==
    ASSUME IInv, UNCHANGED <<account, tokens, issued, sessions, history>>
    PROVE  SessionInv' /\ ResetInv' /\ TokenInv' /\ FailureInv'
<1>1. SessionInv'
  BY DEF IInv, SessionInv, Second
<1>2. ResetInv'
  BY DEF IInv, ResetInv, history
<1>3. TokenInv' /\ FailureInv'
  BY DEF IInv, TokenInv, FailureInv, history
<1> QED
  BY <1>1, <1>2, <1>3

\* Taking the row lock.
LEMMA LockKeeps ==
    ASSUME TypeOK, LockInv, ReadInv, account' = account, NEW p \in Proc,
           NEW from, NEW to, Goto(p, from, to),
           from \in {"idle", "found"},
           \/ LockForUpdate(p) /\ to \in {"authenticating", "consuming"}
           \/ LockForShare(p) /\ to = "switching"
    PROVE  LockInv' /\ ReadInv'
<1>1. /\ pc' = [pc EXCEPT ![p] = to]
      /\ pc[p] = from
      /\ seen' = [seen EXCEPT ![p] = account]
  BY DEF Goto, LockForUpdate, LockForShare
<1>2. p \notin writers /\ p \notin readers
  BY <1>1 DEF LockInv
<1>3. ASSUME LockForUpdate(p), to \in {"authenticating", "consuming"} PROVE LockInv'
  BY <1>1, <1>2, <1>3 DEF LockInv, LockForUpdate, WriteFree, TypeOK
<1>4. ASSUME LockForShare(p), to = "switching" PROVE LockInv'
  BY <1>1, <1>2, <1>4 DEF LockInv, LockForShare, TypeOK
<1>5. ReadInv'
  BY <1>1 DEF ReadInv, TypeOK
<1> QED
  BY <1>3, <1>4, <1>5

\* A step of a handler that holds no lock before or after it.
LEMMA UnlockedKeeps ==
    ASSUME TypeOK, LockInv, ReadInv, UNCHANGED <<account, writers, readers>>,
           NEW p \in Proc, NEW from, NEW to, Goto(p, from, to),
           from \notin {"authenticating", "consuming", "switching"},
           to \notin {"authenticating", "consuming", "switching"},
           \/ seen' = seen /\ to # "bounded"
           \/ seen' = [seen EXCEPT ![p] = account]
    PROVE  LockInv' /\ ReadInv'
<1>1. /\ pc' = [pc EXCEPT ![p] = to]
      /\ pc[p] = from
      /\ \A q \in Proc : q # p => seen'[q] = seen[q]
      /\ to = "bounded" => seen'[p] = account
  BY DEF Goto, TypeOK
<1>2. p \notin writers /\ p \notin readers
  BY <1>1 DEF LockInv
<1>3. LockInv'
  BY <1>1, <1>2 DEF LockInv, TypeOK
<1>4. ReadInv'
  BY <1>1 DEF ReadInv, TypeOK, Account
<1> QED
  BY <1>3, <1>4

\* A session dated by GenerateTokenAfter joins the others soundly if the boundary it
\* was issued under is one its handler has really read.
LEMMA SignKeeps ==
    ASSUME TypeOK, IInv, UNCHANGED <<account, tokens, issued, history>>,
           NEW p \in Proc, NEW a \in Nat,
           seen[p].pw <= account.pw,
           seen[p].validAfter <= account.validAfter,
           seen[p].pw = account.pw => seen[p].validAfter = account.validAfter,
           sessions' = sessions \cup
             {[auth |-> a, knew |-> seen[p].pw, gen |-> account.pw,
               when |-> clock, iat |-> IssuedAt(seen[p].validAfter)]}
    PROVE  SessionInv' /\ ResetInv' /\ TokenInv' /\ FailureInv'
<1> DEFINE new == [auth |-> a, knew |-> seen[p].pw, gen |-> account.pw,
                   when |-> clock, iat |-> IssuedAt(seen[p].validAfter)]
<1>1. /\ seen[p].validAfter \in Nat
      /\ account.validAfter \in Nat
      /\ account.pw \in Nat
      /\ Second(clock) \in Nat
  BY SecondNat DEF TypeOK, Account
<1>2. /\ IssuedAt(seen[p].validAfter) >= seen[p].validAfter
      /\ \/ IssuedAt(seen[p].validAfter) = Second(clock)
         \/ IssuedAt(seen[p].validAfter) = seen[p].validAfter
      /\ IssuedAt(seen[p].validAfter) \in Nat
  BY <1>1 DEF IssuedAt, Later
<1>3. /\ new.gen <= account.pw
      /\ new.iat <= Second(new.when) \/ new.iat <= account.validAfter
      /\ new.knew <= account.pw
      /\ new.knew = account.pw => new.iat >= account.validAfter
  BY <1>1, <1>2
<1>4. SessionInv'
  <2> SUFFICES ASSUME NEW s \in sessions'
               PROVE  /\ s.gen <= account.pw
                      /\ s.iat <= Second(s.when) \/ s.iat <= account.validAfter
                      /\ s.knew <= account.pw
                      /\ s.knew = account.pw => s.iat >= account.validAfter
    BY DEF SessionInv, Second
  <2>1. CASE s \in sessions
    BY <2>1 DEF IInv, SessionInv
  <2>2. CASE s = new
    BY <2>2, <1>3
  <2> QED
    BY <2>1, <2>2
<1>5. ResetInv'
  <2>1. \A r \in resetLog : ~(new.gen < r.gen)
    <3> TAKE r \in resetLog
    <3>1. r.gen <= account.pw /\ r.gen \in Nat
      BY DEF IInv, ResetInv, TypeOK
    <3> QED BY <1>1, <3>1
  <2> QED
    BY <2>1 DEF IInv, ResetInv, history
<1>6. TokenInv' /\ FailureInv'
  BY DEF IInv, TokenInv, FailureInv, history
<1> QED
  BY <1>4, <1>5, <1>6

-----------------------------------------------------------------------------
\* One lemma per handler, one step per action.

LEMMA LoginKeeps ==
    ASSUME TypeOK, TypeOK', IInv, NEW p \in Proc, Login(p)
    PROVE  IInv'
<1> USE DEF IInv
<1>1. ASSUME NEW g \in 0..account.pw, AuthLock(p, g) PROVE IInv'
  <2>1. LockInv' /\ ReadInv'
    BY <1>1, LockKeeps DEF AuthLock, db
  <2> QED
    BY <1>1, <2>1, QuietKeeps DEF AuthLock, db
<1>2. CASE AuthRefused(p)
  <2>1. Return(p, "authenticating") /\ account' = account
    BY <1>2 DEF AuthRefused, db
  <2>2. LockInv' /\ ReadInv'
    BY <2>1, ReturnKeepsLocks, ReturnKeepsReads DEF Forward
  <2> QED
    BY <1>2, <2>2, QuietKeeps DEF AuthRefused, db
<1>3. CASE AuthMismatch(p)
  <2>1. /\ Return(p, "authenticating")
        /\ UNCHANGED <<clock, tokens, issued, sessions, resetLog, redeemed>>
    BY <1>3 DEF AuthMismatch
  <2>2. p \in writers /\ seen[p] = account
    BY <2>1 DEF Return, Goto, LockInv
  <2>3. /\ account'.pw = account.pw
        /\ account'.validAfter = account.validAfter
        /\ streak' = account'.attempts
    BY <1>3, <2>2 DEF AuthMismatch, FailureInv, TypeOK, Account
  <2>4. LockInv' /\ ReadInv'
    BY <2>1, <2>2, <2>3, ReturnKeepsLocks, ReturnKeepsReads DEF Forward
  <2>5. SessionInv' /\ ResetInv' /\ TokenInv' /\ FailureInv'
    BY <2>1, <2>3 DEF SessionInv, ResetInv, TokenInv, FailureInv, Second
  <2> QED
    BY <2>4, <2>5
<1>4. CASE AuthMatch(p)
  <2>1. /\ Goto(p, "authenticating", "authenticated")
        /\ Unlock(p)
        /\ UNCHANGED <<tokens, issued, seen, sessions, resetLog, redeemed>>
        /\ streak' = 0
    BY <1>4 DEF AuthMatch
  <2>2. /\ account'.pw = account.pw
        /\ account'.validAfter = account.validAfter
        /\ account'.attempts = 0
    BY <1>4 DEF AuthMatch, TypeOK, Account
  <2>3. p \in writers
    BY <2>1 DEF Goto, LockInv
  <2>4. writers' = {} /\ readers' = {}
    BY <2>1, <2>3 DEF Unlock, LockInv
  <2>5. LockInv'
    BY <2>1, <2>3, <2>4 DEF LockInv, Goto, TypeOK
  <2>6. ReadInv'
    BY <2>1, <2>2 DEF ReadInv, Goto, TypeOK
  <2>7. SessionInv' /\ ResetInv' /\ TokenInv' /\ FailureInv'
    BY <2>1, <2>2 DEF SessionInv, ResetInv, TokenInv, FailureInv, Second
  <2> QED
    BY <2>5, <2>6, <2>7
<1>5. CASE ReadBoundary(p)
  <2>1. LockInv' /\ ReadInv'
    BY <1>5, UnlockedKeeps DEF ReadBoundary, db, locks
  <2> QED
    BY <1>5, <2>1, QuietKeeps DEF ReadBoundary, db
<1>6. CASE SignLogin(p)
  <2>1. Return(p, "bounded") /\ account' = account
    BY <1>6 DEF SignLogin, db
  <2>2. LockInv' /\ ReadInv'
    BY <2>1, ReturnKeepsLocks, ReturnKeepsReads DEF Forward
  <2>3. /\ seen[p].pw <= account.pw
        /\ seen[p].validAfter <= account.validAfter
        /\ seen[p].pw = account.pw => seen[p].validAfter = account.validAfter
    BY <2>1 DEF Return, Goto, ReadInv
  <2>4. guess[p] \in Nat
    BY DEF TypeOK
  <2>5. SessionInv' /\ ResetInv' /\ TokenInv' /\ FailureInv'
    BY <1>6, <2>3, <2>4, SignKeeps DEF SignLogin, db
  <2> QED
    BY <2>2, <2>5
<1> QED
  BY <1>1, <1>2, <1>3, <1>4, <1>5, <1>6 DEF Login

LEMMA ConsumeKeeps ==
    ASSUME TypeOK, TypeOK', IInv, NEW p \in Proc, Consume(p)
    PROVE  IInv' /\ Forward /\ issued \notin redeemed
                 /\ redeemed' = redeemed \cup {issued}
<1>1. PICK t \in Rows(token[p]) :
         /\ Return(p, "consuming")
         /\ Redeemable(t)
         /\ account' = [account EXCEPT !.pw = @ + 1, !.validAfter = NewBoundary(p)]
         /\ tokens' = {[id |-> t.id, expires |-> t.expires, used |-> TRUE]}
         /\ resetLog' = resetLog \cup {[gen |-> account.pw + 1, at |-> at[p]]}
         /\ redeemed' = redeemed \cup {t.id}
         /\ UNCHANGED <<clock, issued, sessions, streak>>
  BY DEF Consume
<1>2. p \in writers /\ seen[p] = account
  BY <1>1 DEF Return, Goto, IInv, LockInv
<1>3. /\ account'.pw = account.pw + 1
      /\ account'.validAfter = NewBoundary(p)
      /\ account'.attempts = account.attempts
  BY <1>1 DEF TypeOK, Account
<1>4. /\ NewBoundary(p) \in Nat
      /\ NewBoundary(p) > account.validAfter
      /\ NewBoundary(p) > Second(at[p])
  BY <1>2, NewBoundaryAdvances
<1>5. account.pw \in Nat /\ account.validAfter \in Nat /\ at[p] \in Nat
  BY DEF TypeOK, Account
<1>6. Forward
  BY <1>3, <1>4, <1>5 DEF Forward
<1>7. LockInv' /\ ReadInv'
  BY <1>1, <1>2, <1>6, ReturnKeepsLocks, ReturnKeepsReads DEF IInv
<1>8. \A s \in sessions : s.when <= at[p] => s.iat < account'.validAfter
  <2> SUFFICES ASSUME NEW s \in sessions, s.when <= at[p]
               PROVE  s.iat < account'.validAfter
    OBVIOUS
  <2>1. s.when \in Nat /\ s.iat \in Nat
    BY DEF TypeOK, Session
  <2>2. Second(s.when) <= Second(at[p]) /\ Second(s.when) \in Nat
    BY <2>1, <1>5, SecondMonotonic, SecondNat
  <2>3. s.iat <= Second(s.when) \/ s.iat <= account.validAfter
    BY DEF IInv, SessionInv
  <2>4. Second(at[p]) \in Nat
    BY <1>5, SecondNat
  <2> QED
    BY <2>1, <2>2, <2>3, <2>4, <1>3, <1>4, <1>5
<1>9. SessionInv'
  <2> SUFFICES ASSUME NEW s \in sessions
               PROVE  /\ s.gen <= account'.pw
                      /\ s.iat <= Second(s.when) \/ s.iat <= account'.validAfter
                      /\ s.knew <= account'.pw
                      /\ s.knew # account'.pw
    BY <1>1 DEF SessionInv, Second
  <2>1. /\ s.gen \in Nat /\ s.iat \in Nat /\ s.knew \in Nat /\ s.when \in Nat
        /\ Second(s.when) \in Nat
    BY SecondNat DEF TypeOK, Session
  <2>2. /\ s.gen <= account.pw
        /\ s.iat <= Second(s.when) \/ s.iat <= account.validAfter
        /\ s.knew <= account.pw
    BY DEF IInv, SessionInv
  <2> QED
    BY <2>1, <2>2, <1>3, <1>4, <1>5
<1>10. ResetInv'
  <2> SUFFICES ASSUME NEW r \in resetLog'
               PROVE  /\ r.gen <= account'.pw
                      /\ \A s \in sessions :
                            s.gen < r.gen /\ s.when <= r.at =>
                              s.iat < account'.validAfter
    BY <1>1 DEF ResetInv
  <2>1. CASE r \in resetLog
    <3>1. r.gen <= account.pw /\ r.gen \in Nat
      BY <2>1 DEF IInv, ResetInv, TypeOK
    <3>2. r.gen <= account'.pw
      BY <3>1, <1>3, <1>5
    <3> SUFFICES ASSUME NEW s \in sessions, s.gen < r.gen, s.when <= r.at
                 PROVE  s.iat < account'.validAfter
      BY <3>2
    <3>3. s.iat < account.validAfter /\ s.iat \in Nat
      BY <2>1 DEF IInv, ResetInv, TypeOK, Session
    <3> QED
      BY <3>3, <1>3, <1>4, <1>5
  <2>2. CASE r = [gen |-> account.pw + 1, at |-> at[p]]
    BY <2>2, <1>3, <1>5, <1>8
  <2> QED
    BY <1>1, <2>1, <2>2
<1>11. t.id = issued /\ issued \notin redeemed
  BY <1>1 DEF IInv, TokenInv, Rows, Redeemable
<1>12. TokenInv'
  BY <1>1, <1>11 DEF IInv, TokenInv, TypeOK
<1>13. FailureInv'
  BY <1>1, <1>3 DEF IInv, FailureInv
<1> QED
  BY <1>1, <1>6, <1>7, <1>9, <1>10, <1>11, <1>12, <1>13 DEF IInv

LEMMA ResetKeeps ==
    ASSUME TypeOK, TypeOK', IInv, NEW p \in Proc, Reset(p)
    PROVE  IInv'
<1> USE DEF IInv
<1>1. CASE RequestReset(p)
  <2>1. LockInv' /\ ReadInv'
    BY <1>1, UnlockedKeeps DEF RequestReset, db, locks
  <2> QED
    BY <1>1, <2>1, QuietKeeps DEF RequestReset, db
<1>2. CASE IssueToken(p)
  <2>1. /\ Return(p, "requested")
        /\ UNCHANGED <<clock, account, sessions, history>>
        /\ issued' = issued + 1
        /\ \A t \in tokens' : t.id = issued'
    BY <1>2 DEF IssueToken
  <2>2. LockInv' /\ ReadInv'
    BY <2>1, ReturnKeepsLocks, ReturnKeepsReads DEF Forward
  <2>3. SessionInv' /\ ResetInv' /\ FailureInv'
    BY <2>1 DEF SessionInv, ResetInv, FailureInv, Second, history
  <2>4. \A id \in redeemed : id \in Nat /\ id < issued'
    BY <2>1 DEF TokenInv, TypeOK
  <2>5. issued' \notin redeemed'
    BY <2>1, <2>4 DEF history, TypeOK
  <2>6. TokenInv'
    BY <2>1, <2>4, <2>5 DEF TokenInv, TypeOK, history
  <2> QED
    BY <2>2, <2>3, <2>6
<1>3. ASSUME NEW id \in 1..issued, ConfirmReset(p, id) PROVE IInv'
  <2>1. LockInv' /\ ReadInv'
    BY <1>3, UnlockedKeeps DEF ConfirmReset, db, locks
  <2> QED
    BY <1>3, <2>1, QuietKeeps DEF ConfirmReset, db
<1>4. CASE FindToken(p)
  <2>1. LockInv' /\ ReadInv'
    BY <1>4, UnlockedKeeps DEF FindToken, db, locks
  <2> QED
    BY <1>4, <2>1, QuietKeeps DEF FindToken, db
<1>5. CASE TokenGone(p)
  <2>1. Return(p, "confirming") /\ account' = account
    BY <1>5 DEF TokenGone, db
  <2>2. LockInv' /\ ReadInv'
    BY <2>1, ReturnKeepsLocks, ReturnKeepsReads DEF Forward
  <2> QED
    BY <1>5, <2>2, QuietKeeps DEF TokenGone, db
<1>6. CASE ConsumeLock(p)
  <2>1. LockInv' /\ ReadInv'
    BY <1>6, LockKeeps DEF ConsumeLock, db
  <2> QED
    BY <1>6, <2>1, QuietKeeps DEF ConsumeLock, db
<1>7. CASE Consume(p)
  BY <1>7, ConsumeKeeps
<1>8. CASE ConsumeRefused(p)
  <2>1. Return(p, "consuming") /\ account' = account
    BY <1>8 DEF ConsumeRefused, db
  <2>2. LockInv' /\ ReadInv'
    BY <2>1, ReturnKeepsLocks, ReturnKeepsReads DEF Forward
  <2> QED
    BY <1>8, <2>2, QuietKeeps DEF ConsumeRefused, db
<1> QED
  BY <1>1, <1>2, <1>3, <1>4, <1>5, <1>6, <1>7, <1>8 DEF Reset

LEMMA SwitchKeeps ==
    ASSUME TypeOK, TypeOK', IInv, NEW p \in Proc, Switch(p)
    PROVE  IInv'
<1> USE DEF IInv
<1>1. ASSUME NEW s \in sessions, SwitchLock(p, s) PROVE IInv'
  <2>1. LockInv' /\ ReadInv'
    BY <1>1, LockKeeps DEF SwitchLock, db
  <2> QED
    BY <1>1, <2>1, QuietKeeps DEF SwitchLock, db
<1>2. CASE SwitchSign(p)
  <2>1. Return(p, "switching") /\ account' = account
    BY <1>2 DEF SwitchSign, db
  <2>2. LockInv' /\ ReadInv'
    BY <2>1, ReturnKeepsLocks, ReturnKeepsReads DEF Forward
  <2>3. seen[p] = account
    BY <2>1 DEF Return, Goto, LockInv
  <2>4. claim[p].auth \in Nat /\ account \in Account
    BY DEF TypeOK, Session
  <2>5. SessionInv' /\ ResetInv' /\ TokenInv' /\ FailureInv'
    BY <1>2, <2>3, <2>4, SignKeeps DEF SwitchSign, db, Account
  <2> QED
    BY <2>2, <2>5
<1> QED
  BY <1>1, <1>2 DEF Switch

LEMMA IInvStep == TypeOK /\ TypeOK' /\ IInv /\ [Next]_vars => IInv'
<1> SUFFICES ASSUME TypeOK, TypeOK', IInv, [Next]_vars PROVE IInv'
  OBVIOUS
<1>1. CASE UNCHANGED <<db, locks, local, sessions, history>>
  <2>1. SessionInv' /\ ResetInv' /\ TokenInv' /\ FailureInv'
    BY <1>1, QuietKeeps DEF db
  <2>2. LockInv' /\ ReadInv'
    BY <1>1 DEF IInv, LockInv, ReadInv, db, locks, local
  <2> QED
    BY <2>1, <2>2 DEF IInv
<1>2. ASSUME NEW p \in Proc, Abort(p) PROVE IInv'
  <2>1. Return(p, pc[p]) /\ account' = account
    BY <1>2 DEF Abort, db
  <2>2. LockInv' /\ ReadInv'
    BY <2>1, ReturnKeepsLocks, ReturnKeepsReads DEF Forward, IInv
  <2> QED
    BY <1>2, <2>2, QuietKeeps DEF Abort, db, IInv
<1> QED
  BY <1>1, <1>2, LoginKeeps, ResetKeeps, SwitchKeeps DEF Next, Tick, vars

LEMMA Invariance == Spec => [](TypeOK /\ IInv)
<1>1. Spec => []TypeOK
  BY TypeCorrect
<1> QED
  BY <1>1, IInvInit, IInvStep, PTL DEF Spec

-----------------------------------------------------------------------------
\* A reset revokes, for good, every session issued before its handler read the clock.
THEOREM Revocation == Spec => []ResetRevokesEarlierSessions
<1>1. TypeOK /\ IInv => ResetRevokesEarlierSessions
  <2> SUFFICES ASSUME TypeOK, IInv, NEW s \in sessions, NEW r \in resetLog,
                      s.gen < r.gen, s.when <= r.at
               PROVE  ~(s.iat >= account.validAfter)
    BY DEF ResetRevokesEarlierSessions, Accepted
  <2>1. s.iat < account.validAfter
    BY DEF IInv, ResetInv
  <2> QED
    BY <2>1 DEF TypeOK, Session, Account
<1> QED
  BY <1>1, Invariance, PTL

\* A session issued under the boundary in force is accepted at once.
THEOREM CurrentAccepted == Spec => []CurrentSessionsAccepted
<1>1. TypeOK /\ IInv => CurrentSessionsAccepted
  BY DEF CurrentSessionsAccepted, Accepted, IInv, SessionInv
<1> QED
  BY <1>1, Invariance, PTL

\* No failed login is lost, so Threshold of them in a row always lock the account.
THEOREM FailuresCounted == Spec => []FailuresAlwaysCounted
<1>1. TypeOK /\ IInv => FailuresAlwaysCounted
  BY CountAssumption DEF FailuresAlwaysCounted, IInv, FailureInv, TypeOK, Account
<1> QED
  BY <1>1, Invariance, PTL

\* The password changes only by redeeming the last committed token, once.
THEOREM RedeemsNewest == Spec => ResetRedeemsNewestTokenOnce
<1>1. ASSUME TypeOK, TypeOK', IInv, [Next]_vars, account'.pw # account.pw
      PROVE  issued \notin redeemed /\ redeemed' = redeemed \cup {issued}
  <2>1. ASSUME NEW p \in Proc, Consume(p)
        PROVE  issued \notin redeemed /\ redeemed' = redeemed \cup {issued}
    BY <1>1, <2>1, ConsumeKeeps
  <2>2. ASSUME NEW p \in Proc, AuthMismatch(p) PROVE account'.pw = account.pw
    BY <1>1, <2>2 DEF AuthMismatch, TypeOK, Account
  <2>3. ASSUME NEW p \in Proc, AuthMatch(p) PROVE account'.pw = account.pw
    BY <1>1, <2>3 DEF AuthMatch, TypeOK, Account
  <2>4. \/ \E p \in Proc : Consume(p) \/ AuthMismatch(p) \/ AuthMatch(p)
        \/ account' = account
    BY <1>1 DEF Next, Login, Reset, Switch, Abort, Tick, AuthLock, AuthRefused,
         ReadBoundary, SignLogin, RequestReset, IssueToken, ConfirmReset, FindToken,
         TokenGone, ConsumeLock, ConsumeRefused, SwitchLock, SwitchSign, vars, db
  <2> QED
    BY <1>1, <2>1, <2>2, <2>3, <2>4
<1>2. TypeOK /\ TypeOK' /\ IInv /\ [Next]_vars =>
        [account'.pw # account.pw =>
           issued \notin redeemed /\ redeemed' = redeemed \cup {issued}]_vars
  BY <1>1
<1> QED
  BY <1>2, Invariance, PTL DEF Spec, ResetRedeemsNewestTokenOnce

\* No login succeeds while the committed row is locked.
THEOREM LockoutHolds == Spec => LockoutBlocksLogin
<1>1. TypeOK /\ IInv => [\A p \in Proc : AuthMatch(p) => at[p] >= account.lockedUntil]_vars
  BY DEF AuthMatch, Goto, IInv, LockInv
<1> QED
  BY <1>1, Invariance, PTL DEF LockoutBlocksLogin

\* A tenant switch never signs for a session that is revoked at that moment.
THEOREM SwitchSafe == Spec => SwitchNeverRevives
<1>1. TypeOK /\ IInv =>
        [\A p \in Proc : SwitchSign(p) => claim[p].iat >= account.validAfter]_vars
  BY DEF SwitchSign, Return, Goto, IInv, LockInv
<1> QED
  BY <1>1, Invariance, PTL DEF SwitchNeverRevives
=============================================================================
