----------------------- MODULE PlatformFactor_proofs -----------------------
(***************************************************************************)
(* Proofs about PlatformFactor, for any number of requests, any lifetime,  *)
(* any number of attempts and any bound.                                   *)
(***************************************************************************)
EXTENDS PlatformFactor, TLAPS

-----------------------------------------------------------------------------
(***************************************************************************)
(* What the row operators compute.                                         *)
(***************************************************************************)

LEMMA GuessedFields ==
    ASSUME NEW c \in Challenge, c.attempts < MaxAttempts
    PROVE  /\ Guessed(c) \in Challenge
           /\ Guessed(c).attempts = c.attempts + 1
           /\ Guessed(c).id = c.id
           /\ Guessed(c).purpose = c.purpose
           /\ Guessed(c).version = c.version
           /\ Guessed(c).consumed = c.consumed
BY FactorAssumption DEF Guessed, Challenge

LEMMA SpentFields ==
    ASSUME NEW c \in Challenge
    PROVE  /\ Spent(c) \in Challenge
           /\ Spent(c).attempts = c.attempts
           /\ Spent(c).id = c.id
           /\ Spent(c).purpose = c.purpose
           /\ Spent(c).version = c.version
           /\ Spent(c).consumed = TRUE
BY FactorAssumption DEF Spent, Challenge

LEMMA UnassignedType == Unassigned \in Assignment
BY DEF Unassigned, Assignment

\* The row of an inactive assignment differs only in that.
LEMMA ActiveFields ==
    ASSUME NEW a \in Assignment, NEW b \in BOOLEAN
    PROVE  /\ [a EXCEPT !.active = b] \in Assignment
           /\ [a EXCEPT !.active = b].active = b
           /\ [a EXCEPT !.active = b].version = a.version
           /\ [a EXCEPT !.active = b].secret = a.secret
           /\ [a EXCEPT !.active = b].allowed = a.allowed
BY DEF Assignment

-----------------------------------------------------------------------------
(***************************************************************************)
(* Type correctness.                                                       *)
(***************************************************************************)

LEMMA TypeInit == Init => TypeOK
<1>1. /\ Unassigned \in Assignment
      /\ [Unassigned EXCEPT !.active = TRUE] \in Assignment
  BY UnassignedType, ActiveFields
<1>2. NoPending \in Pending /\ NoOutcome \in Outcome
  BY DEF NoPending, Pending, NoOutcome, Outcome
<1>3. ASSUME Init PROVE assignment \in Assignment /\ accepted \in SUBSET Nat
  BY <1>1, <1>3 DEF Init
<1>4. ASSUME Init PROVE guesses \in [1..MaxChallenges -> Nat]
  BY <1>4 DEF Init
<1>5. ASSUME Init
      PROVE  /\ pc \in [Proc -> Step]
             /\ held \in [Proc -> Pending]
             /\ purpose \in [Proc -> Purpose]
             /\ target \in [Proc -> Nat]
             /\ at \in [Proc -> Nat]
  BY <1>2, <1>5 DEF Init, Step, Purpose
<1>6. ASSUME Init
      PROVE  /\ row \in [Proc -> Assignment]
             /\ found \in [Proc -> SUBSET Challenge]
             /\ outcome \in [Proc -> Outcome]
  BY <1>1, <1>2, <1>6 DEF Init
<1> QED
  BY <1>3, <1>4, <1>5, <1>6 DEF Init, TypeOK

\* What Return leaves behind is typed.
LEMMA ReturnType ==
    ASSUME TypeOK, NEW p \in Proc, NEW from, Return(p, from)
    PROVE  /\ holders' \in SUBSET Proc
           /\ pc' \in [Proc -> Step]
           /\ held' \in [Proc -> Pending]
           /\ purpose' \in [Proc -> Purpose]
           /\ target' \in [Proc -> Nat]
           /\ at' \in [Proc -> Nat]
           /\ row' \in [Proc -> Assignment]
           /\ found' \in [Proc -> SUBSET Challenge]
           /\ outcome' \in [Proc -> Outcome]
<1>1. NoPending \in Pending /\ NoOutcome \in Outcome
  BY DEF NoPending, Pending, NoOutcome, Outcome
<1> QED
  BY <1>1, UnassignedType DEF Return, Goto, TypeOK, Step, Purpose

LEMMA OperateType == ASSUME TypeOK, Operate \/ Login PROVE TypeOK'
<1>1. CASE Grant
  <2>1. assignment' \in Assignment
    BY <1>1 DEF Grant, Granted, TypeOK, Assignment
  <2> QED
    BY <1>1, <2>1 DEF Grant, TypeOK, reset, jwts, local
<1>2. CASE Revoke
  <2>1. assignment' \in Assignment
    BY <1>2, ActiveFields DEF Revoke, TypeOK
  <2> QED
    BY <1>2, <2>1 DEF Revoke, TypeOK, reset, jwts, local, history
<1>3. CASE ResetPassword
  BY <1>3 DEF ResetPassword, TypeOK, rows, jwts, local, history
<1>4. CASE Tick
  BY <1>4 DEF Tick, TypeOK, rows, reset, jwts, local, history
<1>5. CASE Login
  <2>1. pendings' \in SUBSET Pending
    BY <1>5, FactorAssumption DEF Login, TypeOK, Pending, Assignment
  <2> QED
    BY <1>5, <2>1 DEF Login, TypeOK, rows, reset, local, history
<1> QED
  BY <1>1, <1>2, <1>3, <1>4, <1>5 DEF Operate

LEMMA ChallengedType ==
    ASSUME TypeOK, NEW p \in Proc, Challenged(p) PROVE TypeOK'
<1>1. ASSUME NEW d \in pendings, NEW use \in Purpose, StartFactor(p, d, use)
      PROVE  TypeOK'
  BY <1>1 DEF StartFactor, Goto, TypeOK, Step, rows, reset, jwts, history
<1>2. ASSUME NEW d \in pendings, NEW use \in Purpose, NEW c \in challenges,
             FinishFactor(p, d, c.id, use)
      PROVE  TypeOK'
  <2>1. c.id \in Nat
    BY DEF TypeOK, Challenge
  <2> QED
    BY <1>2, <2>1 DEF FinishFactor, Goto, TypeOK, Step, rows, reset, jwts, history
<1>3. CASE Begin(p)
  <2> DEFINE new == [id |-> minted + 1, purpose |-> purpose[p],
                     seed |-> IF purpose[p] = "enroll" THEN minted + 1 ELSE 0,
                     version |-> assignment.version, expires |-> at[p] + ChallengeTTL,
                     attempts |-> 0, consumed |-> FALSE]
  <2>1. challenges' = challenges \cup {new} /\ minted' = minted + 1
    BY <1>3 DEF Begin
  <2>2. new \in Challenge
    <3>1. /\ minted + 1 \in Nat
          /\ (IF purpose[p] = "enroll" THEN minted + 1 ELSE 0) \in Nat
          /\ at[p] + ChallengeTTL \in Nat
          /\ 0 \in 0..MaxAttempts
      BY FactorAssumption DEF TypeOK
    <3>2. purpose[p] \in Purpose /\ assignment.version \in Nat
      BY DEF TypeOK, Assignment
    <3> QED
      BY <3>1, <3>2 DEF Challenge
  <2>3. challenges' \in SUBSET Challenge /\ minted' \in Nat
    <3> HIDE DEF new
    <3> QED BY <2>1, <2>2 DEF TypeOK
  <2> QED
    BY <1>3, <2>3, ReturnType DEF Begin, TypeOK, reset, jwts, history
<1>4. CASE ConsumeLock(p)
  BY <1>4 DEF ConsumeLock, Goto, TypeOK, Step, rows, reset, jwts, history
<1>5. CASE WrongCode(p)
  <2>1. PICK c \in found[p] : /\ Usable(p, c)
                              /\ challenges' = Stored(Guessed(c))
                              /\ guesses' = [guesses EXCEPT ![c.id] = @ + 1]
    BY <1>5 DEF WrongCode
  <2>2. Guessed(c) \in Challenge
    BY <2>1, GuessedFields DEF TypeOK, Usable, AttemptsLeft
  <2>3. challenges' \in SUBSET Challenge
    BY <2>1, <2>2 DEF TypeOK, Stored
  <2>4. guesses' \in [1..MaxChallenges -> Nat]
    <3>1. c.id \in Nat
      BY DEF TypeOK, Challenge
    <3>2. guesses \in [1..MaxChallenges -> Nat]
      BY DEF TypeOK
    <3>3. \A i \in 1..MaxChallenges : guesses[i] + 1 \in Nat
      BY <3>2
    <3> QED
      BY <2>1, <3>1, <3>2, <3>3
  <2>5. /\ Return(p, "consuming")
        /\ UNCHANGED <<clock, assignment, minted, reset, jwts, grants, enrollments, accepted>>
    BY <1>5 DEF WrongCode
  <2> QED
    BY <2>3, <2>4, <2>5, ReturnType DEF TypeOK, reset, jwts
<1>6. CASE RightCode(p)
  <2> DEFINE enrolling == purpose[p] = "enroll"
  <2>1. PICK c \in found[p] :
          /\ Goto(p, "consuming", "accepted")
          /\ assignment' = IF enrolling THEN Enrolled(row[p], c) ELSE assignment
          /\ challenges' = Stored(Spent(c))
          /\ outcome' = [outcome EXCEPT ![p] =
               [version |-> IF enrolling THEN row[p].version + 1 ELSE row[p].version,
                seed |-> IF enrolling THEN c.seed ELSE row[p].secret]]
          /\ holders' = holders \ {p}
          /\ enrollments' = IF enrolling THEN enrollments + 1 ELSE enrollments
          /\ accepted' = accepted \cup {c.id}
          /\ UNCHANGED <<clock, minted, reset, jwts, held, purpose, target, at, row, found,
                         grants, guesses>>
    BY <1>6 DEF RightCode
  <2>2. c \in Challenge /\ row[p] \in Assignment
    BY DEF TypeOK
  <2>3. assignment' \in Assignment
    BY <2>1, <2>2 DEF Enrolled, TypeOK, Assignment, Challenge
  <2>4. challenges' \in SUBSET Challenge
    BY <2>1, <2>2, SpentFields DEF TypeOK, Stored
  <2>5. outcome' \in [Proc -> Outcome]
    BY <2>1, <2>2 DEF TypeOK, Outcome, Assignment, Challenge
  <2>6. c.id \in Nat
    BY <2>2 DEF Challenge
  <2>7. pc' \in [Proc -> Step]
    BY <2>1 DEF Goto, TypeOK, Step
  <2>8. /\ holders' \in SUBSET Proc
        /\ enrollments' \in Nat
        /\ accepted' \in SUBSET Nat
    <3>1. /\ holders \in SUBSET Proc
          /\ enrollments \in Nat
          /\ accepted \in SUBSET Nat
      BY DEF TypeOK
    <3>2. /\ holders' = holders \ {p}
          /\ enrollments' \in {enrollments, enrollments + 1}
          /\ accepted' = accepted \cup {c.id}
      BY <2>1
    <3>3. holders' \in SUBSET Proc
      BY ONLY <3>1, <3>2
    <3>4. enrollments' \in Nat
      BY ONLY <3>1, <3>2
    <3>5. accepted' \in SUBSET Nat
      BY ONLY <2>6, <3>1, <3>2
    <3> QED
      BY ONLY <3>3, <3>4, <3>5
  <2>9. UNCHANGED <<clock, minted, boundary, resets, pendings, sessions, held, purpose,
                    target, at, row, found, grants, guesses>>
    BY <2>1 DEF reset, jwts
  <2> QED
    BY <2>3, <2>4, <2>5, <2>7, <2>8, <2>9 DEF TypeOK
<1>7. CASE Refused(p)
  BY <1>7, ReturnType DEF Refused, TypeOK, rows, reset, jwts, history
<1>8. CASE CheckVersion(p)
  BY <1>8 DEF CheckVersion, Goto, TypeOK, Step, rows, reset, jwts, local, history
<1>9. CASE Sign(p)
  <2>1. sessions' \in SUBSET Session
    BY <1>9 DEF Sign, TypeOK, Session, Outcome, Pending
  <2> QED
    BY <1>9, <2>1, ReturnType DEF Sign, TypeOK, rows, reset, history
<1>10. CASE Abort(p)
  BY <1>10, ReturnType DEF Abort, TypeOK, rows, reset, jwts, history
<1> QED
  BY <1>1, <1>2, <1>3, <1>4, <1>5, <1>6, <1>7, <1>8, <1>9, <1>10 DEF Challenged

LEMMA TypeStep == TypeOK /\ [Next]_vars => TypeOK'
<1> SUFFICES ASSUME TypeOK, [Next]_vars PROVE TypeOK'
  OBVIOUS
<1>1. CASE UNCHANGED vars
  BY <1>1 DEF TypeOK, vars, rows, reset, jwts, local, history
<1> QED
  BY <1>1, OperateType, ChallengedType DEF Next

\* Every state is typed; in particular no committed challenge holds more than
\* MaxAttempts attempts.
THEOREM TypeCorrect == Spec => []TypeOK
BY TypeInit, TypeStep, PTL DEF Spec

-----------------------------------------------------------------------------
(***************************************************************************)
(* The inductive invariant.                                                *)
(***************************************************************************)

\* One transaction at a time holds the rows, and what it read is what they hold.
LockInv ==
    /\ \A p \in Proc : p \in holders <=> pc[p] = "consuming"
    /\ \A p, q \in holders : p = q
    /\ \A p \in holders :
          /\ row[p] = assignment
          /\ \A c \in found[p] :
                c \in challenges /\ c.id = target[p] /\ c.purpose = purpose[p]

\* Versions handed out are not ahead of the row's, and while one is the row's the
\* seed that goes with it is the one enrolled.
Bound(a, version, seed) ==
    /\ version <= a.version
    /\ version = a.version /\ a.secret # 0 => seed = a.secret

SeedInv ==
    /\ \A s \in sessions : Bound(assignment, s.version, s.seed)
    /\ \A p \in Proc : pc[p] \in {"accepted", "checked"} =>
          Bound(assignment, outcome[p].version, outcome[p].seed)

\* Challenges are numbered once, count their guesses, and stay consumed.
ChallengeInv ==
    /\ minted <= MaxChallenges
    /\ \A c \in challenges :
          /\ c.id \in 1..minted
          /\ c.version <= assignment.version
          /\ guesses[c.id] = c.attempts
          /\ c.id \in accepted => c.consumed
    /\ \A c, d \in challenges : c.id = d.id => c = d
    /\ \A i \in 1..MaxChallenges :
          guesses[i] <= MaxAttempts /\ (i > minted => guesses[i] = 0)
    /\ \A i \in accepted : i <= minted

\* A request keeps the version of its pending JWT: the challenge it names is none of a
\* later version, and what it is accepted with follows from the JWT's.
Exchanged(pending, use) == IF use = "enroll" THEN pending + 1 ELSE pending

RequestInv ==
    /\ \A p \in Proc : pc[p] \in {"finishing", "consuming"} =>
          /\ held[p].version <= assignment.version
          /\ target[p] <= minted
          /\ \A c \in challenges : c.id = target[p] => c.version <= held[p].version
    /\ \A p \in Proc : pc[p] \in {"accepted", "checked"} =>
          outcome[p].version = Exchanged(held[p].version, purpose[p])
    /\ \A s \in sessions : s.version = Exchanged(s.pending, s.via)

\* The gate is open only while a grant is unspent.
GateInv == enrollments + (IF assignment.allowed THEN 1 ELSE 0) <= grants

IInv == LockInv /\ SeedInv /\ ChallengeInv /\ RequestInv /\ GateInv

LEMMA IInvInit == Init => IInv
<1> SUFFICES ASSUME Init PROVE IInv
  OBVIOUS
<1>1. \A p \in Proc : pc[p] = "idle"
  BY DEF Init
<1>2. LockInv /\ SeedInv /\ RequestInv
  BY <1>1 DEF Init, LockInv, SeedInv, RequestInv
<1>3. ChallengeInv
  BY FactorAssumption DEF Init, ChallengeInv
<1>4. GateInv
  BY DEF Init, GateInv, Unassigned
<1> QED
  BY <1>2, <1>3, <1>4 DEF IInv

\* What the types say of the numbers the invariant compares.
LEMMA Numbers ==
    ASSUME TypeOK
    PROVE  /\ assignment.version \in Nat /\ assignment.secret \in Nat
           /\ assignment.allowed \in BOOLEAN
           /\ \A s \in sessions : s.version \in Nat /\ s.pending \in Nat /\ s.seed \in Nat
           /\ \A c \in challenges : /\ c.id \in Nat /\ c.version \in Nat
                                     /\ c.attempts \in Nat /\ c.seed \in Nat
                                     /\ c.attempts <= MaxAttempts
           /\ \A p \in Proc : /\ outcome[p].version \in Nat /\ outcome[p].seed \in Nat
                               /\ held[p].version \in Nat
                               /\ row[p] \in Assignment
                               /\ target[p] \in Nat
<1>1. \A c \in challenges : c \in Challenge
  BY DEF TypeOK
<1>2. \A c \in Challenge : c.attempts \in Nat /\ c.attempts <= MaxAttempts
  BY FactorAssumption DEF Challenge
<1> QED
  BY <1>1, <1>2 DEF TypeOK, Assignment, Session, Challenge, Outcome, Pending

-----------------------------------------------------------------------------
(***************************************************************************)
(* How a request that returns, or moves on, affects each part.             *)
(***************************************************************************)

LEMMA ReturnLocks ==
    ASSUME TypeOK, LockInv, NEW p \in Proc, NEW from, Return(p, from),
           assignment' = assignment, challenges' = challenges
    PROVE  LockInv'
BY DEF Return, Goto, LockInv, TypeOK

LEMMA ReturnSeeds ==
    ASSUME TypeOK, SeedInv, NEW p \in Proc, NEW from, Return(p, from),
           assignment' = assignment, sessions' = sessions
    PROVE  SeedInv'
<1>1. \A q \in Proc : pc'[q] \in {"accepted", "checked"} =>
         pc[q] \in {"accepted", "checked"} /\ outcome'[q] = outcome[q]
  BY DEF Return, Goto, TypeOK
<1> QED
  BY <1>1 DEF SeedInv, Bound

LEMMA ReturnRequests ==
    ASSUME TypeOK, RequestInv, NEW p \in Proc, NEW from, Return(p, from),
           assignment' = assignment, minted' = minted, sessions' = sessions,
           challenges' = challenges
    PROVE  RequestInv'
<1>1. \A q \in Proc : pc'[q] # "idle" =>
         /\ pc[q] = pc'[q] /\ held'[q] = held[q] /\ target'[q] = target[q]
         /\ outcome'[q] = outcome[q] /\ purpose'[q] = purpose[q]
  BY DEF Return, Goto, TypeOK
<1> QED
  BY <1>1 DEF RequestInv, Exchanged

\* The parts that concern only committed rows.
LEMMA RowsKeep ==
    ASSUME ChallengeInv, GateInv, assignment' = assignment, challenges' = challenges,
           minted' = minted, history' = history
    PROVE  ChallengeInv' /\ GateInv'
BY DEF ChallengeInv, GateInv, history

LEMMA ReturnKeeps ==
    ASSUME TypeOK, IInv, NEW p \in Proc, NEW from, Return(p, from),
           rows' = rows, sessions' = sessions, history' = history
    PROVE  IInv'
BY ReturnLocks, ReturnSeeds, ReturnRequests, RowsKeep DEF IInv, rows

-----------------------------------------------------------------------------
(***************************************************************************)
(* The operator.                                                           *)
(***************************************************************************)

LEMMA GrantKeeps == ASSUME TypeOK, TypeOK', IInv, Grant PROVE IInv'
<1> USE DEF Grant, IInv
<1>1. /\ assignment'.version = assignment.version + 1
      /\ assignment'.secret = 0
      /\ assignment'.allowed = TRUE
  BY DEF Granted
<1>2. LockInv'
  BY DEF LockInv, RowFree, local
<1>3. SeedInv'
  BY <1>1, Numbers DEF SeedInv, Bound, jwts, local
<1>4. ChallengeInv'
  BY <1>1, Numbers DEF ChallengeInv
<1>5. RequestInv'
  BY <1>1, Numbers DEF RequestInv, Exchanged, jwts, local
<1>6. GateInv'
  BY <1>1, Numbers DEF GateInv, TypeOK
<1> QED
  BY <1>2, <1>3, <1>4, <1>5, <1>6

LEMMA RevokeKeeps == ASSUME TypeOK, TypeOK', IInv, Revoke PROVE IInv'
<1> USE DEF Revoke, IInv
<1>1. /\ assignment'.version = assignment.version
      /\ assignment'.secret = assignment.secret
      /\ assignment'.allowed = assignment.allowed
  BY ActiveFields DEF TypeOK
<1>2. LockInv'
  BY DEF LockInv, RowFree, local
<1>3. SeedInv'
  BY <1>1 DEF SeedInv, Bound, jwts, local
<1>4. ChallengeInv' /\ GateInv'
  BY <1>1 DEF ChallengeInv, GateInv, history
<1>5. RequestInv'
  BY <1>1 DEF RequestInv, Exchanged, jwts, local
<1> QED
  BY <1>2, <1>3, <1>4, <1>5

\* Steps that leave rows, requests, sessions and history alone.
LEMMA QuietKeeps ==
    ASSUME IInv, rows' = rows, sessions' = sessions, history' = history,
           holders' = holders, pc' = pc, local' = local
    PROVE  IInv'
BY DEF IInv, LockInv, SeedInv, Bound, ChallengeInv, RequestInv, Exchanged, GateInv,
       rows, history, local

LEMMA OperateKeeps ==
    ASSUME TypeOK, TypeOK', IInv, Operate \/ Login PROVE IInv'
<1>1. CASE ResetPassword
  BY <1>1, QuietKeeps DEF ResetPassword, jwts
<1>2. CASE Tick
  BY <1>2, QuietKeeps DEF Tick, jwts
<1>3. CASE Login
  BY <1>3, QuietKeeps DEF Login
<1> QED
  BY <1>1, <1>2, <1>3, GrantKeeps, RevokeKeeps DEF Operate

-----------------------------------------------------------------------------
(***************************************************************************)
(* The requests.                                                           *)
(***************************************************************************)

LEMMA StartKeeps ==
    ASSUME TypeOK, IInv, NEW p \in Proc, NEW d \in pendings, NEW use \in Purpose,
           StartFactor(p, d, use)
    PROVE  IInv'
<1> USE DEF StartFactor, IInv
<1>1. pc[p] = "idle" /\ pc' = [pc EXCEPT ![p] = "starting"]
  BY DEF Goto
<1>2. LockInv'
  BY <1>1 DEF LockInv, TypeOK, rows
<1>3. SeedInv'
  BY <1>1 DEF SeedInv, Bound, TypeOK, rows, jwts
<1>4. ChallengeInv' /\ GateInv'
  BY RowsKeep DEF rows
<1>5. RequestInv'
  BY <1>1 DEF RequestInv, Exchanged, TypeOK, rows, jwts
<1> QED
  BY <1>2, <1>3, <1>4, <1>5

\* Begin numbers its challenge freshly and gives it the version of the row.
LEMMA BeginKeeps ==
    ASSUME TypeOK, TypeOK', IInv, NEW p \in Proc, Begin(p)
    PROVE  IInv'
<1> USE DEF IInv
<1>1. PICK new : /\ challenges' = challenges \cup {new}
                 /\ new.id = minted + 1
                 /\ new.version = assignment.version
                 /\ new.attempts = 0
  <2> DEFINE n == [id |-> minted + 1, purpose |-> purpose[p],
                   seed |-> IF purpose[p] = "enroll" THEN minted + 1 ELSE 0,
                   version |-> assignment.version, expires |-> at[p] + ChallengeTTL,
                   attempts |-> 0, consumed |-> FALSE]
  <2>1. challenges' = challenges \cup {n}
    BY DEF Begin
  <2>2. n.id = minted + 1 /\ n.version = assignment.version /\ n.attempts = 0
    OBVIOUS
  <2> HIDE DEF n
  <2> QED
    BY <2>1, <2>2
<1>2. /\ Return(p, "starting") /\ holders = {}
      /\ minted < MaxChallenges /\ minted' = minted + 1
      /\ assignment' = assignment /\ sessions' = sessions /\ history' = history
  BY DEF Begin, RowFree, jwts
<1>3. LockInv'
  BY <1>2 DEF LockInv, Return, Goto, TypeOK
<1>4. SeedInv'
  BY <1>2, ReturnSeeds
<1>5. ChallengeInv'
  <2>1. minted' <= MaxChallenges /\ minted' \in Nat /\ minted \in Nat
    BY <1>2, FactorAssumption DEF TypeOK
  <2>2. minted + 1 \notin accepted /\ guesses[minted + 1] = 0
    BY <2>1, <1>2, FactorAssumption DEF ChallengeInv, TypeOK
  <2>3. \A c \in challenges : c.id # minted + 1
    BY <2>1 DEF ChallengeInv
  <2>4. \A c \in challenges' :
          /\ c.id \in 1..minted'
          /\ c.version <= assignment.version
          /\ guesses[c.id] = c.attempts
          /\ c.id \in accepted => c.consumed
    <3>1. \A c \in challenges :
            /\ c.id \in 1..minted
            /\ c.version <= assignment.version
            /\ guesses[c.id] = c.attempts
            /\ c.id \in accepted => c.consumed
      BY DEF ChallengeInv
    <3>2. minted' = minted + 1 /\ assignment.version <= assignment.version
      BY <1>2, Numbers
    <3> QED
      BY <1>1, <2>1, <2>2, <3>1, <3>2
  <2>5. \A c, d \in challenges' : c.id = d.id => c = d
    BY <1>1, <2>3 DEF ChallengeInv
  <2>6. guesses' = guesses /\ accepted' = accepted
    BY <1>2 DEF history
  <2>7. \A i \in 1..MaxChallenges :
          guesses[i] <= MaxAttempts /\ (i > minted' => guesses[i] = 0)
    BY <1>2, <2>1 DEF ChallengeInv
  <2>8. \A i \in accepted : i <= minted'
    BY <1>2, <2>1 DEF ChallengeInv, TypeOK
  <2> QED
    BY <1>2, <2>1, <2>4, <2>5, <2>6, <2>7, <2>8 DEF ChallengeInv
<1>6. RequestInv'
  <2>1. \A q \in Proc : pc'[q] # "idle" =>
          /\ pc[q] = pc'[q] /\ held'[q] = held[q] /\ target'[q] = target[q]
          /\ outcome'[q] = outcome[q] /\ purpose'[q] = purpose[q]
    BY <1>2 DEF Return, Goto, TypeOK
  <2>2. \A q \in Proc : target[q] <= minted =>
          target[q] <= minted' /\ new.id # target[q]
    BY <1>1, <1>2, Numbers DEF TypeOK
  <2>3. ASSUME NEW q \in Proc, pc'[q] \in {"finishing", "consuming"}
        PROVE  /\ held'[q].version <= assignment'.version
               /\ target'[q] <= minted'
               /\ \A c \in challenges' : c.id = target'[q] => c.version <= held'[q].version
    BY <2>1, <2>2, <2>3, <1>1, <1>2 DEF RequestInv
  <2> QED
    BY <2>1, <2>3, <1>2 DEF RequestInv, Exchanged
<1>7. GateInv'
  BY <1>2 DEF GateInv, history
<1> QED
  BY <1>3, <1>4, <1>5, <1>6, <1>7

\* The vetted JWT has the row's version, which no challenge is ahead of.
LEMMA FinishKeeps ==
    ASSUME TypeOK, IInv, NEW p \in Proc, NEW d \in pendings, NEW use \in Purpose,
           NEW c \in challenges, FinishFactor(p, d, c.id, use)
    PROVE  IInv'
<1> USE DEF FinishFactor, IInv
<1>1. pc[p] = "idle" /\ pc' = [pc EXCEPT ![p] = "finishing"]
  BY DEF Goto
<1>2. LockInv'
  BY <1>1 DEF LockInv, TypeOK, rows
<1>3. SeedInv'
  BY <1>1 DEF SeedInv, Bound, TypeOK, rows, jwts
<1>4. ChallengeInv' /\ GateInv'
  BY RowsKeep DEF rows
<1>5. d.version = assignment.version
  BY DEF Vetted
<1>6. /\ d.version <= assignment.version
      /\ c.id <= minted
      /\ \A e \in challenges : e.version <= d.version
  BY <1>5, Numbers DEF ChallengeInv, TypeOK
<1>7. RequestInv'
  BY <1>1, <1>6 DEF RequestInv, Exchanged, TypeOK, rows, jwts
<1> QED
  BY <1>2, <1>3, <1>4, <1>7

LEMMA ConsumeLockKeeps ==
    ASSUME TypeOK, IInv, NEW p \in Proc, ConsumeLock(p)
    PROVE  IInv'
<1> USE DEF ConsumeLock, IInv
<1>1. pc[p] = "finishing" /\ pc' = [pc EXCEPT ![p] = "consuming"]
  BY DEF Goto
<1>2. LockInv'
  BY <1>1 DEF LockInv, Lockable, RowFree, TypeOK, rows
<1>3. SeedInv'
  BY <1>1 DEF SeedInv, Bound, TypeOK, rows, jwts
<1>4. ChallengeInv' /\ GateInv'
  BY RowsKeep DEF rows
<1>5. RequestInv'
  BY <1>1 DEF RequestInv, Exchanged, TypeOK, rows, jwts
<1> QED
  BY <1>2, <1>3, <1>4, <1>5

\* Storing a row over the one of the same number.
LEMMA StoredRows ==
    ASSUME ChallengeInv, NEW c \in challenges, NEW e, e.id = c.id, e.version = c.version
    PROVE  /\ \A x \in Stored(e) : x = e \/ (x \in challenges /\ x.id # c.id)
           /\ \A x \in Stored(e) : \E y \in challenges : x.id = y.id /\ x.version = y.version
BY DEF Stored, ChallengeInv

LEMMA WrongCodeKeeps ==
    ASSUME TypeOK, TypeOK', IInv, NEW p \in Proc, WrongCode(p)
    PROVE  IInv'
<1> USE DEF IInv
<1>1. PICK c \in found[p] : /\ Usable(p, c)
                            /\ challenges' = Stored(Guessed(c))
                            /\ guesses' = [guesses EXCEPT ![c.id] = @ + 1]
  BY DEF WrongCode
<1>2. /\ Return(p, "consuming") /\ assignment' = assignment /\ minted' = minted
      /\ sessions' = sessions /\ grants' = grants /\ enrollments' = enrollments
      /\ accepted' = accepted
  BY DEF WrongCode, jwts
<1>3. holders = {p} /\ c \in challenges
  BY <1>2 DEF LockInv, Return, Goto
<1>4. /\ c \in Challenge /\ c.attempts < MaxAttempts
      /\ ~c.consumed
  BY <1>1, <1>3 DEF Usable, AttemptsLeft, TypeOK
<1> DEFINE e == Guessed(c)
<1>5. /\ e.attempts = c.attempts + 1 /\ e.id = c.id
      /\ e.version = c.version /\ e.consumed = c.consumed
  BY <1>4, GuessedFields
<1> HIDE DEF e
<1>6. /\ \A x \in challenges' : x = e \/ (x \in challenges /\ x.id # c.id)
      /\ \A x \in challenges' : \E y \in challenges : x.id = y.id /\ x.version = y.version
  BY <1>1, <1>3, <1>5, StoredRows DEF e
<1>7. LockInv'
  BY <1>2, <1>3 DEF LockInv, Return, Goto, TypeOK
<1>8. SeedInv'
  BY <1>2, ReturnSeeds
<1>9. ChallengeInv'
  <2>1. c.id \in 1..minted /\ c.id \in 1..MaxChallenges /\ guesses[c.id] = c.attempts
    BY <1>3, FactorAssumption DEF ChallengeInv, TypeOK
  <2>2. \A i \in 1..MaxChallenges :
          guesses'[i] = IF i = c.id THEN c.attempts + 1 ELSE guesses[i]
    BY <1>1, <2>1 DEF TypeOK
  <2>3. \A x \in challenges : x.id \in 1..minted /\ x.id \in 1..MaxChallenges
    BY FactorAssumption DEF ChallengeInv, TypeOK
  <2>4. \A x \in challenges' :
          /\ x.id \in 1..minted
          /\ x.version <= assignment.version
          /\ guesses'[x.id] = x.attempts
          /\ x.id \in accepted => x.consumed
    <3>1. ASSUME NEW x \in challenges, x.id # c.id PROVE guesses'[x.id] = x.attempts
      BY <2>2, <2>3, <3>1 DEF ChallengeInv
    <3>2. guesses'[e.id] = e.attempts /\ (e.id \in accepted => e.consumed)
      BY <1>3, <1>4, <1>5, <2>1, <2>2 DEF ChallengeInv
    <3> QED
      BY <1>3, <1>5, <1>6, <2>1, <3>1, <3>2 DEF ChallengeInv
  <2>5. \A x, y \in challenges' : x.id = y.id => x = y
    BY <1>5, <1>6 DEF ChallengeInv
  <2>6. \A i \in 1..MaxChallenges :
          guesses'[i] <= MaxAttempts /\ (i > minted => guesses'[i] = 0)
    <3>1. c.attempts \in Nat /\ c.attempts + 1 <= MaxAttempts
      BY <1>3, <1>4, Numbers, FactorAssumption
    <3>2. \A i \in 1..MaxChallenges : i > minted => i # c.id
      BY <2>1 DEF TypeOK
    <3> QED
      BY <2>2, <3>1, <3>2 DEF ChallengeInv
  <2> QED
    BY <1>2, <2>4, <2>5, <2>6 DEF ChallengeInv
<1>10. RequestInv'
  <2>1. \A q \in Proc : pc'[q] # "idle" =>
          /\ pc[q] = pc'[q] /\ held'[q] = held[q] /\ target'[q] = target[q]
          /\ outcome'[q] = outcome[q] /\ purpose'[q] = purpose[q]
    BY <1>2 DEF Return, Goto, TypeOK
  <2> QED
    BY <2>1, <1>2, <1>6 DEF RequestInv, Exchanged
<1>11. GateInv'
  BY <1>2 DEF GateInv
<1> QED
  BY <1>7, <1>8, <1>9, <1>10, <1>11

\* An accepted code, as its holder sees it: the challenge is of the row's version, which
\* is the version of the pending JWT.
LEMMA RightCodeFacts ==
    ASSUME TypeOK, IInv, NEW p \in Proc, RightCode(p)
    PROVE  \E c \in challenges :
             /\ c.id = target[p] /\ ~c.consumed
             /\ row[p] = assignment
             /\ assignment.version = held[p].version
             /\ assignment.active /\ Open(assignment, purpose[p])
             /\ assignment' = IF purpose[p] = "enroll" THEN Enrolled(assignment, c)
                              ELSE assignment
             /\ challenges' = Stored(Spent(c))
             /\ outcome' = [outcome EXCEPT ![p] =
                  [version |-> Exchanged(assignment.version, purpose[p]),
                   seed |-> IF purpose[p] = "enroll" THEN c.seed ELSE assignment.secret]]
             /\ enrollments' = IF purpose[p] = "enroll" THEN enrollments + 1 ELSE enrollments
             /\ accepted' = accepted \cup {c.id}
             /\ pc[p] = "consuming" /\ pc' = [pc EXCEPT ![p] = "accepted"]
             /\ holders = {p} /\ holders' = {}
             /\ UNCHANGED <<minted, sessions, held, purpose, target, row, found, grants,
                            guesses>>
<1> USE DEF IInv
<1>1. pc[p] = "consuming" /\ pc' = [pc EXCEPT ![p] = "accepted"]
  BY DEF RightCode, Goto
<1>2. holders = {p} /\ row[p] = assignment
  BY <1>1 DEF LockInv
<1>3. PICK c \in found[p] :
        /\ Usable(p, c)
        /\ assignment' = IF purpose[p] = "enroll" THEN Enrolled(row[p], c) ELSE assignment
        /\ challenges' = Stored(Spent(c))
        /\ outcome' = [outcome EXCEPT ![p] =
             [version |-> IF purpose[p] = "enroll" THEN row[p].version + 1
                          ELSE row[p].version,
              seed |-> IF purpose[p] = "enroll" THEN c.seed ELSE row[p].secret]]
        /\ holders' = holders \ {p}
        /\ enrollments' = IF purpose[p] = "enroll" THEN enrollments + 1 ELSE enrollments
        /\ accepted' = accepted \cup {c.id}
        /\ UNCHANGED <<minted, sessions, held, purpose, target, row, found, grants, guesses>>
  BY DEF RightCode, jwts
<1>4. c \in challenges /\ c.id = target[p]
  BY <1>2 DEF LockInv
<1>5. c.version = assignment.version /\ ~c.consumed /\ assignment.active
      /\ Open(assignment, purpose[p])
  BY <1>2, <1>3 DEF Usable
<1>6. assignment.version = held[p].version
  BY <1>1, <1>4, <1>5, Numbers DEF RequestInv
<1> QED
  BY <1>1, <1>2, <1>3, <1>4, <1>5, <1>6 DEF Exchanged

LEMMA RightCodeKeeps ==
    ASSUME TypeOK, TypeOK', IInv, NEW p \in Proc, RightCode(p)
    PROVE  IInv'
<1> USE DEF IInv
<1>1. PICK c \in challenges :
        /\ c.id = target[p] /\ ~c.consumed
        /\ row[p] = assignment
        /\ assignment.version = held[p].version
        /\ assignment.active /\ Open(assignment, purpose[p])
        /\ assignment' = IF purpose[p] = "enroll" THEN Enrolled(assignment, c)
                         ELSE assignment
        /\ challenges' = Stored(Spent(c))
        /\ outcome' = [outcome EXCEPT ![p] =
             [version |-> Exchanged(assignment.version, purpose[p]),
              seed |-> IF purpose[p] = "enroll" THEN c.seed ELSE assignment.secret]]
        /\ enrollments' = IF purpose[p] = "enroll" THEN enrollments + 1 ELSE enrollments
        /\ accepted' = accepted \cup {c.id}
        /\ pc[p] = "consuming" /\ pc' = [pc EXCEPT ![p] = "accepted"]
        /\ holders = {p} /\ holders' = {}
        /\ UNCHANGED <<minted, sessions, held, purpose, target, row, found, grants, guesses>>
  BY RightCodeFacts
<1> DEFINE e == Spent(c)
<1>2. /\ e.attempts = c.attempts /\ e.id = c.id
      /\ e.version = c.version /\ e.consumed = TRUE
  BY SpentFields DEF TypeOK
<1> HIDE DEF e
<1>3. /\ \A x \in challenges' : x = e \/ (x \in challenges /\ x.id # c.id)
      /\ \A x \in challenges' : \E y \in challenges : x.id = y.id /\ x.version = y.version
  BY <1>1, <1>2, StoredRows DEF e
<1>4. assignment'.version = Exchanged(assignment.version, purpose[p])
      /\ assignment'.secret = (IF purpose[p] = "enroll" THEN c.seed ELSE assignment.secret)
      /\ assignment'.allowed = (IF purpose[p] = "enroll" THEN FALSE ELSE assignment.allowed)
  BY <1>1 DEF Enrolled, Exchanged
<1>5. /\ assignment'.version \in Nat /\ assignment'.secret \in Nat
      /\ assignment.version \in Nat
      /\ assignment.version <= assignment'.version
  <2>1. assignment' \in Assignment /\ assignment \in Assignment
    BY DEF TypeOK
  <2> QED
    BY <1>4, <2>1 DEF Exchanged, Assignment
<1>6. \A q \in Proc : q # p => pc'[q] = pc[q] /\ outcome'[q] = outcome[q] /\ pc[q] # "consuming"
  BY <1>1 DEF LockInv, TypeOK
<1>7. pc'[p] = "accepted" /\ outcome'[p].version = assignment'.version
      /\ outcome'[p].seed = assignment'.secret
  BY <1>1, <1>4 DEF TypeOK
<1>8. LockInv'
  BY <1>1, <1>6, <1>7 DEF LockInv
<1>9. SeedInv'
  <2>1. ASSUME NEW v \in Nat, NEW s \in Nat, Bound(assignment, v, s)
        PROVE  Bound(assignment', v, s)
    <3>1. CASE purpose[p] = "enroll"
      <4>1. v < assignment'.version
        BY <2>1, <3>1, <1>4, Numbers DEF Bound, Exchanged
      <4> QED
        BY <2>1, <4>1, <1>5 DEF Bound
    <3>2. CASE purpose[p] # "enroll"
      BY <2>1, <3>2, <1>4 DEF Bound, Exchanged
    <3> QED
      BY <3>1, <3>2
  <2>2. Bound(assignment', assignment'.version, assignment'.secret)
    BY <1>5 DEF Bound
  <2>3. \A s \in sessions : Bound(assignment', s.version, s.seed)
    BY <2>1, Numbers DEF SeedInv
  <2>4. ASSUME NEW q \in Proc, pc'[q] \in {"accepted", "checked"}
        PROVE  Bound(assignment', outcome'[q].version, outcome'[q].seed)
    <3>1. CASE q = p
      BY <3>1, <1>7, <2>2
    <3>2. CASE q # p
      <4>1. Bound(assignment, outcome[q].version, outcome[q].seed)
        BY <2>4, <3>2, <1>6 DEF SeedInv
      <4>2. Bound(assignment', outcome[q].version, outcome[q].seed)
        BY <4>1, <2>1, Numbers
      <4> QED
        BY <4>2, <3>2, <1>6
    <3> QED
      BY <3>1, <3>2
  <2> QED
    BY <1>1, <2>3, <2>4 DEF SeedInv
<1>10. ChallengeInv'
  <2>1. \A x \in challenges : x.version <= assignment'.version
    BY <1>5, Numbers DEF ChallengeInv
  <2>2. \A x \in challenges' :
          /\ x.id \in 1..minted
          /\ x.version <= assignment'.version
          /\ guesses[x.id] = x.attempts
          /\ x.id \in accepted' => x.consumed
    BY <1>1, <1>2, <1>3, <2>1 DEF ChallengeInv
  <2>3. \A x, y \in challenges' : x.id = y.id => x = y
    BY <1>2, <1>3 DEF ChallengeInv
  <2>4. \A i \in accepted' : i <= minted
    BY <1>1 DEF ChallengeInv
  <2> QED
    BY <1>1, <2>2, <2>3, <2>4 DEF ChallengeInv
<1>11. RequestInv'
  <2>1. ASSUME NEW q \in Proc, pc'[q] \in {"finishing", "consuming"}
        PROVE  /\ held[q].version <= assignment'.version
               /\ target[q] <= minted
               /\ \A x \in challenges' : x.id = target[q] => x.version <= held[q].version
    <3>1. q # p
      BY <2>1, <1>7
    <3>2. pc[q] \in {"finishing", "consuming"}
      BY <2>1, <3>1, <1>6
    <3>3. held[q].version <= assignment.version
      BY <3>2 DEF RequestInv
    <3>4. held[q].version <= assignment'.version
      BY <3>3, <1>5, Numbers
    <3> QED
      BY <3>2, <3>4, <1>3 DEF RequestInv
  <2>2. ASSUME NEW q \in Proc, pc'[q] \in {"accepted", "checked"}
        PROVE  outcome'[q].version = Exchanged(held[q].version, purpose[q])
    <3>1. CASE q = p
      BY <3>1, <1>1, <1>4, <1>7
    <3>2. CASE q # p
      BY <2>2, <3>2, <1>6 DEF RequestInv
    <3> QED
      BY <3>1, <3>2
  <2> QED
    BY <1>1, <2>1, <2>2 DEF RequestInv, Exchanged
<1>12. GateInv'
  <2>1. enrollments \in Nat /\ grants \in Nat
    BY DEF TypeOK
  <2>2. CASE purpose[p] = "enroll"
    <3>1. assignment.allowed
      BY <1>1, <2>2 DEF Open
    <3>2. enrollments + 1 <= grants
      BY <3>1 DEF GateInv
    <3>3. /\ ~assignment'.allowed
          /\ enrollments' = enrollments + 1 /\ grants' = grants
      BY <1>1, <1>4, <2>2
    <3> QED
      BY <2>1, <3>2, <3>3 DEF GateInv
  <2>3. CASE purpose[p] # "enroll"
    BY <1>1, <1>4, <2>3 DEF GateInv
  <2> QED
    BY <2>2, <2>3
<1> QED
  BY <1>8, <1>9, <1>10, <1>11, <1>12

LEMMA CheckKeeps ==
    ASSUME TypeOK, IInv, NEW p \in Proc, CheckVersion(p)
    PROVE  IInv'
<1> USE DEF CheckVersion, IInv
<1>1. pc[p] = "accepted" /\ pc' = [pc EXCEPT ![p] = "checked"]
  BY DEF Goto
<1>2. LockInv'
  BY <1>1 DEF LockInv, TypeOK, rows, local
<1>3. SeedInv'
  BY <1>1 DEF SeedInv, Bound, TypeOK, rows, jwts, local
<1>4. ChallengeInv' /\ GateInv'
  BY RowsKeep DEF rows
<1>5. RequestInv'
  BY <1>1 DEF RequestInv, Exchanged, TypeOK, rows, jwts, local
<1> QED
  BY <1>2, <1>3, <1>4, <1>5

\* The signed session inherits what is known of its outcome.
LEMMA SignKeeps ==
    ASSUME TypeOK, IInv, NEW p \in Proc, Sign(p)
    PROVE  IInv'
<1> USE DEF IInv
<1>1. PICK s : /\ sessions' = sessions \cup {s}
               /\ s.version = outcome[p].version /\ s.seed = outcome[p].seed
               /\ s.pending = held[p].version /\ s.via = purpose[p]
  <2> DEFINE n == [version |-> outcome[p].version, iat |-> clock,
                   pending |-> held[p].version, via |-> purpose[p],
                   seed |-> outcome[p].seed, since |-> held[p].since]
  <2>1. sessions' = sessions \cup {n}
    BY DEF Sign
  <2>2. /\ n.version = outcome[p].version /\ n.seed = outcome[p].seed
        /\ n.pending = held[p].version /\ n.via = purpose[p]
    OBVIOUS
  <2> HIDE DEF n
  <2> QED
    BY <2>1, <2>2
<1>2. Return(p, "checked") /\ rows' = rows /\ history' = history
  BY DEF Sign
<1>3. pc[p] = "checked"
  BY <1>2 DEF Return, Goto
<1>4. LockInv'
  BY <1>2, ReturnLocks DEF rows
<1>5. ChallengeInv' /\ GateInv'
  BY <1>2, RowsKeep DEF rows
<1>6. \A q \in Proc : pc'[q] # "idle" =>
         /\ pc[q] = pc'[q] /\ held'[q] = held[q] /\ target'[q] = target[q]
         /\ outcome'[q] = outcome[q] /\ purpose'[q] = purpose[q]
  BY <1>2 DEF Return, Goto, TypeOK
<1>7. SeedInv'
  BY <1>1, <1>2, <1>3, <1>6 DEF SeedInv, Bound, rows
<1>8. RequestInv'
  BY <1>1, <1>2, <1>3, <1>6 DEF RequestInv, Exchanged, rows
<1> QED
  BY <1>4, <1>5, <1>7, <1>8

LEMMA ChallengedKeeps ==
    ASSUME TypeOK, TypeOK', IInv, NEW p \in Proc, Challenged(p)
    PROVE  IInv'
<1>1. CASE Refused(p)
  BY <1>1, ReturnKeeps DEF Refused, jwts
<1>2. CASE Abort(p)
  BY <1>2, ReturnKeeps DEF Abort, jwts
<1> QED
  BY <1>1, <1>2, StartKeeps, FinishKeeps, BeginKeeps, ConsumeLockKeeps, WrongCodeKeeps,
     RightCodeKeeps, CheckKeeps, SignKeeps DEF Challenged

LEMMA IInvStep == TypeOK /\ TypeOK' /\ IInv /\ [Next]_vars => IInv'
<1> SUFFICES ASSUME TypeOK, TypeOK', IInv, [Next]_vars PROVE IInv'
  OBVIOUS
<1>1. CASE UNCHANGED vars
  BY <1>1, QuietKeeps DEF vars, jwts
<1> QED
  BY <1>1, OperateKeeps, ChallengedKeeps DEF Next

LEMMA Invariance == Spec => [](TypeOK /\ IInv)
<1>1. Spec => []TypeOK
  BY TypeCorrect
<1> QED
  BY <1>1, IInvInit, IInvStep, PTL DEF Spec

-----------------------------------------------------------------------------
\* Whatever races the signing, a session that SessionCheck accepts was exchanged for a
\* code of the seed enrolled now.
THEOREM CurrentSeed == Spec => []SessionsOfCurrentSeed
<1>1. TypeOK /\ IInv => SessionsOfCurrentSeed
  BY DEF SessionsOfCurrentSeed, Accepted, Live, IInv, SeedInv, Bound
<1> QED
  BY <1>1, Invariance, PTL

\* Each operator grant buys at most one enrollment.
THEOREM OneEnrollment == Spec => []OneEnrollmentPerGrant
<1>1. TypeOK /\ IInv => OneEnrollmentPerGrant
  BY Numbers DEF OneEnrollmentPerGrant, IInv, GateInv, TypeOK
<1> QED
  BY <1>1, Invariance, PTL

\* No more than MaxAttempts wrong codes are ever evaluated against one challenge.
THEOREM Guesses == Spec => []GuessesBounded
<1>1. TypeOK /\ IInv => GuessesBounded
  BY DEF GuessesBounded, IInv, ChallengeInv
<1> QED
  BY <1>1, Invariance, PTL

\* A session carries the version of the pending JWT it was exchanged for, plus one for
\* the enrollment.
THEOREM PendingBinds == Spec => []PendingBindsSession
<1>1. TypeOK /\ IInv => PendingBindsSession
  BY DEF PendingBindsSession, IInv, RequestInv, Exchanged
<1> QED
  BY <1>1, Invariance, PTL

\* A challenge is accepted at most once.
THEOREM AcceptsOnce == Spec => AcceptedOnce
<1>1. ASSUME TypeOK, IInv, NEW p \in Proc, RightCode(p) PROVE target[p] \notin accepted
  BY <1>1, RightCodeFacts DEF IInv, ChallengeInv
<1>2. TypeOK /\ IInv => [\A p \in Proc : RightCode(p) => target[p] \notin accepted]_vars
  BY <1>1
<1> QED
  BY <1>2, Invariance, PTL DEF AcceptedOnce

\* A version that is refused is refused for good.
THEOREM DeadStayDead == Spec => DeadSessionsStayDead
<1>1. ASSUME TypeOK, TypeOK', IInv, Next, NEW s \in sessions, ~Live(s.version)
      PROVE  ~Live(s.version)'
  <2>1. s.version <= assignment.version /\ s.version \in Nat
    BY <1>1, Numbers DEF IInv, SeedInv, Bound
  <2>2. CASE Grant
    BY <1>1, <2>2 DEF Grant, Granted, Live
  <2>3. CASE Revoke
    BY <1>1, <2>3, ActiveFields DEF Revoke, Live, TypeOK
  <2>4. ASSUME NEW p \in Proc, RightCode(p) PROVE ~Live(s.version)'
    <3>1. CASE assignment' = assignment
      BY <1>1, <3>1 DEF Live
    <3>2. CASE assignment'.version = assignment.version + 1
      BY <1>1, <2>1, <3>2, Numbers DEF Live
    <3> QED
      BY <1>1, <2>4, <3>1, <3>2, RightCodeFacts DEF Enrolled
  <2>5. \/ Grant \/ Revoke \/ \E p \in Proc : RightCode(p)
        \/ assignment' = assignment
    BY <1>1 DEF Next, Operate, ResetPassword, Tick, Login, Challenged, StartFactor,
         FinishFactor, Begin, ConsumeLock, WrongCode, Refused, CheckVersion, Sign, Abort, rows
  <2> QED
    BY <1>1, <2>2, <2>3, <2>4, <2>5 DEF Live
<1>2. TypeOK /\ TypeOK' /\ IInv /\ [Next]_vars =>
        [\A s \in sessions : ~Live(s.version) => ~Live(s.version)']_vars
  BY <1>1
<1> QED
  BY <1>2, Invariance, TypeCorrect, PTL DEF Spec, DeadSessionsStayDead
=============================================================================
