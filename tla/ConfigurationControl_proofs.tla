-------------------- MODULE ConfigurationControl_proofs --------------------
(***************************************************************************)
(* Proofs about ConfigurationControl, for any number of requests, any set  *)
(* of fee rules, any of the policies and any bound.                         *)
(***************************************************************************)
EXTENDS ConfigurationControl, SequenceTheorems, WellFoundedInduction, TLAPS

-----------------------------------------------------------------------------
(***************************************************************************)
(* The newest report of a set of reports.                                  *)
(***************************************************************************)

\* A set of natural numbers that is bounded has a greatest element: the distances from
\* the bound have a least one.
LEMMA Greatest ==
    ASSUME NEW d \in Nat, NEW S \in SUBSET (0..d), S # {}
    PROVE  \E m \in S : \A k \in S : k <= m
<1> DEFINE T == {d - k : k \in S}
           R == OpToRel(<, Nat)
<1>1. IsWellFoundedOn(R, Nat)
  BY NatLessThanWellFounded, Zenon
<1>2. \A x, y \in Nat : x < y => <<x, y>> \in R
  BY DEF OpToRel
<1> HIDE DEF R
<1>3. T \subseteq Nat
  <2>1. \A k \in S : d - k \in Nat
    OBVIOUS
  <2> QED
    BY <2>1
<1>4. T # {}
  <2>1. PICK k \in S : TRUE
    OBVIOUS
  <2>2. d - k \in T
    OBVIOUS
  <2> QED
    BY <2>2
<1>5. PICK x \in T : \A y \in T : ~(<<y, x>> \in R)
  <2> HIDE DEF T
  <2> QED
    BY <1>1, <1>3, <1>4, WFMin
<1>6. \A y \in T : ~(y < x)
  BY <1>2, <1>3, <1>5
<1>7. PICK m \in S : x = d - m
  OBVIOUS
<1>8. ASSUME NEW k \in S PROVE k <= m
  <2>1. d - k \in T
    OBVIOUS
  <2> QED
    BY <2>1, <1>6, <1>7
<1> QED
  BY <1>8

LEMMA NewestReport ==
    ASSUME NEW d \in Nat, NEW rs, rs # {}, \A r \in rs : r.id \in 0..d
    PROVE  \E r \in rs : Newest(rs) = r.version /\ \A q \in rs : q.id <= r.id
<1> DEFINE ids == {r.id : r \in rs}
<1>1. ids \in SUBSET (0..d) /\ ids # {}
  <2>1. ids \subseteq 0..d
    OBVIOUS
  <2>2. PICK r \in rs : TRUE
    OBVIOUS
  <2>3. r.id \in ids
    OBVIOUS
  <2> QED
    BY <2>1, <2>3
<1>2. PICK m \in ids : \A k \in ids : k <= m
  <2> HIDE DEF ids
  <2> QED
    BY <1>1, Greatest
<1>3. PICK r \in rs : r.id = m
  OBVIOUS
<1>4. \A q \in rs : q.id <= r.id
  <2>1. \A q \in rs : q.id \in ids
    OBVIOUS
  <2> QED
    BY <1>2, <1>3, <2>1
<1>5. \E s \in rs : s = (CHOOSE x \in rs : \A q \in rs : q.id <= x.id)
                    /\ \A q \in rs : q.id <= s.id
  <2> HIDE DEF ids
  <2> QED
    BY <1>4, Zenon
<1> QED
  BY <1>5 DEF Newest

-----------------------------------------------------------------------------
(***************************************************************************)
(* The inductive invariant.                                                *)
(***************************************************************************)

\* Who holds the head, and in which mode.
LockInv ==
    /\ \A p \in Proc : p \in readers <=> pc[p] \in {"registering", "admitted"}
    /\ \A p \in Proc : p \in readers => setting = "registration"
    /\ \A p \in writer : pc[p] \in {"reporting", "inserted"}
    /\ \A p \in Proc : pc[p] \in {"reporting", "inserted"} /\ LocksHead(report[p].status)
          => p \in writer
    /\ \A p, q \in writer : p = q
    /\ writer # {} => readers = {}

\* Reports carry distinct ids of the sequence and name versions that exist.
ReportInv ==
    /\ \A r \in reports : r.id \in 1..drawn /\ r.version \in 1..Len(versions)
    /\ \A r, q \in reports : r.id = q.id => r = q
    /\ \A p \in Proc : pc[p] \in {"reporting", "inserted"} =>
          report[p].version \in 1..Len(versions)
    /\ \A p \in Proc : pc[p] = "inserted" =>
          report[p].id \in 1..drawn /\ \A r \in reports : r.id # report[p].id
    /\ \A p, q \in Proc : p # q /\ pc[p] = "inserted" /\ pc[q] = "inserted" =>
          report[p].id # report[q].id

\* Under the lock, applied reports commit in the order of their ids.
OrderInv ==
    setting = "registration" =>
      /\ Reported("applied") = {} => acknowledged = 0
      /\ \A r \in Reported("applied") :
            (\A q \in Reported("applied") : q.id <= r.id) => acknowledged = r.version
      /\ \A p \in Proc : pc[p] = "inserted" /\ report[p].status = "applied" =>
            \A q \in Reported("applied") : q.id < report[p].id

\* What a registration read is still so, and what it was admitted under in force.
AdmitInv ==
    \A p \in Proc :
        /\ pc[p] \in {"registering", "admitted"} => seen[p] = Latest
        /\ pc[p] = "admitted" => Effective(Latest) \in Admitting

\* The head is never behind what a request read of it.
LookInv ==
    \A p \in Proc : pc[p] \in {"evaluating", "rereading"} => seen[p] <= Latest

\* A rollback, drafted or written, repeats an applied version.
Restores(value, target) ==
    target # 0 =>
        /\ target \in 1..Len(versions)
        /\ value = versions[target].value
        /\ \E r \in reports : r.version = target /\ r.status = "applied"

DraftInv ==
    \A p \in Proc :
        /\ pc[p] = "selecting" => listed[p] <= Latest
        /\ pc[p] \in Drafting => Restores(draft[p].value, draft[p].rollback)

WrittenInv == RollbackRestoresApplied /\ NoVersionOverwritten

IInv ==
    /\ LockInv /\ ReportInv /\ OrderInv
    /\ AdmitInv /\ LookInv /\ DraftInv /\ WrittenInv

-----------------------------------------------------------------------------
(***************************************************************************)
(* Type correctness, given the facts about reports.                        *)
(***************************************************************************)

LEMMA VersionsSeq ==
    ASSUME TypeOK
    PROVE  /\ Latest \in Nat /\ Len(versions) \in Nat
           /\ \A n \in 1..Len(versions) :
                 /\ versions[n] \in Version
                 /\ versions[n].value \in Value
                 /\ versions[n].rollback \in Nat
                 /\ versions[n].expected \in Nat
<1>1. versions \in Seq(Version)
  BY DEF TypeOK
<1>2. \A n \in 1..Len(versions) : versions[n] \in Version
  BY <1>1, ElementOfSeq
<1>3. Len(versions) \in Nat
  BY <1>1, LenProperties
<1> QED
  BY <1>2, <1>3 DEF Latest, Version

\* Any reports that exist have a newest one, which names a version.
LEMMA NewestVersionExists ==
    ASSUME TypeOK, ReportInv, NEW rs \in SUBSET reports, rs # {}
    PROVE  \E r \in rs : /\ Newest(rs) = r.version
                         /\ \A q \in rs : q.id <= r.id
                         /\ Newest(rs) \in 1..Len(versions)
<1>1. drawn \in Nat /\ \A r \in rs : r.id \in 0..drawn
  BY DEF TypeOK, ReportInv
<1>2. PICK r \in rs : Newest(rs) = r.version /\ \A q \in rs : q.id <= r.id
  BY <1>1, NewestReport
<1> QED
  BY <1>2 DEF ReportInv

LEMMA NoneNewest == Newest({}) = 0
BY DEF Newest

LEMMA LastKnownGoodRange ==
    ASSUME TypeOK, ReportInv
    PROVE  /\ LastKnownGood \in 0..Len(versions)
           /\ LastKnownGood = 0 <=> Reported("applied") = {}
<1>1. Reported("applied") \subseteq reports
  BY DEF Reported
<1>2. CASE Reported("applied") = {}
  <2>1. LastKnownGood = 0
    BY <1>2 DEF LastKnownGood, Newest
  <2> QED
    BY <1>2, <2>1, VersionsSeq
<1>3. CASE Reported("applied") # {}
  <2>1. LastKnownGood \in 1..Len(versions)
    BY <1>1, <1>3, NewestVersionExists DEF LastKnownGood
  <2> QED
    BY <1>3, <2>1, VersionsSeq
<1> QED
  BY <1>2, <1>3

\* The policies differ in what is in force before anything was applied.
LEMMA EffectiveByPolicy ==
    ASSUME TypeOK
    PROVE  \A n : Effective(n) = Decided(n, Baseline[setting], Unapplied[setting])
<1>1. setting \in {"registration", "catalog", "fee"}
  BY ControlAssumption DEF TypeOK, Policies
<1> QED
  BY <1>1 DEF Effective, RegistrationState, PublicCatalogState, PlatformFeeState

LEMMA PolicyValues ==
    ASSUME TypeOK
    PROVE  /\ Baseline[setting] \in Value /\ Unapplied[setting] \in Told
           /\ Values(setting) \subseteq Value
           /\ NoValue \notin Switch /\ Value \subseteq Told
<1>1. setting \in {"registration", "catalog", "fee"}
  BY ControlAssumption DEF TypeOK, Policies
<1> QED
  BY <1>1, ControlAssumption DEF Baseline, Unapplied, Told, Value, Values, Switch, Policies,
     NoValue

LEMMA EffectiveType ==
    ASSUME TypeOK, ReportInv, NEW n \in Nat
    PROVE  Effective(n) \in Told
<1>1. LastKnownGood # 0 => versions[LastKnownGood].value \in Value
  BY LastKnownGoodRange, VersionsSeq
<1> QED
  BY <1>1, EffectiveByPolicy, PolicyValues DEF Decided

\* What is in force changes with the versions and reports only.
LEMMA EffectiveKept ==
    ASSUME setting' = setting, versions' = versions, reports' = reports
    PROVE  Latest' = Latest /\ LastKnownGood' = LastKnownGood
           /\ Effective(Latest)' = Effective(Latest)
BY DEF Latest, Effective, RegistrationState, PublicCatalogState, PlatformFeeState, Decided,
   LastKnownGood, Reported

\* The target of a rollback was applied, and exists.
LEMMA TargetFacts ==
    ASSUME TypeOK, ReportInv, NEW p \in Proc, Newest(Acknowledgements(p)) # 0
    PROVE  Restores(Restored(Newest(Acknowledgements(p))), Newest(Acknowledgements(p)))
<1>1. Acknowledgements(p) \subseteq reports /\ Acknowledgements(p) # {}
  BY NoneNewest DEF Acknowledgements, Reported
<1>2. PICK r \in Acknowledgements(p) :
        /\ Newest(Acknowledgements(p)) = r.version
        /\ Newest(Acknowledgements(p)) \in 1..Len(versions)
  BY <1>1, NewestVersionExists
<1>3. r \in reports /\ r.status = "applied"
  BY DEF Acknowledgements, Reported
<1> QED
  BY <1>2, <1>3 DEF Restores, Restored

LEMMA TypeInit == Init => TypeOK
<1>1. <<>> \in Seq(Version)
  BY EmptySeq
<1>2. NoReport \in Report /\ NoAnswer \in AnswerType
  BY DEF NoReport, Report, Status, NoAnswer, Code, AnswerType
<1> QED
  BY <1>1, <1>2 DEF Init, TypeOK, Step, NoDraft, Drafting

-----------------------------------------------------------------------------
\* Answers are typed.

LEMMA CodeType == \A n \in Nat : Code(n) \in AnswerType
BY DEF Code, AnswerType

LEMMA TellType ==
    ASSUME TypeOK, NEW v \in Told
    PROVE  Tell(v) \in AnswerType /\ Grpc(v) \in AnswerType
<1>1. setting \in {"registration", "catalog", "fee"}
  BY ControlAssumption DEF TypeOK, Policies
<1>2. Tell(v) \in AnswerType /\ [code |-> 9, value |-> v] \in AnswerType
  BY DEF Tell, AnswerType
<1> QED
  BY <1>1, <1>2 DEF Grpc, GetPublicCatalogPolicy, GetPlatformFeePolicy

LEMMA AnswerTyped ==
    ASSUME TypeOK, NEW p \in Proc, NEW a \in AnswerType, answer' = [answer EXCEPT ![p] = a]
    PROVE  answer' \in [Proc -> AnswerType]
BY DEF TypeOK

LEMMA RefusalsType == Refusals \subseteq Nat
<1> DEFINE tables == {CreateVersionStatus, RecordReportStatus, SetFeeStatus}
           errors == {"malformed", "operator", "invalid"}
<1>1. \A table \in tables, error \in errors : table[error] \in Nat
  BY DEF CreateVersionStatus, RecordReportStatus, SetFeeStatus
<1>2. {InventoryStatus.invalid, HistoryStatus.invalid, SetRegistrationStatus.operator,
       SetCatalogStatus.operator, RegisterTenantStatus.malformed} \subseteq Nat
  BY DEF InventoryStatus, HistoryStatus, SetRegistrationStatus, SetCatalogStatus,
     RegisterTenantStatus
<1> QED
  BY <1>1, <1>2 DEF Refusals

LEMMA ConflictType == TypeOK => SetStatus(setting).conflict \in Nat
<1> SUFFICES ASSUME TypeOK PROVE SetStatus(setting).conflict \in Nat
  OBVIOUS
<1>1. setting \in {"registration", "catalog", "fee"}
  BY ControlAssumption DEF TypeOK, Policies
<1> QED
  BY <1>1 DEF SetStatus, SetRegistrationStatus, SetCatalogStatus, SetFeeStatus

LEMMA FailuresType ==
    ASSUME NEW p \in Proc
    PROVE  \A a \in Failures(p) \cup {NoAnswer} : a \in AnswerType /\ a.value = NoValue
BY DEF Failures, NoAnswer, Closed, Code, AnswerType, RegisterTenantStatus

\* What Leave leaves behind is typed.
LEMMA LeaveType ==
    ASSUME TypeOK, NEW p \in Proc, NEW from, NEW to \in Step \ Drafting, Leave(p, from, to)
    PROVE  /\ writer' \in SUBSET Proc /\ readers' \in SUBSET Proc
           /\ pc' \in [Proc -> Step]
           /\ seen' \in [Proc -> Nat]
           /\ listed' \in [Proc -> Nat]
           /\ draft' \in [Proc -> [value: Value \cup {NoValue}, rollback: Nat]]
           /\ \A q \in Proc : pc'[q] \in Drafting => draft'[q].value \in Value
           /\ report' \in [Proc -> Report]
<1>1. NoReport \in Report
  BY DEF NoReport, Report, Status
<1>2. NoDraft \in [value: Value \cup {NoValue}, rollback: Nat]
  BY DEF NoDraft
<1>3. pc' = [pc EXCEPT ![p] = to]
  BY DEF Leave, Goto
<1>4. \A q \in Proc : pc'[q] \in Drafting => draft'[q] = draft[q] /\ pc[q] \in Drafting
  BY <1>3 DEF Leave, TypeOK
<1> QED
  BY <1>1, <1>2, <1>3, <1>4 DEF Leave, TypeOK

LEMMA Returns ==
    ASSUME TypeOK, NEW p \in Proc, NEW from, NEW a \in AnswerType, Return(p, from, a),
           setting' = setting, versions' \in Seq(Version), reports' \in SUBSET Report,
           drawn' \in Nat, registered' \in Nat, acknowledged' \in Nat
    PROVE  TypeOK'
<1>1. Leave(p, from, "idle") /\ "idle" \in Step \ Drafting
  BY DEF Return, Step, Drafting
<1>2. answer' \in [Proc -> AnswerType]
  BY AnswerTyped DEF Return
<1>3. setting' \in Setting
  BY DEF TypeOK
<1> QED
  BY <1>1, <1>2, <1>3, LeaveType DEF TypeOK

\* A return that writes no row.
LEMMA ReturnsOnly ==
    ASSUME TypeOK, NEW p \in Proc, NEW from, NEW a \in AnswerType, Return(p, from, a),
           setting' = setting, rows' = rows, acknowledged' = acknowledged
    PROVE  TypeOK'
BY Returns DEF TypeOK, rows

LEMMA ReplyType ==
    ASSUME TypeOK, NEW p \in Proc, NEW n \in Nat, Reply(p, Code(n)), setting' = setting
    PROVE  TypeOK'
<1>1. answer' \in [Proc -> AnswerType]
  BY CodeType, AnswerTyped DEF Reply
<1> QED
  BY <1>1 DEF Reply, TypeOK, rows, locks, local

LEMMA DraftType ==
    ASSUME TypeOK, NEW p \in Proc, NEW n \in Nat, NEW v, NEW to \in Drafting,
           Draft(p, n, v, to), setting' = setting
    PROVE  TypeOK'
<1> DEFINE d == [value |-> v, rollback |-> 0]
<1>1. v \in Value
  BY PolicyValues DEF Draft
<1>2. d \in [value: Value \cup {NoValue}, rollback: Nat] /\ d.value \in Value
  BY <1>1
<1>3. pc' = [pc EXCEPT ![p] = to] /\ draft' = [draft EXCEPT ![p] = d] /\ to \in Step
  BY DEF Draft, Goto, Drafting, Step
<1> HIDE DEF d
<1>4. \A q \in Proc : pc'[q] \in Drafting => draft'[q].value \in Value
  BY <1>2, <1>3 DEF TypeOK
<1>5. draft' \in [Proc -> [value: Value \cup {NoValue}, rollback: Nat]]
  BY <1>2, <1>3 DEF TypeOK
<1> QED
  BY <1>3, <1>4, <1>5 DEF Draft, TypeOK, rows, locks

LEMMA ControlType ==
    ASSUME TypeOK, ReportInv, NEW p \in Proc, Control(p), setting' = setting PROVE TypeOK'
<1>1. CASE Refuse(p)
  BY <1>1, RefusalsType, ReplyType DEF Refuse
<1>2. CASE Browse(p)
  BY <1>2, ReplyType DEF Browse, InventoryStatus, HistoryStatus
<1>3. ASSUME NEW n \in Nat, NEW v \in Value, CreateVersion(p, n, v) PROVE TypeOK'
  BY <1>3, DraftType DEF CreateVersion, Drafting
<1>4. ASSUME NEW v \in Value, SetRegistration(p, v) \/ SetCatalog(p, v) \/ SetFee(p, v)
      PROVE  TypeOK'
  BY <1>4, DraftType, VersionsSeq DEF SetRegistration, SetCatalog, SetFee, Drafting
<1>5. ASSUME NEW n \in Nat, SelectRollback(p, n) PROVE TypeOK'
  BY <1>5, VersionsSeq DEF SelectRollback, Goto, TypeOK, Step, Drafting, rows, locks
<1>6. CASE ReadTarget(p)
  <2> DEFINE target == Newest(Acknowledgements(p))
             d == [value |-> Restored(target), rollback |-> target]
  <2>1. target # 0 /\ draft' = [draft EXCEPT ![p] = d]
    BY <1>6 DEF ReadTarget
  <2>2. target \in 1..Len(versions) /\ Restored(target) = versions[target].value
    BY <2>1, TargetFacts DEF Restores, Restored
  <2>3. Restored(target) \in Value /\ target \in Nat
    BY <2>2, VersionsSeq
  <2>4. d \in [value: Value \cup {NoValue}, rollback: Nat] /\ d.value \in Value
    BY <2>3
  <2>5. pc' = [pc EXCEPT ![p] = "creating"]
    BY <1>6 DEF ReadTarget, Goto
  <2> HIDE DEF d, target
  <2>6. \A q \in Proc : pc'[q] \in Drafting => draft'[q].value \in Value
    BY <2>1, <2>4, <2>5 DEF TypeOK
  <2>7. draft' \in [Proc -> [value: Value \cup {NoValue}, rollback: Nat]]
    BY <2>1, <2>4 DEF TypeOK
  <2> QED
    BY <1>6, <2>5, <2>6, <2>7 DEF ReadTarget, TypeOK, Step, rows, locks
<1>7. CASE RefuseTarget(p)
  <2>1. Code(CreateVersionStatus.invalid) \in AnswerType
    BY CodeType DEF CreateVersionStatus
  <2> QED
    BY <1>7, <2>1, ReturnsOnly DEF RefuseTarget
<1>8. CASE Create(p)
  <2> DEFINE v == [value |-> draft[p].value, rollback |-> draft[p].rollback,
                   expected |-> seen[p]]
  <2>1. pc[p] \in Drafting
    BY <1>8 DEF Create, Return, Leave, Goto, Drafting
  <2>2. v \in Version
    BY <2>1 DEF TypeOK, Version
  <2>3. versions' = Append(versions, v)
    BY <1>8 DEF Create
  <2>4. versions' \in Seq(Version)
    <3> HIDE DEF v
    <3> QED
      BY <2>2, <2>3 DEF TypeOK
  <2>5. CASE Return(p, "creating", Code(CreateVersionStatus.success))
    <3>1. Code(CreateVersionStatus.success) \in AnswerType
      BY CodeType DEF CreateVersionStatus
    <3> QED
      BY <1>8, <2>4, <2>5, <3>1, Returns DEF Create, TypeOK
  <2>6. CASE Leave(p, "setting", "confirming") /\ UNCHANGED answer
    <3>1. "confirming" \in Step \ Drafting
      BY DEF Step, Drafting
    <3> QED
      BY <1>8, <2>4, <2>6, <3>1, LeaveType DEF Create, TypeOK
  <2> QED
    BY <1>8, <2>5, <2>6 DEF Create
<1>9. CASE Conflict(p)
  <2>1. /\ Code(CreateVersionStatus.conflict) \in AnswerType
        /\ Code(SetStatus(setting).conflict) \in AnswerType
    BY CodeType, ConflictType DEF CreateVersionStatus
  <2> QED
    BY <1>9, <2>1, ReturnsOnly DEF Conflict
<1>10. CASE UnknownVersion(p)
  BY <1>10, ReplyType DEF UnknownVersion, RecordReportStatus
<1>11. ASSUME NEW n \in Nat, NEW status \in Status, RecordReport(p, n, status)
       PROVE  TypeOK'
  <2>1. [id |-> 0, version |-> n, status |-> status] \in Report
    BY DEF Report
  <2>2. writer' \in SUBSET Proc
    BY <1>11 DEF RecordReport, TypeOK
  <2> QED
    BY <1>11, <2>1, <2>2 DEF RecordReport, Goto, TypeOK, Step, Drafting, rows
<1>12. CASE InsertReport(p)
  <2>1. report' \in [Proc -> Report]
    <3>1. [report[p] EXCEPT !.id = drawn + 1] \in Report
      <4>1. report[p] \in Report /\ drawn + 1 \in Nat
        BY DEF TypeOK
      <4> QED
        BY <4>1 DEF Report
    <3>2. report' = [report EXCEPT ![p] = [report[p] EXCEPT !.id = drawn + 1]]
      BY <1>12 DEF InsertReport
    <3> QED
      BY <3>1, <3>2 DEF TypeOK
  <2> QED
    BY <1>12, <2>1 DEF InsertReport, Goto, TypeOK, Step, Drafting, locks
<1>13. CASE CommitReport(p)
  <2>1. reports' \in SUBSET Report /\ acknowledged' \in Nat
    BY <1>13 DEF CommitReport, TypeOK, Report
  <2>2. Code(RecordReportStatus.success) \in AnswerType
    BY CodeType DEF RecordReportStatus
  <2> QED
    BY <1>13, <2>1, <2>2, Returns DEF CommitReport, TypeOK
<1>14. 0..MaxVersions \subseteq Nat /\ 1..MaxVersions \subseteq Nat
  BY ControlAssumption
<1> QED
  BY <1>1, <1>2, <1>3, <1>4, <1>5, <1>6, <1>7, <1>8, <1>9, <1>10, <1>11, <1>12, <1>13,
     <1>14 DEF Control

LEMMA PolicyType ==
    ASSUME TypeOK, ReportInv, NEW p \in Proc, Policy(p) \/ Abort(p), setting' = setting
    PROVE  TypeOK'
<1>0. Closed \in AnswerType
  BY CodeType DEF Closed, RegisterTenantStatus
<1>1. CASE Gate(p)
  BY <1>1, VersionsSeq DEF Gate, Goto, TypeOK, Step, Drafting, rows, locks
<1>2. CASE GateOpen(p)
  <2>1. "gated" \in Step \ Drafting
    BY DEF Step, Drafting
  <2> QED
    BY <1>2, <2>1, LeaveType DEF GateOpen, TypeOK, rows
<1>3. CASE GateClosed(p)
  BY <1>0, <1>3, ReturnsOnly DEF GateClosed
<1>4. CASE RegisterTenant(p)
  BY <1>4, VersionsSeq DEF RegisterTenant, ShareHead, Goto, TypeOK, Step, Drafting, rows
<1>5. CASE CheckOpen(p)
  BY <1>5 DEF CheckOpen, Goto, TypeOK, Step, Drafting, rows, locks, local
<1>6. CASE RegistrationClosed(p)
  BY <1>0, <1>6, ReturnsOnly DEF RegistrationClosed
<1>7. CASE CommitRegistration(p)
  <2>1. registered' \in Nat
    BY <1>7 DEF CommitRegistration, TypeOK
  <2>2. Code(RegisterTenantStatus.success) \in AnswerType /\ Code(500) \in AnswerType
    BY CodeType DEF RegisterTenantStatus
  <2> QED
    BY <1>7, <2>1, <2>2, Returns DEF CommitRegistration, TypeOK
<1>8. CASE Evaluate(p)
  <2>1. pc' = [pc EXCEPT ![p] = "evaluating"] \/ pc' = [pc EXCEPT ![p] = "rereading"]
    BY <1>8 DEF Evaluate, Goto
  <2> QED
    BY <1>8, <2>1, VersionsSeq DEF Evaluate, TypeOK, Step, Drafting, rows, locks
<1>9. CASE Answer(p)
  <2>1. Effective(seen[p]) \in Told
    BY EffectiveType DEF TypeOK
  <2>2. Tell(Effective(seen[p])) \in AnswerType /\ Grpc(Effective(seen[p])) \in AnswerType
    BY <2>1, TellType
  <2> QED
    BY <1>9, <2>2, ReturnsOnly DEF Answer
<1>10. CASE Abort(p)
  BY <1>10, FailuresType, ReturnsOnly DEF Abort
<1> QED
  BY <1>1, <1>2, <1>3, <1>4, <1>5, <1>6, <1>7, <1>8, <1>9, <1>10 DEF Policy

LEMMA TypeStep == TypeOK /\ ReportInv /\ [Next]_vars => TypeOK'
<1> SUFFICES ASSUME TypeOK, ReportInv, [Next]_vars PROVE TypeOK'
  OBVIOUS
<1>1. CASE UNCHANGED vars
  BY <1>1 DEF TypeOK, vars, rows, locks, local
<1> QED
  BY <1>1, ControlType, PolicyType DEF Next

-----------------------------------------------------------------------------
(***************************************************************************)
(* Steps that only move a request along.                                   *)
(***************************************************************************)

LEMMA IInvInit == Init => IInv
<1> SUFFICES ASSUME Init PROVE IInv
  OBVIOUS
<1>1. Len(versions) = 0 /\ Reported("applied") = {}
  BY EmptySeq DEF Init, Reported
<1>2. LockInv
  BY DEF Init, LockInv
<1>3. ReportInv /\ OrderInv /\ AdmitInv /\ LookInv /\ DraftInv /\ WrittenInv
  BY <1>1 DEF Init, ReportInv, OrderInv, AdmitInv, LookInv, DraftInv, WrittenInv, Drafting,
     RollbackRestoresApplied, NoVersionOverwritten
<1> QED
  BY <1>2, <1>3 DEF IInv

\* The steps at which a request holds no lock, has drafted nothing and read nothing that
\* it relies on.
Parked == {"idle", "gated", "confirming"}

\* A request that leaves, from whichever step, takes nothing with it.
LEMMA LeaveLocks ==
    ASSUME TypeOK, LockInv, NEW p \in Proc, NEW from, NEW to \in Parked, Leave(p, from, to),
           setting' = setting
    PROVE  LockInv'
<1>1. pc' = [pc EXCEPT ![p] = to]
  BY DEF Leave, Goto
<1>2. \A q \in Proc : q # p => pc'[q] = pc[q] /\ report'[q] = report[q]
  BY <1>1 DEF Leave, TypeOK
<1>3. pc'[p] = to /\ to \notin {"registering", "admitted", "reporting", "inserted"}
  BY <1>1 DEF TypeOK, Parked
<1>4. /\ writer' = writer \ {p} /\ readers' = readers \ {p}
      /\ writer \subseteq Proc /\ readers \subseteq Proc
  BY DEF Leave, TypeOK
<1>5. \A q \in Proc : q \in readers' <=> pc'[q] \in {"registering", "admitted"}
  BY <1>2, <1>3, <1>4 DEF LockInv
<1>6. \A q \in writer' : pc'[q] \in {"reporting", "inserted"}
  BY <1>2, <1>4 DEF LockInv
<1>7. \A q \in Proc : pc'[q] \in {"reporting", "inserted"} /\ LocksHead(report'[q].status)
         => q \in writer'
  BY <1>2, <1>3, <1>4 DEF LockInv
<1> QED
  BY <1>4, <1>5, <1>6, <1>7 DEF LockInv, LocksHead

\* What the others hold after p has left.
LEMMA Others ==
    ASSUME TypeOK, NEW p \in Proc, NEW from, NEW to \in Parked, Leave(p, from, to)
    PROVE  \A q \in Proc : pc'[q] \notin Parked =>
              /\ q # p /\ pc[q] = pc'[q] /\ report'[q] = report[q]
              /\ seen'[q] = seen[q] /\ listed'[q] = listed[q] /\ draft'[q] = draft[q]
BY DEF Leave, Goto, TypeOK

LEMMA LeaveKeeps ==
    ASSUME TypeOK, IInv, NEW p \in Proc, NEW from, NEW to \in Parked, Leave(p, from, to),
           setting' = setting, versions' = versions, reports' = reports, drawn' = drawn,
           acknowledged' = acknowledged
    PROVE  IInv'
<1> USE DEF IInv
<1>1. LockInv'
  BY LeaveLocks
<1>2. ReportInv'
  BY Others DEF ReportInv, Parked
<1>3. OrderInv'
  BY Others DEF OrderInv, Reported, Parked
<1>4. AdmitInv'
  BY Others, EffectiveKept DEF AdmitInv, Parked
<1>5. LookInv' /\ DraftInv' /\ WrittenInv'
  BY Others DEF LookInv, DraftInv, Restores, WrittenInv, RollbackRestoresApplied,
     NoVersionOverwritten, Latest, Drafting, Parked
<1> QED
  BY <1>1, <1>2, <1>3, <1>4, <1>5

\* A return that leaves the rows alone.
LEMMA ReturnKeeps ==
    ASSUME TypeOK, IInv, NEW p \in Proc, NEW from, NEW a, Return(p, from, a),
           setting' = setting, rows' = rows, acknowledged' = acknowledged
    PROVE  IInv'
BY LeaveKeeps DEF Return, rows, Parked

\* The rows of a request that moves on, without touching a row or a lock.
LEMMA MoveKeeps ==
    ASSUME TypeOK, IInv, NEW p \in Proc, NEW from \in Parked \cup {"selecting"},
           NEW to \in Drafting \cup {"selecting", "gating", "evaluating", "rereading"},
           Goto(p, from, to), setting' = setting,
           rows' = rows, locks' = locks, report' = report, acknowledged' = acknowledged,
           \A q \in Proc : q # p => /\ seen'[q] = seen[q] /\ listed'[q] = listed[q]
                                   /\ draft'[q] = draft[q],
           to = "selecting" => listed'[p] <= Latest,
           to \in {"evaluating", "rereading"} => seen'[p] <= Latest,
           to \in Drafting => Restores(draft'[p].value, draft'[p].rollback)
    PROVE  IInv'
<1> USE DEF IInv
<1>1. pc[p] = from /\ pc' = [pc EXCEPT ![p] = to]
  BY DEF Goto
<1>2. pc'[p] = to /\ \A q \in Proc : q # p => pc'[q] = pc[q]
  BY <1>1 DEF TypeOK
<1>3. /\ from \notin {"reporting", "inserted", "registering", "admitted"}
      /\ to \notin {"reporting", "inserted", "registering", "admitted"}
  BY DEF Parked, Drafting
<1>4. LockInv'
  BY <1>1, <1>2, <1>3 DEF LockInv, LocksHead, locks
<1>5. ReportInv'
  BY <1>2, <1>3 DEF ReportInv, rows
<1>6. OrderInv'
  BY <1>2, <1>3 DEF OrderInv, Reported, rows
<1>7. AdmitInv'
  BY <1>2, <1>3, EffectiveKept DEF AdmitInv, rows
<1>8. LookInv' /\ DraftInv' /\ WrittenInv'
  BY <1>2 DEF LookInv, DraftInv, Restores, WrittenInv, RollbackRestoresApplied,
     NoVersionOverwritten, Latest, Drafting, rows
<1> QED
  BY <1>4, <1>5, <1>6, <1>7, <1>8

LEMMA ReplyKeeps ==
    ASSUME TypeOK, IInv, NEW p \in Proc, NEW a, Reply(p, a), setting' = setting
    PROVE  IInv'
<1> USE DEF IInv
<1>1. rows' = rows /\ locks' = locks /\ pc' = pc /\ local' = local
      /\ acknowledged' = acknowledged
  BY DEF Reply
<1>2. LockInv' /\ ReportInv' /\ OrderInv'
  BY <1>1 DEF LockInv, LocksHead, ReportInv, OrderInv, Reported, rows, locks, local
<1>3. AdmitInv'
  BY <1>1, EffectiveKept DEF AdmitInv, rows, local
<1>4. LookInv' /\ DraftInv' /\ WrittenInv'
  BY <1>1 DEF LookInv, DraftInv, Restores, WrittenInv, RollbackRestoresApplied,
     NoVersionOverwritten, Latest, Drafting, rows, local
<1> QED
  BY <1>2, <1>3, <1>4

LEMMA DraftKeeps ==
    ASSUME TypeOK, IInv, NEW p \in Proc, NEW n, NEW v, NEW to \in Drafting,
           Draft(p, n, v, to), setting' = setting
    PROVE  IInv'
<1>1. draft'[p].rollback = 0
  BY DEF Draft, TypeOK
<1>2. Restores(draft'[p].value, draft'[p].rollback)
  BY <1>1 DEF Restores
<1>3. \A q \in Proc : q # p => /\ seen'[q] = seen[q] /\ listed'[q] = listed[q]
                               /\ draft'[q] = draft[q]
  BY DEF Draft, TypeOK
<1>4. "idle" \in Parked /\ to \notin {"selecting", "evaluating", "rereading"}
  BY DEF Parked, Drafting
<1> QED
  BY <1>2, <1>3, <1>4, MoveKeeps DEF Draft

LEMMA SelectRollbackKeeps ==
    ASSUME TypeOK, IInv, NEW p \in Proc, NEW n \in Nat, SelectRollback(p, n),
           setting' = setting
    PROVE  IInv'
<1>1. listed'[p] = Latest /\ Latest \in Nat
  BY VersionsSeq DEF SelectRollback, TypeOK
<1>2. \A q \in Proc : q # p => /\ seen'[q] = seen[q] /\ listed'[q] = listed[q]
                               /\ draft'[q] = draft[q]
  BY DEF SelectRollback, TypeOK
<1>3. "idle" \in Parked /\ "selecting" \notin Drafting
  BY DEF Parked, Drafting
<1> QED
  BY <1>1, <1>2, <1>3, MoveKeeps DEF SelectRollback

LEMMA ReadTargetKeeps ==
    ASSUME TypeOK, IInv, NEW p \in Proc, ReadTarget(p), setting' = setting
    PROVE  IInv'
<1> DEFINE target == Newest(Acknowledgements(p))
<1>1. Restores(Restored(target), target)
  BY TargetFacts DEF ReadTarget, IInv
<1>2. draft'[p].value = Restored(target) /\ draft'[p].rollback = target
  BY DEF ReadTarget, TypeOK
<1>3. \A q \in Proc : q # p => /\ seen'[q] = seen[q] /\ listed'[q] = listed[q]
                               /\ draft'[q] = draft[q]
  BY DEF ReadTarget, TypeOK
<1> QED
  BY <1>1, <1>2, <1>3, MoveKeeps DEF ReadTarget, Drafting

-----------------------------------------------------------------------------
(***************************************************************************)
(* Steps that write a row or take the head.                                *)
(***************************************************************************)

\* A new version leaves the old ones in place.
LEMMA Appended ==
    ASSUME TypeOK, NEW v \in Version, versions' = Append(versions, v)
    PROVE  /\ Len(versions') = Len(versions) + 1
           /\ versions'[Len(versions) + 1] = v
           /\ \A n \in 1..Len(versions) : versions'[n] = versions[n]
BY VersionsSeq DEF TypeOK

LEMMA CreateKeeps ==
    ASSUME TypeOK, IInv, NEW p \in Proc, Create(p), setting' = setting
    PROVE  IInv'
<1> USE DEF IInv
<1> DEFINE v == [value |-> draft[p].value, rollback |-> draft[p].rollback,
                 expected |-> seen[p]]
           N == Len(versions)
<1>1. /\ Leave(p, "creating", "idle") \/ Leave(p, "setting", "confirming")
      /\ readers = {} /\ writer = {} /\ pc[p] \in Drafting /\ seen[p] = N
      /\ versions' = Append(versions, v)
      /\ reports' = reports /\ drawn' = drawn /\ acknowledged' = acknowledged
  BY DEF Create, HeadFree, Expected, Latest, Return, Leave, Goto, Drafting
<1>2. v \in Version
  BY <1>1 DEF TypeOK, Version
<1>3. /\ v.value = draft[p].value /\ v.rollback = draft[p].rollback /\ v.expected = N
      /\ v.rollback \in Nat
  BY <1>1 DEF TypeOK
<1>4. Restores(v.value, v.rollback)
  BY <1>1, <1>3 DEF DraftInv
<1> HIDE DEF v
<1>5. /\ Len(versions') = N + 1 /\ versions'[N + 1] = v
      /\ \A n \in 1..N : versions'[n] = versions[n]
  BY <1>1, <1>2, Appended
<1>6. N \in Nat
  BY VersionsSeq
<1> HIDE DEF N
<1>7. LockInv'
  BY <1>1, LeaveLocks DEF Parked
<1>8. ReportInv'
  <2>1. \A n \in 1..N : n \in 1..Len(versions')
    BY <1>5, <1>6
  <2> QED
    BY <1>1, <2>1, Others DEF ReportInv, N, Parked
<1>9. OrderInv'
  BY <1>1, Others DEF OrderInv, Reported, Parked
<1>10. AdmitInv'
  <2>1. \A q \in Proc : pc[q] \notin {"registering", "admitted"}
    BY <1>1 DEF LockInv
  <2> QED
    BY <1>1, <2>1, Others DEF AdmitInv, Parked
<1>13. LookInv'
  <2>1. ASSUME NEW q \in Proc, pc'[q] \in {"evaluating", "rereading"}
        PROVE  seen'[q] <= Latest'
    <3>1. seen'[q] = seen[q] /\ seen[q] <= N /\ seen[q] \in Nat
      BY <1>1, <2>1, Others DEF LookInv, Latest, N, TypeOK, Parked
    <3> QED
      BY <3>1, <1>5, <1>6 DEF Latest
  <2> QED
    BY <2>1 DEF LookInv
<1>11. DraftInv'
  <2>1. ASSUME NEW x, NEW t, Restores(x, t) PROVE Restores(x, t)'
    BY <2>1, <1>1, <1>5, <1>6 DEF Restores, N
  <2>2. ASSUME NEW q \in Proc, pc'[q] = "selecting" PROVE listed'[q] <= Latest'
    <3>1. listed'[q] = listed[q] /\ listed[q] <= N /\ listed[q] \in Nat
      BY <1>1, <2>2, Others DEF DraftInv, Latest, N, TypeOK, Parked
    <3> QED
      BY <3>1, <1>5, <1>6 DEF Latest
  <2>3. ASSUME NEW q \in Proc, pc'[q] \in Drafting
        PROVE  Restores(draft[q].value, draft[q].rollback)'
    <3>1. draft'[q] = draft[q] /\ Restores(draft[q].value, draft[q].rollback)
      BY <1>1, <2>3, Others DEF DraftInv, Drafting, Parked
    <3>2. ASSUME NEW d, Restores(d.value, d.rollback)
          PROVE  /\ d.rollback # 0 => d.rollback \in 1..Len(versions')
                 /\ d.rollback # 0 => d.value = versions'[d.rollback].value
                 /\ d.rollback # 0 =>
                      \E r \in reports' : r.version = d.rollback /\ r.status = "applied"
      BY <3>2, <1>1, <1>5, <1>6 DEF Restores, N
    <3> QED
      BY <3>1, <3>2 DEF Restores
  <2> QED
    BY <2>2, <2>3 DEF DraftInv, Restores
<1>12. WrittenInv'
  <2>1. ASSUME NEW n \in 1..(N + 1), versions'[n].rollback # 0
        PROVE  /\ versions'[n].rollback < n
               /\ versions'[n].value = versions'[versions'[n].rollback].value
               /\ \E r \in reports : r.version = versions'[n].rollback /\ r.status = "applied"
    <3>1. CASE n = N + 1
      <4>1. /\ v.rollback \in 1..N /\ v.value = versions[v.rollback].value
            /\ \E r \in reports : r.version = v.rollback /\ r.status = "applied"
        BY <1>4, <1>5, <2>1, <3>1 DEF Restores, N
      <4> QED
        BY <4>1, <3>1, <1>5, <1>6
    <3>2. CASE n # N + 1
      <4>1. n \in 1..N /\ versions'[n] = versions[n]
        BY <3>2, <1>5, <1>6
      <4>2. versions[n].rollback \in Nat
        BY <4>1, VersionsSeq DEF N
      <4>3. /\ versions[n].rollback < n
            /\ versions[n].value = versions[versions[n].rollback].value
            /\ \E r \in reports : r.version = versions[n].rollback /\ r.status = "applied"
        BY <2>1, <4>1 DEF WrittenInv, RollbackRestoresApplied, N
      <4>4. versions[n].rollback \in 1..N
        BY <2>1, <4>1, <4>2, <4>3, <1>6
      <4> QED
        BY <4>1, <4>3, <4>4, <1>5
    <3> QED
      BY <3>1, <3>2
  <2>2. RollbackRestoresApplied'
    BY <1>1, <1>5, <2>1 DEF RollbackRestoresApplied
  <2>3. NoVersionOverwritten'
    <3>1. \A n \in 1..(N + 1) : versions'[n].expected = n - 1
      BY <1>3, <1>5, <1>6 DEF WrittenInv, NoVersionOverwritten, N
    <3> QED
      BY <3>1, <1>5 DEF NoVersionOverwritten
  <2> QED
    BY <2>2, <2>3 DEF WrittenInv
<1> QED
  BY <1>7, <1>8, <1>9, <1>10, <1>11, <1>12, <1>13

LEMMA RecordReportKeeps ==
    ASSUME TypeOK, IInv, NEW p \in Proc, NEW n \in Nat, NEW status \in Status,
           RecordReport(p, n, status), setting' = setting
    PROVE  IInv'
<1> USE DEF IInv
<1>1. /\ pc[p] = "idle" /\ pc' = [pc EXCEPT ![p] = "reporting"]
      /\ n \in 1..Len(versions)
      /\ report' = [report EXCEPT ![p] = [id |-> 0, version |-> n, status |-> status]]
      /\ rows' = rows /\ readers' = readers /\ acknowledged' = acknowledged
      /\ seen' = seen /\ listed' = listed /\ draft' = draft
  BY DEF RecordReport, Goto, Known, Latest
<1>2. /\ pc'[p] = "reporting" /\ \A q \in Proc : q # p => pc'[q] = pc[q]
      /\ report'[p].version = n /\ report'[p].status = status
      /\ \A q \in Proc : q # p => report'[q] = report[q]
  BY <1>1 DEF TypeOK
<1>3. IF LocksHead(status) THEN HeadFree /\ writer' = writer \cup {p} ELSE writer' = writer
  BY DEF RecordReport
<1>4. LockInv'
  BY <1>1, <1>2, <1>3 DEF LockInv, HeadFree, LocksHead
<1>5. ReportInv'
  BY <1>1, <1>2 DEF ReportInv, rows
<1>6. OrderInv'
  BY <1>1, <1>2 DEF OrderInv, Reported, rows
<1>7. AdmitInv'
  BY <1>1, <1>2, EffectiveKept DEF AdmitInv, rows
<1>8. LookInv' /\ DraftInv' /\ WrittenInv'
  BY <1>1, <1>2 DEF LookInv, DraftInv, Restores, WrittenInv, RollbackRestoresApplied,
     NoVersionOverwritten, Latest, Drafting, rows
<1> QED
  BY <1>4, <1>5, <1>6, <1>7, <1>8

\* The id is drawn above all others.
LEMMA InsertReportKeeps ==
    ASSUME TypeOK, IInv, NEW p \in Proc, InsertReport(p), setting' = setting
    PROVE  IInv'
<1> USE DEF IInv
<1>1. /\ pc[p] = "reporting" /\ pc' = [pc EXCEPT ![p] = "inserted"]
      /\ drawn' = drawn + 1 /\ report' = [report EXCEPT ![p].id = drawn + 1]
      /\ versions' = versions /\ reports' = reports /\ locks' = locks
      /\ acknowledged' = acknowledged /\ seen' = seen /\ listed' = listed
      /\ draft' = draft
  BY DEF InsertReport, Goto
<1>2. /\ pc'[p] = "inserted" /\ \A q \in Proc : q # p => pc'[q] = pc[q]
      /\ report'[p].id = drawn + 1
      /\ report'[p].version = report[p].version /\ report'[p].status = report[p].status
      /\ \A q \in Proc : q # p => report'[q] = report[q]
  BY <1>1 DEF TypeOK, Report
<1>3. drawn \in Nat
  BY DEF TypeOK
<1>4. LockInv'
  BY <1>1, <1>2 DEF LockInv, LocksHead, locks
<1>5. ReportInv'
  BY <1>1, <1>2, <1>3 DEF ReportInv
<1>6. OrderInv'
  <2>1. \A r \in Reported("applied") : r.id < drawn + 1
    BY <1>3 DEF Reported, ReportInv
  <2> QED
    BY <1>1, <1>2, <2>1 DEF OrderInv, Reported
<1>7. AdmitInv'
  BY <1>1, <1>2, EffectiveKept DEF AdmitInv
<1>8. LookInv' /\ DraftInv' /\ WrittenInv'
  BY <1>1, <1>2 DEF LookInv, DraftInv, Restores, WrittenInv, RollbackRestoresApplied,
     NoVersionOverwritten, Latest, Drafting
<1> QED
  BY <1>4, <1>5, <1>6, <1>7, <1>8

\* Where a request holds the head shared, no applied report can commit.
LEMMA NoneAppliedUnderShare ==
    ASSUME TypeOK, LockInv, NEW p \in Proc, CommitReport(p), readers # {}
    PROVE  Reported("applied")' = Reported("applied")
<1>1. pc[p] = "inserted" /\ reports' = reports \cup {report[p]}
  BY DEF CommitReport, Return, Leave, Goto
<1>2. setting = "registration" /\ writer = {}
  BY DEF LockInv, TypeOK
<1>3. report[p].status # "applied"
  BY <1>1, <1>2 DEF LockInv, LocksHead
<1> QED
  BY <1>1, <1>3 DEF Reported

LEMMA CommitReportKeeps ==
    ASSUME TypeOK, IInv, NEW p \in Proc, CommitReport(p), setting' = setting
    PROVE  IInv'
<1> USE DEF IInv
<1>1. /\ Leave(p, "inserted", "idle") /\ pc[p] = "inserted"
      /\ reports' = reports \cup {report[p]}
      /\ acknowledged' =
           IF report[p].status = "applied" THEN report[p].version ELSE acknowledged
      /\ versions' = versions /\ drawn' = drawn
  BY DEF CommitReport, Return, Leave, Goto
<1>2. LockInv'
  BY <1>1, LeaveLocks DEF Parked, Return
<1>3. ReportInv'
  BY <1>1, Others DEF ReportInv, Parked
<1>4. OrderInv'
  <2> SUFFICES ASSUME setting = "registration"
               PROVE  /\ Reported("applied")' = {} => acknowledged' = 0
                      /\ \A r \in Reported("applied")' :
                            (\A q \in Reported("applied")' : q.id <= r.id) =>
                               acknowledged' = r.version
                      /\ \A q \in Proc : pc'[q] = "inserted" /\ report'[q].status = "applied" =>
                            \A r \in Reported("applied")' : r.id < report'[q].id
    BY DEF OrderInv, Reported
  <2>1. CASE report[p].status = "applied"
    <3>1. Reported("applied")' = Reported("applied") \cup {report[p]}
      BY <1>1, <2>1 DEF Reported
    <3>2. \A r \in Reported("applied") : r.id < report[p].id
      BY <1>1, <2>1 DEF OrderInv
    <3>3. report[p].id \in Nat /\ \A r \in Reported("applied") : r.id \in Nat
      BY DEF TypeOK, Report, Reported
    <3>4. p \in writer
      BY <1>1, <2>1 DEF LockInv, LocksHead
    <3>5. \A q \in Proc : ~(pc'[q] = "inserted" /\ report'[q].status = "applied")
      BY <1>1, <3>4, Others DEF LockInv, LocksHead, Parked
    <3>6. ASSUME NEW r \in Reported("applied")',
                 \A q \in Reported("applied")' : q.id <= r.id
          PROVE  acknowledged' = r.version
      <4>1. report[p].id <= r.id
        BY <3>1, <3>6
      <4>2. r = report[p]
        BY <4>1, <3>1, <3>2, <3>3
      <4> QED
        BY <4>2, <1>1, <2>1
    <3> QED
      BY <3>1, <3>5, <3>6
  <2>2. CASE report[p].status # "applied"
    <3>1. Reported("applied")' = Reported("applied") /\ acknowledged' = acknowledged
      BY <1>1, <2>2 DEF Reported
    <3> QED
      BY <1>1, <3>1, Others DEF OrderInv, Parked
  <2> QED
    BY <2>1, <2>2
<1>5. AdmitInv'
  <2>1. CASE readers = {}
    <3>1. \A q \in Proc : pc[q] \notin {"registering", "admitted"}
      BY <2>1 DEF LockInv
    <3> QED
      BY <1>1, <3>1, Others DEF AdmitInv, Parked
  <2>2. CASE readers # {}
    <3>1. Reported("applied")' = Reported("applied")
      BY <2>2, NoneAppliedUnderShare
    <3>2. Latest' = Latest /\ Effective(Latest)' = Effective(Latest)
      BY <1>1, <3>1 DEF Latest, Effective, RegistrationState, PublicCatalogState,
         PlatformFeeState, Decided, LastKnownGood
    <3> QED
      BY <1>1, <3>2, Others DEF AdmitInv, Parked
  <2> QED
    BY <2>1, <2>2
<1>6. LookInv' /\ DraftInv'
  BY <1>1, Others DEF LookInv, DraftInv, Restores, Latest, Drafting, Parked
<1>7. WrittenInv'
  BY <1>1 DEF WrittenInv, RollbackRestoresApplied, NoVersionOverwritten
<1> QED
  BY <1>2, <1>3, <1>4, <1>5, <1>6, <1>7

LEMMA RegisterTenantKeeps ==
    ASSUME TypeOK, IInv, NEW p \in Proc, RegisterTenant(p), setting' = setting
    PROVE  IInv'
<1> USE DEF IInv
<1>1. /\ pc[p] = "gated" /\ pc' = [pc EXCEPT ![p] = "registering"]
      /\ setting = "registration"
      /\ seen' = [seen EXCEPT ![p] = Latest]
      /\ writer = {} /\ writer' = writer /\ readers' = readers \cup {p}
      /\ rows' = rows /\ report' = report /\ listed' = listed /\ draft' = draft
      /\ acknowledged' = acknowledged
  BY DEF RegisterTenant, ShareHead, Goto
<1>2. /\ pc'[p] = "registering" /\ \A q \in Proc : q # p => pc'[q] = pc[q]
      /\ seen'[p] = Latest /\ \A q \in Proc : q # p => seen'[q] = seen[q]
  BY <1>1 DEF TypeOK
<1>3. LockInv'
  BY <1>1, <1>2 DEF LockInv, LocksHead
<1>4. ReportInv' /\ OrderInv'
  BY <1>1, <1>2 DEF ReportInv, OrderInv, Reported, rows
<1>5. AdmitInv'
  BY <1>1, <1>2, EffectiveKept DEF AdmitInv, rows
<1>6. LookInv' /\ DraftInv' /\ WrittenInv'
  BY <1>1, <1>2 DEF LookInv, DraftInv, Restores, WrittenInv, RollbackRestoresApplied,
     NoVersionOverwritten, Latest, Drafting, rows
<1> QED
  BY <1>3, <1>4, <1>5, <1>6

LEMMA CheckOpenKeeps ==
    ASSUME TypeOK, IInv, NEW p \in Proc, CheckOpen(p), setting' = setting
    PROVE  IInv'
<1> USE DEF IInv
<1>1. /\ pc[p] = "registering" /\ pc' = [pc EXCEPT ![p] = "admitted"]
      /\ Effective(seen[p]) \in Admitting
      /\ rows' = rows /\ locks' = locks /\ local' = local /\ acknowledged' = acknowledged
  BY DEF CheckOpen, Goto
<1>2. pc'[p] = "admitted" /\ \A q \in Proc : q # p => pc'[q] = pc[q]
  BY <1>1 DEF TypeOK
<1>3. Effective(Latest) \in Admitting
  BY <1>1 DEF AdmitInv
<1>4. LockInv'
  BY <1>1, <1>2 DEF LockInv, LocksHead, locks, local
<1>5. ReportInv' /\ OrderInv'
  BY <1>1, <1>2 DEF ReportInv, OrderInv, Reported, rows, local
<1>6. AdmitInv'
  BY <1>1, <1>2, <1>3, EffectiveKept DEF AdmitInv, rows, local
<1>7. LookInv' /\ DraftInv' /\ WrittenInv'
  BY <1>1, <1>2 DEF LookInv, DraftInv, Restores, WrittenInv, RollbackRestoresApplied,
     NoVersionOverwritten, Latest, Drafting, rows, local
<1> QED
  BY <1>4, <1>5, <1>6, <1>7

LEMMA ControlKeeps ==
    ASSUME TypeOK, IInv, NEW p \in Proc, Control(p), setting' = setting
    PROVE  IInv'
<1>1. CASE Refuse(p) \/ Browse(p) \/ UnknownVersion(p)
  BY <1>1, ReplyKeeps DEF Refuse, Browse, UnknownVersion
<1>2. ASSUME NEW n \in Nat, NEW v \in Value,
             CreateVersion(p, n, v) \/ SetRegistration(p, v) \/ SetCatalog(p, v) \/ SetFee(p, v)
      PROVE  IInv'
  BY <1>2, DraftKeeps DEF CreateVersion, SetRegistration, SetCatalog, SetFee, Drafting
<1>3. CASE RefuseTarget(p) \/ Conflict(p)
  BY <1>3, ReturnKeeps DEF RefuseTarget, Conflict
<1>4. /\ 0..MaxVersions \subseteq Nat /\ 1..MaxVersions \subseteq Nat /\ 0 \in Nat
  BY ControlAssumption
<1>5. CASE \/ \E n \in 0..MaxVersions, v \in Value : CreateVersion(p, n, v)
           \/ \E v \in Value : SetRegistration(p, v) \/ SetCatalog(p, v) \/ SetFee(p, v)
  BY <1>2, <1>4, <1>5
<1> QED
  BY <1>1, <1>3, <1>4, <1>5, SelectRollbackKeeps, ReadTargetKeeps, CreateKeeps,
     RecordReportKeeps, InsertReportKeeps, CommitReportKeeps DEF Control

LEMMA PolicyKeeps ==
    ASSUME TypeOK, IInv, NEW p \in Proc, Policy(p) \/ Abort(p), setting' = setting
    PROVE  IInv'
<1>1. CASE Gate(p)
  <2>1. \A q \in Proc : q # p => seen'[q] = seen[q]
    BY <1>1 DEF Gate, TypeOK
  <2>2. "idle" \in Parked /\ "gating" \notin Drafting
    BY DEF Parked, Drafting
  <2> QED
    BY <1>1, <2>1, <2>2, MoveKeeps DEF Gate
<1>2. CASE GateOpen(p)
  BY <1>2, LeaveKeeps DEF GateOpen, Parked, rows
<1>3. CASE GateClosed(p) \/ RegistrationClosed(p) \/ Answer(p) \/ Abort(p)
  BY <1>3, ReturnKeeps DEF GateClosed, RegistrationClosed, Answer, Abort
<1>4. CASE CommitRegistration(p)
  BY <1>4, LeaveKeeps DEF CommitRegistration, Return, Parked
<1>5. CASE Evaluate(p)
  <2>1. PICK from \in {"idle", "confirming"}, to \in {"evaluating", "rereading"} :
          Goto(p, from, to)
    BY <1>5 DEF Evaluate
  <2>2. /\ from \in Parked /\ to \notin Drafting /\ to # "selecting"
        /\ seen'[p] = Latest /\ Latest \in Nat
        /\ \A q \in Proc : q # p => seen'[q] = seen[q]
    BY <1>5, VersionsSeq DEF Evaluate, TypeOK, Parked, Drafting
  <2> QED
    BY <1>5, <2>1, <2>2, MoveKeeps DEF Evaluate
<1> QED
  BY <1>1, <1>2, <1>3, <1>4, <1>5, RegisterTenantKeeps, CheckOpenKeeps DEF Policy

LEMMA IInvStep == TypeOK /\ IInv /\ [Next]_vars => IInv'
<1> SUFFICES ASSUME TypeOK, IInv, [Next]_vars PROVE IInv'
  OBVIOUS
<1>1. CASE UNCHANGED vars
  <2>1. rows' = rows /\ locks' = locks /\ local' = local /\ pc' = pc
        /\ setting' = setting /\ acknowledged' = acknowledged
    BY <1>1 DEF vars
  <2>2. LockInv' /\ ReportInv' /\ OrderInv'
    BY <2>1 DEF IInv, LockInv, ReportInv, OrderInv, Reported, LocksHead, rows, locks, local
  <2>3. AdmitInv'
    BY <2>1, EffectiveKept DEF IInv, AdmitInv, rows, local
  <2>4. LookInv' /\ DraftInv' /\ WrittenInv'
    BY <2>1 DEF IInv, LookInv, DraftInv, WrittenInv, Restores, RollbackRestoresApplied,
       NoVersionOverwritten, Latest, Drafting, rows, local
  <2> QED
    BY <2>2, <2>3, <2>4 DEF IInv
<1>2. CASE Next
  BY <1>2, ControlKeeps, PolicyKeeps DEF Next
<1> QED
  BY <1>1, <1>2

LEMMA Invariance == Spec => [](TypeOK /\ IInv)
<1>1. TypeOK /\ IInv /\ [Next]_vars => TypeOK'
  BY TypeStep DEF IInv
<1> QED
  BY <1>1, TypeInit, IInvInit, IInvStep, PTL DEF Spec

-----------------------------------------------------------------------------
\* Every state is typed; in particular no version is written without a value.
THEOREM TypeCorrect == Spec => []TypeOK
BY Invariance, PTL

\* Rollback versions repeat a version that was reported applied.
THEOREM RollbackSafe == Spec => []RollbackRestoresApplied
<1>1. IInv => RollbackRestoresApplied
  BY DEF IInv, WrittenInv
<1> QED
  BY <1>1, Invariance, PTL

\* Racing authors never overwrite each other's versions.
THEOREM NoneOverwritten == Spec => []NoVersionOverwritten
<1>1. IInv => NoVersionOverwritten
  BY DEF IInv, WrittenInv
<1> QED
  BY <1>1, Invariance, PTL

\* The applied report of the registration policy that commits last decides.
THEOREM LastDecides == Spec => []LastAcknowledgementDecides
<1>1. TypeOK /\ IInv => LastAcknowledgementDecides
  <2> SUFFICES ASSUME TypeOK, IInv, setting = "registration" PROVE LastKnownGood = acknowledged
    BY DEF LastAcknowledgementDecides
  <2> USE DEF IInv
  <2>1. CASE Reported("applied") = {}
    BY <2>1, LastKnownGoodRange DEF OrderInv
  <2>2. CASE Reported("applied") # {}
    <3>1. Reported("applied") \subseteq reports
      BY DEF Reported
    <3>2. PICK r \in Reported("applied") :
            /\ LastKnownGood = r.version
            /\ \A q \in Reported("applied") : q.id <= r.id
      BY <2>2, <3>1, NewestVersionExists DEF LastKnownGood
    <3> QED
      BY <3>2 DEF OrderInv
  <2> QED
    BY <2>1, <2>2
<1> QED
  BY <1>1, Invariance, PTL

-----------------------------------------------------------------------------
(***************************************************************************)
(* The detailed steps implement the atomic register.                       *)
(***************************************************************************)

Log == [n \in 1..Len(versions) |-> versions[n].value]

Looking == {"evaluating", "rereading"}

Looked == [p \in Proc |->
             IF pc[p] \in {"evaluating", "rereading"} /\ seen[p] = 0
             THEN Baseline[setting] ELSE NoValue]

ToldBy == [p \in Proc |-> answer[p].value]

LEMMA LogSeq ==
    ASSUME TypeOK
    PROVE  /\ Log \in Seq(Value) /\ Len(Log) = Len(versions)
           /\ \A n \in 1..Len(versions) : Log[n] = versions[n].value
           /\ Log = <<>> <=> Latest = 0
<1>1. Len(versions) \in Nat /\ \A n \in 1..Len(versions) : versions[n].value \in Value
  BY VersionsSeq
<1>2. Log \in [1..Len(versions) -> Value]
  BY <1>1 DEF Log
<1>3. Log \in Seq(Value) /\ Len(Log) = Len(versions)
  BY <1>1, <1>2
<1>4. Log = <<>> <=> Len(Log) = 0
  BY <1>3, EmptySeq
<1> QED
  BY <1>3, <1>4 DEF Log, Latest

\* The value in force is the one a reader of the current head finds.
LEMMA InForceEffective ==
    ASSUME TypeOK, ReportInv
    PROVE  Promise!InForce = Effective(Latest)
<1>1. Promise!InForce =
        IF Log = <<>> THEN Baseline[setting]
        ELSE IF LastKnownGood = 0 THEN Unapplied[setting] ELSE Log[LastKnownGood]
  BY DEF Promise!InForce, Log
<1> QED
  BY <1>1, LogSeq, LastKnownGoodRange, EffectiveByPolicy DEF Decided

\* What has been looked up changes only where a request evaluates.
LEMMA LookedKept ==
    ASSUME TypeOK, NEW p \in Proc, setting' = setting,
           \A q \in Proc : q # p => pc'[q] = pc[q] /\ seen'[q] = seen[q],
           pc[p] \notin Looking, pc'[p] \notin Looking
    PROVE  Looked' = Looked /\ Looked[p] = NoValue
BY DEF Looked, Looking

LEMMA LookedMoved ==
    ASSUME TypeOK, NEW p \in Proc, setting' = setting,
           \A q \in Proc : q # p => pc'[q] = pc[q] /\ seen'[q] = seen[q]
    PROVE  Looked' = [Looked EXCEPT ![p] =
             IF pc'[p] \in Looking /\ seen'[p] = 0 THEN Baseline[setting] ELSE NoValue]
BY DEF Looked, Looking

\* What the last answers told, after an answer.
LEMMA ToldAfter ==
    ASSUME TypeOK, NEW p \in Proc, NEW a, answer' = [answer EXCEPT ![p] = a]
    PROVE  ToldBy' = [ToldBy EXCEPT ![p] = a.value]
BY DEF ToldBy, TypeOK

\* Steps that leave the log, the reports and the registrations alone and answer nothing
\* that tells a value.
Silent(p) ==
    /\ versions' = versions /\ reports' = reports /\ registered' = registered
    /\ setting' = setting
    /\ \A q \in Proc : q # p => pc'[q] = pc[q] /\ seen'[q] = seen[q]
    /\ pc[p] \notin Looking /\ pc'[p] \notin Looking
    /\ answer' = answer \/ \E a : a.value = NoValue /\ answer' = [answer EXCEPT ![p] = a]

LEMMA SilentStep ==
    ASSUME TypeOK, NEW p \in Proc, Silent(p)
    PROVE  [Promise!Next]_(Promise!vars)
<1>1. Log' = Log /\ LastKnownGood' = LastKnownGood
  BY DEF Silent, Log, LastKnownGood, Reported
<1>2. Looked' = Looked /\ Looked[p] = NoValue
  BY LookedKept DEF Silent
<1>3. Looked' = [Looked EXCEPT ![p] = NoValue]
  BY <1>2 DEF Looked
<1>4. CASE answer' = answer
  <2>1. ToldBy' = ToldBy
    BY <1>4 DEF ToldBy
  <2> QED
    BY <1>1, <1>2, <2>1 DEF Silent, Promise!vars, Log, Looked, ToldBy
<1>5. ASSUME NEW a, a.value = NoValue, answer' = [answer EXCEPT ![p] = a]
      PROVE  Promise!Forget(p)
  <2>1. ToldBy' = [ToldBy EXCEPT ![p] = NoValue]
    BY <1>5, ToldAfter
  <2> QED
    BY <1>1, <1>3, <2>1 DEF Silent, Promise!Forget, Log, Looked, ToldBy
<1> QED
  BY <1>4, <1>5 DEF Silent, Promise!Next

\* A return that tells no value.
LEMMA ReturnQuiet ==
    ASSUME TypeOK, NEW p \in Proc, NEW from, from \notin Looking, NEW n,
           Return(p, from, Code(n)), setting' = setting
    PROVE  /\ Looked' = Looked /\ Looked[p] = NoValue
           /\ ToldBy' = [ToldBy EXCEPT ![p] = NoValue]
<1>1. /\ \A q \in Proc : q # p => pc'[q] = pc[q] /\ seen'[q] = seen[q]
      /\ pc[p] = from /\ pc'[p] = "idle"
      /\ answer' = [answer EXCEPT ![p] = Code(n)]
  BY DEF Return, Leave, Goto, TypeOK
<1>2. Code(n).value = NoValue
  BY DEF Code
<1> QED
  BY <1>1, <1>2, LookedKept, ToldAfter DEF Looking

LEMMA CreateQuiet ==
    ASSUME TypeOK, NEW p \in Proc, Create(p), setting' = setting
    PROVE  /\ Looked' = Looked
           /\ ToldBy' = ToldBy \/ ToldBy' = [ToldBy EXCEPT ![p] = NoValue]
<1>1. CASE Return(p, "creating", Code(CreateVersionStatus.success))
  BY <1>1, ReturnQuiet DEF Looking
<1>2. CASE Leave(p, "setting", "confirming") /\ answer' = answer
  <2>1. /\ \A q \in Proc : q # p => pc'[q] = pc[q] /\ seen'[q] = seen[q]
        /\ pc[p] = "setting" /\ pc'[p] = "confirming"
    BY <1>2 DEF Leave, Goto, TypeOK
  <2> QED
    BY <1>2, <2>1, LookedKept DEF Looking, ToldBy
<1> QED
  BY <1>1, <1>2 DEF Create

LEMMA DesireStep ==
    ASSUME TypeOK, TypeOK', NEW p \in Proc, Create(p), setting' = setting
    PROVE  Promise!Desire
<1> DEFINE v == [value |-> draft[p].value, rollback |-> draft[p].rollback,
                 expected |-> seen[p]]
<1>1. /\ pc[p] \in Drafting /\ versions' = Append(versions, v)
      /\ reports' = reports /\ registered' = registered
  BY DEF Create, Return, Leave, Goto, Drafting
<1>2. v \in Version /\ v.value \in Value
  BY <1>1 DEF TypeOK, Version
<1> HIDE DEF v
<1>3. /\ Len(versions') = Len(versions) + 1 /\ versions'[Len(versions) + 1] = v
      /\ \A n \in 1..Len(versions) : versions'[n] = versions[n]
  BY <1>1, <1>2, Appended
<1>4. /\ Log' \in Seq(Value) /\ Len(Log') = Len(versions')
      /\ \A n \in 1..Len(versions') : Log'[n] = versions'[n].value
  <2>1. Len(versions') \in Nat /\ \A n \in 1..Len(versions') : versions'[n].value \in Value
    <3>1. versions' \in Seq(Version)
      BY DEF TypeOK
    <3>2. \A n \in 1..Len(versions') : versions'[n] \in Version
      BY <3>1, ElementOfSeq
    <3> QED
      BY <3>1, <3>2, LenProperties DEF Version
  <2>2. Log' \in [1..Len(versions') -> Value]
    BY <2>1 DEF Log
  <2> QED
    BY <2>1, <2>2 DEF Log
<1>5. Append(Log, v.value) \in Seq(Value) /\ Len(Append(Log, v.value)) = Len(versions) + 1
  BY <1>2, LogSeq
<1>6. \A n \in 1..Len(Log') : Log'[n] = Append(Log, v.value)[n]
  BY <1>2, <1>3, <1>4, LogSeq, VersionsSeq
<1>7. Log' = Append(Log, v.value)
  BY <1>3, <1>4, <1>5, <1>6, SeqEqual
<1>8. LastKnownGood' = LastKnownGood
  BY <1>1 DEF LastKnownGood, Reported
<1>9. Looked' = Looked /\ (ToldBy' = ToldBy \/ ToldBy' = [ToldBy EXCEPT ![p] = NoValue])
  BY CreateQuiet
<1> QED
  BY <1>1, <1>2, <1>7, <1>8, <1>9 DEF Promise!Desire, Promise!Quietly, Log, Looked, ToldBy

LEMMA ApplyStep ==
    ASSUME TypeOK, TypeOK', IInv, IInv', NEW p \in Proc, CommitReport(p),
           setting' = setting
    PROVE  [Promise!Next]_(Promise!vars)
<1>1. versions' = versions /\ registered' = registered
  BY DEF CommitReport
<1>2. Log' = Log
  BY <1>1 DEF Log
<1>3. LastKnownGood' \in 0..Len(versions')
  <2>1. \/ Reported("applied")' = {} /\ LastKnownGood' = 0
        \/ \E r \in Reported("applied")' : LastKnownGood' = r.version
    <3>1. drawn' \in Nat /\ \A r \in Reported("applied")' : r.id \in 0..drawn'
      BY DEF TypeOK, IInv, ReportInv, Reported
    <3>2. CASE Reported("applied")' = {}
      BY <3>2 DEF LastKnownGood, Newest
    <3>3. CASE Reported("applied")' # {}
      <4>1. \E r \in Reported("applied")' : Newest(Reported("applied")') = r.version
        BY <3>1, <3>3, NewestReport
      <4> QED
        BY <4>1 DEF LastKnownGood, Newest
    <3> QED
      BY <3>2, <3>3
  <2>2. \A r \in Reported("applied")' : r.version \in 1..Len(versions')
    BY DEF IInv, ReportInv, Reported
  <2> QED
    BY <2>1, <2>2, <1>1, VersionsSeq
<1>6. Looked' = Looked /\ Looked[p] = NoValue /\ ToldBy' = [ToldBy EXCEPT ![p] = NoValue]
  <2>1. Return(p, "inserted", Code(RecordReportStatus.success))
    BY DEF CommitReport
  <2> QED
    BY <2>1, ReturnQuiet DEF Looking
<1>7. Looked' = [Looked EXCEPT ![p] = NoValue]
  BY <1>6 DEF Looked
<1>4. CASE LastKnownGood' = LastKnownGood
  <2>1. Promise!Forget(p)
    BY <1>1, <1>2, <1>4, <1>6, <1>7 DEF Promise!Forget, Log, Looked, ToldBy
  <2> QED
    BY <2>1 DEF Promise!Next
<1>5. CASE LastKnownGood' # LastKnownGood
  <2>1. LastKnownGood' # 0
    <3>1. SUFFICES ASSUME LastKnownGood # 0, LastKnownGood' = 0 PROVE FALSE
      BY <1>5
    <3>2. PICK r \in Reported("applied") : TRUE
      BY <3>1, LastKnownGoodRange DEF IInv
    <3>3. r \in Reported("applied")'
      BY <3>2 DEF CommitReport, Reported
    <3>4. drawn' \in Nat /\ \A q \in Reported("applied")' : q.id \in 0..drawn'
      BY DEF TypeOK, IInv, ReportInv, Reported
    <3>5. PICK q \in Reported("applied")' : Newest(Reported("applied")') = q.version
      BY <3>3, <3>4, NewestReport
    <3>6. q.version \in 1..Len(versions')
      BY DEF IInv, ReportInv, Reported
    <3>7. Newest(Reported("applied")') # 0
      BY <3>5, <3>6, <1>1, VersionsSeq
    <3> QED
      BY <3>1, <3>7 DEF LastKnownGood, Newest
  <2>2. LastKnownGood' \in 1..Len(Log)
    BY <1>1, <1>3, <2>1, LogSeq, VersionsSeq
  <2>3. Promise!Apply
    BY <1>1, <1>2, <1>6, <2>2 DEF Promise!Apply, Promise!Quietly, Log, Looked, ToldBy
  <2> QED
    BY <2>3 DEF Promise!Next
<1> QED
  BY <1>4, <1>5

LEMMA RegisterStep ==
    ASSUME TypeOK, IInv, NEW p \in Proc, CommitRegistration(p), setting' = setting
    PROVE  Promise!Register
<1>1. /\ pc[p] = "admitted" /\ registered' = registered + 1
      /\ versions' = versions /\ reports' = reports
  BY DEF CommitRegistration, Return, Leave, Goto
<1>2. Promise!InForce \in Admitting
  BY <1>1, InForceEffective DEF IInv, AdmitInv
<1>3. Log' = Log /\ LastKnownGood' = LastKnownGood
  BY <1>1 DEF Log, LastKnownGood, Reported
<1>4. Looked' = Looked /\ ToldBy' = [ToldBy EXCEPT ![p] = NoValue]
  BY ReturnQuiet DEF CommitRegistration, Looking
<1> QED
  BY <1>1, <1>2, <1>3, <1>4 DEF Promise!Register, Promise!Quietly, Log, Looked, ToldBy

LEMMA BaselineIsValue == TypeOK => Baseline[setting] # NoValue
<1> SUFFICES ASSUME TypeOK PROVE Baseline[setting] # NoValue
  OBVIOUS
<1>1. setting \in {"registration", "catalog", "fee"}
  BY ControlAssumption DEF TypeOK, Policies
<1> QED
  BY <1>1, ControlAssumption DEF Baseline, Policies, NoValue

\* Reading the head looks the value up if nothing was ever desired.
LEMMA EvaluateStep ==
    ASSUME TypeOK, IInv, NEW p \in Proc, Evaluate(p), setting' = setting
    PROVE  [Promise!Next]_(Promise!vars)
<1>1. /\ pc[p] \notin Looking /\ pc'[p] \in Looking /\ seen'[p] = Latest
      /\ \A q \in Proc : q # p => pc'[q] = pc[q] /\ seen'[q] = seen[q]
      /\ answer' = answer
      /\ versions' = versions /\ reports' = reports /\ registered' = registered
  BY VersionsSeq DEF Evaluate, Goto, TypeOK, Looking, rows
<1>2. /\ Log' = Log /\ LastKnownGood' = LastKnownGood /\ ToldBy' = ToldBy
  BY <1>1 DEF Log, LastKnownGood, Reported, ToldBy
<1>3. Looked' = [Looked EXCEPT ![p] = IF Latest = 0 THEN Baseline[setting] ELSE NoValue]
  BY <1>1, LookedMoved
<1>4. Looked[p] = NoValue
  BY <1>1 DEF Looked, Looking
<1>5. CASE Latest = 0
  <2>1. Promise!InForce = Baseline[setting]
    BY <1>5, InForceEffective, EffectiveByPolicy DEF IInv, Decided
  <2>2. Promise!Look(p)
    BY <1>1, <1>2, <1>3, <1>5, <2>1 DEF Promise!Look, Log, Looked, ToldBy
  <2> QED
    BY <2>2 DEF Promise!Next
<1>6. CASE Latest # 0
  <2>1. Looked' = Looked
    BY <1>3, <1>4, <1>6 DEF Looked
  <2> QED
    BY <1>1, <1>2, <2>1 DEF Promise!vars, Log, Looked, ToldBy
<1> QED
  BY <1>5, <1>6

\* A request that is told a value is told what it looked up, or what is in force now.
LEMMA AnswerStep ==
    ASSUME TypeOK, IInv, NEW p \in Proc, Answer(p), setting' = setting
    PROVE  Promise!Tell(p)
<1> DEFINE v == Effective(seen[p])
<1>1. /\ pc[p] \in Looking /\ pc'[p] = "idle"
      /\ \A q \in Proc : q # p => pc'[q] = pc[q] /\ seen'[q] = seen[q]
      /\ versions' = versions /\ reports' = reports /\ registered' = registered
      /\ answer' = [answer EXCEPT ![p] = Tell(v)] \/ answer' = [answer EXCEPT ![p] = Grpc(v)]
  BY DEF Answer, Return, Leave, Goto, TypeOK, Looking, rows
<1>2. Tell(v).value = v /\ Grpc(v).value = v
  <2>1. setting \in {"registration", "catalog", "fee"}
    BY ControlAssumption DEF TypeOK, Policies
  <2> HIDE DEF v
  <2>2. Tell(v).value = v
    BY DEF Tell
  <2> QED
    BY <2>1, <2>2 DEF Grpc, GetPublicCatalogPolicy, GetPlatformFeePolicy
<1>3. ToldBy' = [ToldBy EXCEPT ![p] = v]
  <2> HIDE DEF v
  <2> QED
    BY <1>1, <1>2, ToldAfter
<1>4. Looked' = [Looked EXCEPT ![p] = NoValue]
  BY <1>1, LookedMoved DEF Looking
<1>5. v = IF Looked[p] = NoValue THEN Promise!InForce ELSE Looked[p]
  <2>1. seen[p] \in Nat /\ Latest \in Nat /\ seen[p] <= Latest
    BY <1>1, VersionsSeq DEF TypeOK, IInv, LookInv, Looking
  <2>2. Baseline[setting] # NoValue
    BY BaselineIsValue
  <2>3. CASE seen[p] = 0
    BY <1>1, <2>2, <2>3, EffectiveByPolicy DEF Looked, Decided, Looking
  <2>4. CASE seen[p] # 0
    <3>1. Latest # 0 /\ Looked[p] = NoValue
      BY <2>1, <2>4 DEF Looked
    <3>2. v = Effective(Latest)
      BY <2>4, <3>1, EffectiveByPolicy DEF Decided
    <3> QED
      BY <3>1, <3>2, InForceEffective DEF IInv
  <2> QED
    BY <2>3, <2>4
<1>6. Log' = Log /\ LastKnownGood' = LastKnownGood
  BY <1>1 DEF Log, LastKnownGood, Reported
<1> HIDE DEF v
<1> QED
  BY <1>1, <1>3, <1>4, <1>5, <1>6 DEF Promise!Tell, Log, Looked, ToldBy

LEMMA AbortStep ==
    ASSUME TypeOK, NEW p \in Proc, Abort(p), setting' = setting
    PROVE  Promise!Forget(p)
<1>1. PICK a \in Failures(p) \cup {NoAnswer} : Return(p, pc[p], a)
  BY DEF Abort
<1>2. a.value = NoValue
  BY FailuresType
<1>3. /\ \A q \in Proc : q # p => pc'[q] = pc[q] /\ seen'[q] = seen[q]
      /\ pc'[p] = "idle" /\ answer' = [answer EXCEPT ![p] = a]
  BY <1>1 DEF Return, Leave, Goto, TypeOK
<1>4. versions' = versions /\ reports' = reports /\ registered' = registered
  BY DEF Abort, rows
<1>5. ToldBy' = [ToldBy EXCEPT ![p] = NoValue]
  BY <1>2, <1>3, ToldAfter
<1>6. Looked' = [Looked EXCEPT ![p] = NoValue]
  BY <1>3, LookedMoved DEF Looking
<1>7. Log' = Log /\ LastKnownGood' = LastKnownGood
  BY <1>4 DEF Log, LastKnownGood, Reported
<1> QED
  BY <1>4, <1>5, <1>6, <1>7 DEF Promise!Forget, Log, Looked, ToldBy

\* The other steps are silent.
LEMMA SilentControl ==
    ASSUME TypeOK, NEW p \in Proc, Control(p), ~Create(p), ~CommitReport(p),
           setting' = setting
    PROVE  Silent(p)
<1>1. \A n : Code(n).value = NoValue
  BY DEF Code
<1>2. ASSUME NEW n, Reply(p, Code(n)) PROVE Silent(p)
  BY <1>1, <1>2 DEF Silent, Reply, rows, local, Looking
<1>3. ASSUME NEW n, NEW v, NEW to \in Drafting, Draft(p, n, v, to) PROVE Silent(p)
  BY <1>3 DEF Silent, Draft, Goto, TypeOK, rows, Looking, Drafting
<1>4. ASSUME NEW from, from \notin Looking, NEW n, Return(p, from, Code(n)), rows' = rows
      PROVE  Silent(p)
  BY <1>1, <1>4 DEF Silent, Return, Leave, Goto, TypeOK, rows, Looking
<1>5. CASE Refuse(p) \/ Browse(p) \/ UnknownVersion(p)
  BY <1>2, <1>5 DEF Refuse, Browse, UnknownVersion
<1>6. ASSUME NEW n, NEW v,
             CreateVersion(p, n, v) \/ SetRegistration(p, v) \/ SetCatalog(p, v) \/ SetFee(p, v)
      PROVE  Silent(p)
  BY <1>3, <1>6 DEF CreateVersion, SetRegistration, SetCatalog, SetFee, Drafting
<1>7. CASE RefuseTarget(p) \/ Conflict(p)
  BY <1>4, <1>7 DEF RefuseTarget, Conflict, Looking
<1>8. CASE \/ \E n : SelectRollback(p, n)
           \/ ReadTarget(p) \/ InsertReport(p)
           \/ \E n, status : RecordReport(p, n, status)
  BY <1>8 DEF SelectRollback, ReadTarget, InsertReport, RecordReport, Goto, Silent, TypeOK,
     rows, Looking
<1> QED
  BY <1>5, <1>6, <1>7, <1>8 DEF Control

LEMMA SilentPolicy ==
    ASSUME TypeOK, NEW p \in Proc, Policy(p), ~CommitRegistration(p), ~Evaluate(p),
           ~Answer(p), setting' = setting
    PROVE  Silent(p)
<1>1. CASE Gate(p) \/ RegisterTenant(p) \/ CheckOpen(p)
  BY <1>1 DEF Gate, RegisterTenant, CheckOpen, Goto, Silent, TypeOK, rows, local, Looking
<1>2. CASE GateOpen(p)
  BY <1>2 DEF GateOpen, Leave, Goto, Silent, TypeOK, rows, Looking
<1>3. CASE GateClosed(p) \/ RegistrationClosed(p)
  <2>1. Closed.value = NoValue
    BY DEF Closed, Code
  <2> QED
    BY <1>3, <2>1 DEF GateClosed, RegistrationClosed, Return, Leave, Goto, Silent, TypeOK, rows,
       Looking
<1> QED
  BY <1>1, <1>2, <1>3 DEF Policy

\* Every behaviour of the control plane is one of the register, under the mapping above:
\* in particular a tenant registers only under a policy in force when it commits, and an
\* effective value that is told was in force while it was asked for.
THEOREM Implements == Spec => ImplementsRegister
<1>1. Init => Promise!Init
  <2> SUFFICES ASSUME Init PROVE Promise!Init
    OBVIOUS
  <2>1. Log = <<>>
    BY TypeInit, LogSeq, EmptySeq DEF Init, Latest
  <2>2. LastKnownGood = 0
    BY DEF Init, LastKnownGood, Reported, Newest
  <2>3. /\ Looked = [p \in Proc |-> NoValue]
        /\ ToldBy = [p \in Proc |-> NoValue]
    BY DEF Init, Looked, ToldBy, NoAnswer, Code
  <2> QED
    BY <2>1, <2>2, <2>3 DEF Init, Promise!Init, Log, Looked, ToldBy
<1>2. ASSUME TypeOK, TypeOK', IInv, IInv', [Next]_vars PROVE [Promise!Next]_(Promise!vars)
  <2>1. CASE UNCHANGED vars
    <3>1. /\ Log' = Log /\ LastKnownGood' = LastKnownGood /\ Looked' = Looked
          /\ ToldBy' = ToldBy /\ registered' = registered /\ setting' = setting
      BY <2>1 DEF vars, rows, local, Log, LastKnownGood, Reported, Looked, ToldBy
    <3> QED
      BY <3>1 DEF Promise!vars, Log, Looked, ToldBy
  <2>2. ASSUME setting' = setting, NEW p \in Proc, Control(p) \/ Policy(p) \/ Abort(p)
        PROVE  [Promise!Next]_(Promise!vars)
    <3>1. CASE Create(p)
      BY <1>2, <2>2, <3>1, DesireStep DEF Promise!Next
    <3>2. CASE CommitReport(p)
      BY <1>2, <2>2, <3>2, ApplyStep
    <3>3. CASE CommitRegistration(p)
      BY <1>2, <2>2, <3>3, RegisterStep DEF Promise!Next
    <3>4. CASE Evaluate(p)
      BY <1>2, <2>2, <3>4, EvaluateStep
    <3>5. CASE Answer(p)
      BY <1>2, <2>2, <3>5, AnswerStep DEF Promise!Next
    <3>6. CASE Abort(p)
      BY <1>2, <2>2, <3>6, AbortStep DEF Promise!Next
    <3> QED
      BY <1>2, <2>2, <3>1, <3>2, <3>3, <3>4, <3>5, <3>6, SilentControl, SilentPolicy,
         SilentStep
  <2> QED
    BY <1>2, <2>1, <2>2 DEF Next
<1>3. TypeOK /\ TypeOK' /\ IInv /\ IInv' /\ [Next]_vars => [Promise!Next]_(Promise!vars)
  BY <1>2
<1> QED
  BY <1>1, <1>3, Invariance, PTL DEF Spec, ImplementsRegister, Promise!Spec
=============================================================================
