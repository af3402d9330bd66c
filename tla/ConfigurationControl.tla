------------------------ MODULE ConfigurationControl ------------------------
(***************************************************************************)
(* The versioned control plane (KEL-96) for one platform policy, the three *)
(* ways of reading which value is in force (KEL-97, KEL-98, KEL-99), and   *)
(* the tenant registrations the registration policy gates.                 *)
(*                                                                         *)
(* A setting is an (application, environment, key); requests about one     *)
(* never read another's rows.  The head of a policy is seeded at version 0 *)
(* and written together with the versions, so it is their number.          *)
(* Statements run at READ COMMITTED: each sees what is committed when it   *)
(* starts.                                                                 *)
(***************************************************************************)
EXTENDS Naturals, Sequences

CONSTANTS
    Proc,           \* request goroutines
    Setting,        \* the policies to consider
    FeeRule,        \* platform fee rules within the bounds
    ZeroFee,        \* percent_bps=0,fixed_fee=0
    MaxVersions,    \* bound: versions
    MaxReports,     \* bound: report ids drawn from the sequence
    MaxRegistered   \* bound: registrations

NoValue == "none"

Policies == {"registration", "catalog", "fee"}

ASSUME ControlAssumption ==
    /\ Setting \subseteq Policies
    /\ ZeroFee \in FeeRule /\ {NoValue, "unknown"} \cap FeeRule = {}
    /\ MaxVersions \in Nat
    /\ MaxReports \in Nat
    /\ MaxRegistered \in Nat

VARIABLES
    setting,      \* which policy this is
    versions,     \* committed configuration_versions, by version number
    reports,      \* committed configuration_reports
    drawn,        \* the last report id drawn from the sequence
    registered,   \* committed registrations
    writer,       \* transactions that hold the head FOR UPDATE
    readers,      \* transactions that hold it FOR SHARE
    pc,           \* where each process is in its handler
    seen,         \* the head it read, or the expected_version it was given
    listed,       \* the head when it listed the history
    draft,        \* the version it is about to write
    report,       \* the report it is about to write
    answer,       \* the answer to its last request
    acknowledged  \* history: the version of the last applied report to commit

rows == <<versions, reports, drawn, registered>>
locks == <<writer, readers>>
local == <<seen, listed, draft, report>>
vars == <<setting, rows, locks, pc, local, answer, acknowledged>>

-----------------------------------------------------------------------------
\* The three policies.

\* A switch is the JSON boolean true or false.
Switch == {"open", "closed"}
Value == Switch \cup FeeRule

\* What validateConfigurationValue lets through for the type of the setting.
Values(s) == IF s = "fee" THEN FeeRule ELSE Switch

\* In force while the head is at version 0.
Baseline == [s \in Policies |-> IF s = "fee" THEN ZeroFee ELSE "open"]

\* In force while versions exist and none was reported applied.
Unapplied == [registration |-> "open", catalog |-> "closed", fee |-> "unknown"]

\* The values under which a tenant may register.
Admitting == {"open"}

Told == Value \cup {"unknown"}

-----------------------------------------------------------------------------

\* "failed" stands for every status but "applied".
Status == {"applied", "failed"}

\* rollback is the version selected as rollback target, 0 for none; expected, which is
\* not stored, the head its author had seen.
Version == [value: Value, rollback: Nat, expected: Nat]
Report == [id: Nat, version: Nat, status: Status]
NoReport == [id |-> 0, version |-> 0, status |-> "failed"]

Step == {"idle", "selecting", "creating", "setting", "reporting", "inserted",
         "gating", "gated", "registering", "admitted",
         "evaluating", "confirming", "rereading"}

\* An HTTP status or gRPC code, and the effective value the answer reports.
AnswerType == [code: Nat, value: Told \cup {NoValue}]

Drafting == {"creating", "setting"}

TypeOK ==
    /\ setting \in Setting
    /\ versions \in Seq(Version)
    /\ reports \in SUBSET Report
    /\ drawn \in Nat
    /\ registered \in Nat
    /\ writer \in SUBSET Proc /\ readers \in SUBSET Proc
    /\ pc \in [Proc -> Step]
    /\ seen \in [Proc -> Nat]
    /\ listed \in [Proc -> Nat]
    /\ draft \in [Proc -> [value: Value \cup {NoValue}, rollback: Nat]]
    /\ \A p \in Proc : pc[p] \in Drafting => draft[p].value \in Value
    /\ report \in [Proc -> Report]
    /\ answer \in [Proc -> AnswerType]
    /\ acknowledged \in Nat

NoDraft == [value |-> NoValue, rollback |-> 0]

Code(n) == [code |-> n, value |-> NoValue]
NoAnswer == Code(0)

Init ==
    /\ setting \in Setting
    /\ versions = <<>> /\ reports = {} /\ drawn = 0 /\ registered = 0
    /\ writer = {} /\ readers = {}
    /\ pc = [p \in Proc |-> "idle"]
    /\ seen = [p \in Proc |-> 0]
    /\ listed = [p \in Proc |-> 0]
    /\ draft = [p \in Proc |-> NoDraft]
    /\ report = [p \in Proc |-> NoReport]
    /\ answer = [p \in Proc |-> NoAnswer]
    /\ acknowledged = 0

-----------------------------------------------------------------------------
\* The statuses the handlers map errors to.  An error not in the table is answered 500.

CreateVersionStatus ==
    [success |-> 201, malformed |-> 400, operator |-> 403, invalid |-> 400, conflict |-> 409]

RecordReportStatus ==
    [success |-> 201, malformed |-> 400, operator |-> 403, invalid |-> 400, notFound |-> 404]

InventoryStatus == [success |-> 200, invalid |-> 400]

HistoryStatus == [success |-> 200, invalid |-> 400]

SetRegistrationStatus == [success |-> 200, operator |-> 403, conflict |-> 409]

SetCatalogStatus == [success |-> 200, operator |-> 403, conflict |-> 409]

SetFeeStatus ==
    [success |-> 200, operator |-> 403, malformed |-> 400, invalid |-> 400, conflict |-> 409]

SetStatus(s) ==
    CASE s = "registration" -> SetRegistrationStatus
      [] s = "catalog" -> SetCatalogStatus
      [] s = "fee" -> SetFeeStatus

RegisterTenantStatus ==
    [success |-> 201, malformed |-> 400, closed |-> 403, nameExists |-> 409, userExists |-> 409]

\* Refused before a row is read or written.
Refusals ==
    {table[error] : table \in {CreateVersionStatus, RecordReportStatus, SetFeeStatus},
                    error \in {"malformed", "operator", "invalid"}}
    \cup {InventoryStatus.invalid, HistoryStatus.invalid, SetRegistrationStatus.operator,
          SetCatalogStatus.operator, RegisterTenantStatus.malformed}

-----------------------------------------------------------------------------

Latest == Len(versions)

Reported(status) == {r \in reports : r.status = status}

\* Mutation: the newest version applied decides, not the newest report.
NewestVersion(rs) ==
    IF rs = {} THEN 0 ELSE (CHOOSE r \in rs : \A q \in rs : q.version <= r.version).version

\* ORDER BY id DESC LIMIT 1
Newest(rs) ==
    IF rs = {} THEN 0 ELSE (CHOOSE r \in rs : \A q \in rs : q.id <= r.id).version

LastKnownGood == Newest(Reported("applied"))

\* What a reader that found the head at n takes for the value in force.
Decided(n, baseline, unapplied) ==
    IF n = 0 THEN baseline
    ELSE IF LastKnownGood = 0 THEN unapplied
    ELSE versions[LastKnownGood].value

RegistrationState(n) == Decided(n, Baseline["registration"], Unapplied["registration"])

PublicCatalogState(n) == Decided(n, Baseline["catalog"], Unapplied["catalog"])

PlatformFeeState(n) == Decided(n, Baseline["fee"], Unapplied["fee"])

Effective(n) ==
    CASE setting = "registration" -> RegistrationState(n)
      [] setting = "catalog" -> PublicCatalogState(n)
      [] setting = "fee" -> PlatformFeeState(n)

HeadFree == writer = {} /\ readers = {}

Goto(p, from, to) ==
    /\ pc[p] = from
    /\ pc' = [pc EXCEPT ![p] = to]

\* A use case returns; its variables are gone and its transaction is over.
Leave(p, from, to) ==
    /\ Goto(p, from, to)
    /\ writer' = writer \ {p}
    /\ readers' = readers \ {p}
    /\ seen' = [seen EXCEPT ![p] = 0]
    /\ listed' = [listed EXCEPT ![p] = 0]
    /\ draft' = [draft EXCEPT ![p] = NoDraft]
    /\ report' = [report EXCEPT ![p] = NoReport]

\* The handler answers.
Return(p, from, a) ==
    /\ Leave(p, from, "idle")
    /\ answer' = [answer EXCEPT ![p] = a]

\* A request that changes nothing.
Reply(p, a) ==
    /\ pc[p] = "idle"
    /\ answer' = [answer EXCEPT ![p] = a]
    /\ UNCHANGED <<rows, locks, pc, local, acknowledged>>

\* No operator, a body or value that does not parse, a key that is unknown or sensitive.
Refuse(p) == \E n \in Refusals : Reply(p, Code(n))

\* The inventory and the history, which show rows as they are.
Browse(p) == Reply(p, Code(InventoryStatus.success)) \/ Reply(p, Code(HistoryStatus.success))

-----------------------------------------------------------------------------
\* Writing a version: a desired value with the head its author expects.

Draft(p, n, v, to) ==
    /\ Goto(p, "idle", to)
    /\ v \in Values(setting)
    /\ seen' = [seen EXCEPT ![p] = n]
    /\ draft' = [draft EXCEPT ![p] = [value |-> v, rollback |-> 0]]
    /\ UNCHANGED <<rows, locks, listed, report, answer, acknowledged>>

CreateVersion(p, n, v) == Draft(p, n, v, "creating")

\* The policy endpoints read the head themselves: in the inventory, with the value in
\* force, or, to correct a fee that was never applied, in the history.
SetRegistration(p, v) == setting = "registration" /\ Draft(p, Latest, v, "setting")

SetCatalog(p, v) == setting = "catalog" /\ Draft(p, Latest, v, "setting")

SetFee(p, v) == setting = "fee" /\ Draft(p, Latest, v, "setting")

\* A rollback lists the versions, then the reports of those versions, ...
SelectRollback(p, n) ==
    /\ Goto(p, "idle", "selecting")
    /\ seen' = [seen EXCEPT ![p] = n]
    /\ listed' = [listed EXCEPT ![p] = Latest]
    /\ UNCHANGED <<rows, locks, draft, report, answer, acknowledged>>

\* Mutation: any report makes its version a rollback target.
AnyReported(p) == {r \in reports : r.version <= listed[p]}

Acknowledgements(p) == {r \in Reported("applied") : r.version <= listed[p]}

\* Mutation: the request's own, empty value is kept.
Unrestored(target) == NoValue

Restored(target) == versions[target].value

\* ... and takes the value of the one applied last, which the request must name.
ReadTarget(p) ==
    LET target == Newest(Acknowledgements(p)) IN
    /\ Goto(p, "selecting", "creating")
    /\ target # 0
    /\ draft' = [draft EXCEPT ![p] =
         [value |-> Restored(target), rollback |-> target]]
    /\ UNCHANGED <<rows, locks, seen, listed, report, answer, acknowledged>>

\* Any other target is refused; the one applied last is always among the versions listed.
RefuseTarget(p) ==
    /\ Return(p, "selecting", Code(CreateVersionStatus.invalid))
    /\ UNCHANGED <<rows, acknowledged>>

\* Mutation: a version is only refused when its author is ahead.
NotAhead(n) == n <= Latest

Expected(n) == n = Latest

\* The head advances only from the version the author expects.  A policy endpoint then
\* goes on to report what is in force.
Create(p) ==
    /\ \/ Return(p, "creating", Code(CreateVersionStatus.success))
       \/ Leave(p, "setting", "confirming") /\ UNCHANGED answer
    /\ HeadFree
    /\ Latest < MaxVersions
    /\ Expected(seen[p])
    /\ versions' = Append(versions,
         [value |-> draft[p].value, rollback |-> draft[p].rollback, expected |-> seen[p]])
    /\ UNCHANGED <<reports, drawn, registered, acknowledged>>

\* ErrConfigurationVersionConflict
Conflict(p) ==
    /\ \/ Return(p, "creating", Code(CreateVersionStatus.conflict))
       \/ Return(p, "setting", Code(SetStatus(setting).conflict))
    /\ HeadFree
    /\ ~Expected(seen[p])
    /\ UNCHANGED <<rows, acknowledged>>

-----------------------------------------------------------------------------
\* Reporting on a version.

\* Mutation: reports of the registration policy do not lock its head either.
LocksNothing(status) == FALSE

\* Only applied reports of the registration policy, whose registrations share the head.
LocksHead(status) == setting = "registration" /\ status = "applied"

Known == 1..Latest

UnknownVersion(p) ==
    /\ Known # 1..MaxVersions
    /\ Reply(p, Code(RecordReportStatus.notFound))

RecordReport(p, n, status) ==
    /\ Goto(p, "idle", "reporting")
    /\ n \in Known
    /\ IF LocksHead(status)
       THEN HeadFree /\ writer' = writer \cup {p}
       ELSE UNCHANGED writer
    /\ report' = [report EXCEPT ![p] = [id |-> 0, version |-> n, status |-> status]]
    /\ UNCHANGED <<rows, readers, seen, listed, draft, answer, acknowledged>>

\* The insert draws the id; nobody else sees the row before the commit.
InsertReport(p) ==
    /\ Goto(p, "reporting", "inserted")
    /\ drawn < MaxReports
    /\ drawn' = drawn + 1
    /\ report' = [report EXCEPT ![p].id = drawn + 1]
    /\ UNCHANGED <<versions, reports, registered, locks, seen, listed, draft, answer,
                   acknowledged>>

CommitReport(p) ==
    /\ Return(p, "inserted", Code(RecordReportStatus.success))
    /\ reports' = reports \cup {report[p]}
    /\ acknowledged' =
         IF report[p].status = "applied" THEN report[p].version ELSE acknowledged
    /\ UNCHANGED <<versions, drawn, registered>>

-----------------------------------------------------------------------------
\* Registering a tenant under the policy.  It is evaluated first without a lock, ...

Closed == Code(RegisterTenantStatus.closed)

Gate(p) ==
    /\ setting = "registration"
    /\ Goto(p, "idle", "gating")
    /\ seen' = [seen EXCEPT ![p] = Latest]
    /\ UNCHANGED <<rows, locks, listed, draft, report, answer, acknowledged>>

GateOpen(p) ==
    /\ Leave(p, "gating", "gated")
    /\ Effective(seen[p]) \in Admitting
    /\ UNCHANGED <<rows, answer, acknowledged>>

\* ErrRegistrationClosed
GateClosed(p) ==
    /\ Return(p, "gating", Closed)
    /\ Effective(seen[p]) \notin Admitting
    /\ UNCHANGED <<rows, acknowledged>>

\* Mutation: the head is read without FOR SHARE.
ReadHead(p) == UNCHANGED locks

ShareHead(p) ==
    /\ writer = {}
    /\ readers' = readers \cup {p}
    /\ UNCHANGED writer

\* ... and again in the transaction that registers, which keeps it from changing.
RegisterTenant(p) ==
    /\ setting = "registration"
    /\ Goto(p, "gated", "registering")
    /\ ShareHead(p)
    /\ seen' = [seen EXCEPT ![p] = Latest]
    /\ UNCHANGED <<rows, listed, draft, report, answer, acknowledged>>

CheckOpen(p) ==
    /\ Goto(p, "registering", "admitted")
    /\ Effective(seen[p]) \in Admitting
    /\ UNCHANGED <<rows, locks, local, answer, acknowledged>>

\* ErrRegistrationClosed
RegistrationClosed(p) ==
    /\ Return(p, "registering", Closed)
    /\ Effective(seen[p]) \notin Admitting
    /\ UNCHANGED <<rows, acknowledged>>

\* The session is signed after the commit: when that fails, so does the answer.
CommitRegistration(p) ==
    /\ \/ Return(p, "admitted", Code(RegisterTenantStatus.success))
       \/ Return(p, "admitted", Code(500))
    /\ registered < MaxRegistered
    /\ registered' = registered + 1
    /\ UNCHANGED <<versions, reports, drawn, acknowledged>>

-----------------------------------------------------------------------------
\* Evaluating the policy takes two statements and no lock: the head, ...

Evaluate(p) ==
    /\ Goto(p, "idle", "evaluating") \/ Goto(p, "confirming", "rereading")
    /\ seen' = [seen EXCEPT ![p] = Latest]
    /\ UNCHANGED <<rows, locks, listed, draft, report, answer, acknowledged>>

\* ... and the version applied last.
Tell(v) == [code |-> 200, value |-> v]

GetPublicCatalogPolicy(v) == Tell(v)

\* FailedPrecondition: a rule that was never applied is no rule.
GetPlatformFeePolicy(v) ==
    IF v = Unapplied["fee"] THEN [code |-> 9, value |-> v] ELSE Tell(v)

\* The registration policy is not served over gRPC.
Grpc(v) ==
    CASE setting = "registration" -> Tell(v)
      [] setting = "catalog" -> GetPublicCatalogPolicy(v)
      [] setting = "fee" -> GetPlatformFeePolicy(v)

Answer(p) ==
    LET v == Effective(seen[p]) IN
    /\ \/ Return(p, "evaluating", Tell(v))
       \/ Return(p, "evaluating", Grpc(v))
       \/ Return(p, "rereading", Tell(v))
    /\ UNCHANGED <<rows, acknowledged>>

\* Of a failed statement the gates say that registration is closed, gRPC (14, Unavailable)
\* that the policy is unavailable, and the handlers 500: of a version or an endpoint's
\* change that was committed, too.  A name or an email that is taken is a conflict.
Failures(p) ==
    CASE pc[p] \in {"gating", "registering"} -> {Closed}
      [] pc[p] \in {"gated", "admitted"} ->
           {Code(RegisterTenantStatus.nameExists), Code(RegisterTenantStatus.userExists),
            Code(500)}
      [] pc[p] = "evaluating" -> {Code(500), Code(14)}
      [] OTHER -> {Code(500)}

\* Any handler can end early: an error, or a crash, which answers nothing.  An open
\* transaction rolls back.
Abort(p) ==
    /\ pc[p] # "idle"
    /\ \E a \in Failures(p) \cup {NoAnswer} : Return(p, pc[p], a)
    /\ UNCHANGED <<rows, acknowledged>>

Control(p) ==
    \/ Refuse(p) \/ Browse(p)
    \/ \E n \in 0..MaxVersions, v \in Value : CreateVersion(p, n, v)
    \/ \E v \in Value : SetRegistration(p, v) \/ SetCatalog(p, v) \/ SetFee(p, v)
    \/ \E n \in 0..MaxVersions : SelectRollback(p, n)
    \/ ReadTarget(p) \/ RefuseTarget(p) \/ Create(p) \/ Conflict(p)
    \/ UnknownVersion(p)
    \/ \E n \in 1..MaxVersions, status \in Status : RecordReport(p, n, status)
    \/ InsertReport(p) \/ CommitReport(p)

Policy(p) ==
    \/ Gate(p) \/ GateOpen(p) \/ GateClosed(p)
    \/ RegisterTenant(p) \/ CheckOpen(p) \/ RegistrationClosed(p) \/ CommitRegistration(p)
    \/ Evaluate(p) \/ Answer(p)

Next ==
    /\ \E p \in Proc : Control(p) \/ Policy(p) \/ Abort(p)
    /\ UNCHANGED setting

Spec == Init /\ [][Next]_vars

-----------------------------------------------------------------------------
\* Properties.

\* Desired values, acknowledgements, registrations and reads look atomic: a registration
\* commits under a policy in force at that very moment, an acknowledgement applies a
\* version that exists, and an effective value that is told was in force at some moment
\* between the request and its answer: a fee that was never applied is told by nobody, and
\* a catalog that was closed is not told open ("whichever lock wins determines the
\* ordering of close and registration", RegisterTenantTx; PublicCatalogState,
\* PlatformFeeState, RegistrationState).
Promise == INSTANCE PolicyRegister WITH
    Nothing <- NoValue,
    log <- [n \in 1..Len(versions) |-> versions[n].value],
    applied <- LastKnownGood,
    looked <- [p \in Proc |->
                 IF pc[p] \in {"evaluating", "rereading"} /\ seen[p] = 0
                 THEN Baseline[setting] ELSE NoValue],
    told <- [p \in Proc |-> answer[p].value]

ImplementsRegister == Promise!Spec

\* Of the registration policy, whose applied reports lock the head, the acknowledgement
\* that commits last decides, although ids are drawn before they commit
\* (RecordConfigurationReport).
LastAcknowledgementDecides ==
    setting = "registration" => LastKnownGood = acknowledged

\* A rollback version repeats the value of a version that was reported applied, however
\* reports and versions race its selection (CreateVersion).
RollbackRestoresApplied ==
    \A n \in 1..Len(versions) :
        LET target == versions[n].rollback IN
        target # 0 =>
            /\ target < n
            /\ versions[n].value = versions[target].value
            /\ \E r \in reports : r.version = target /\ r.status = "applied"

\* No version is written over one its author had not seen, however many authors race
\* ("a concurrent change surfaces as ErrConfigurationVersionConflict").
NoVersionOverwritten ==
    \A n \in 1..Len(versions) : versions[n].expected = n - 1

\* "Only the most recently acknowledged applied version is a rollback target."
RollbackTargetsLastKnownGood ==
    [][\A p \in Proc : Create(p) /\ draft[p].rollback # 0 =>
          draft[p].rollback = LastKnownGood]_vars

\* Evaluate "never returns (true, nil) unless the control plane positively reports an
\* applied, open value".
OpenOnlyWhenApplied ==
    \A p \in Proc :
        setting = "registration" /\ answer[p].value = "open" => LastKnownGood # 0
=============================================================================
