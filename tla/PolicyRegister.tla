--------------------------- MODULE PolicyRegister ---------------------------
(***************************************************************************)
(* What the configuration control plane promises of one platform policy: a *)
(* log of desired values, of which the operator applies one at a time; a   *)
(* registration only under the value in force; and readers who are told a  *)
(* value that was in force while they asked.                               *)
(***************************************************************************)
EXTENDS Naturals, Sequences

CONSTANTS
    Proc,        \* requests
    Setting,     \* the policies
    Value,       \* what an operator can ask for
    Baseline,    \* by policy, in force while nothing was ever asked for
    Unapplied,   \* by policy, in force while nothing asked for was applied
    Admitting,   \* the values in force that admit a registration
    Nothing      \* no value

VARIABLES
    setting,     \* which policy this is
    log,         \* every desired value, by version
    applied,     \* the version applied last, 0 if none
    registered,  \* registrations
    looked,      \* the value a request has looked up, if it has
    told         \* the value its last answer told, if it did

vars == <<setting, log, applied, registered, looked, told>>

InForce ==
    IF log = <<>> THEN Baseline[setting]
    ELSE IF applied = 0 THEN Unapplied[setting]
    ELSE log[applied]

Init ==
    /\ setting \in Setting
    /\ log = <<>> /\ applied = 0 /\ registered = 0
    /\ looked = [p \in Proc |-> Nothing]
    /\ told = [p \in Proc |-> Nothing]

\* A request may be answered without being told a value.
Quietly == told' = told \/ \E p \in Proc : told' = [told EXCEPT ![p] = Nothing]

Desire ==
    /\ \E v \in Value : log' = Append(log, v)
    /\ Quietly
    /\ UNCHANGED <<setting, applied, registered, looked>>

Apply ==
    /\ \E n \in 1..Len(log) : applied' = n
    /\ Quietly
    /\ UNCHANGED <<setting, log, registered, looked>>

Register ==
    /\ InForce \in Admitting
    /\ registered' = registered + 1
    /\ Quietly
    /\ UNCHANGED <<setting, log, applied, looked>>

Look(p) ==
    /\ looked' = [looked EXCEPT ![p] = InForce]
    /\ UNCHANGED <<setting, log, applied, registered, told>>

Tell(p) ==
    /\ told' = [told EXCEPT ![p] = IF looked[p] = Nothing THEN InForce ELSE looked[p]]
    /\ looked' = [looked EXCEPT ![p] = Nothing]
    /\ UNCHANGED <<setting, log, applied, registered>>

Forget(p) ==
    /\ looked' = [looked EXCEPT ![p] = Nothing]
    /\ told' = [told EXCEPT ![p] = Nothing]
    /\ UNCHANGED <<setting, log, applied, registered>>

Next == Desire \/ Apply \/ Register \/ \E p \in Proc : Look(p) \/ Tell(p) \/ Forget(p)

Spec == Init /\ [][Next]_vars
=============================================================================
