----------------------- MODULE ServerLifecycle_proofs -----------------------
(***************************************************************************)
(* Proofs that the process exits clean and reports what failed, for any    *)
(* number of requests in flight.  That it exits at all is liveness, which  *)
(* is model-checked; that its work ends and that it is never stuck is      *)
(* proved.                                                                 *)
(***************************************************************************)
EXTENDS ServerLifecycle, TLAPS

-----------------------------------------------------------------------------
\* The inductive invariant.

\* Which results are still in a channel or yet to be sent: each goroutine sends one.
Ended(s) == IF serve[s] \in {"failed", "returned"} THEN 1 ELSE 0
Down(s) == IF stop[s] = "done" THEN 1 ELSE 0

CountInv ==
    /\ Ended("http") + Ended("grpc") + pending = Len(serveErrs) + 2
    /\ Down("http") + Down("grpc") + stopping = Len(shutdownErrs) + 2
    /\ main = "exited" => stopping = 0 /\ pending = 0

\* Nothing stops before the select.
SelectInv ==
    main = "selecting" =>
        /\ pending = 2 /\ stopping = 2 /\ ~failed /\ ~deadline
        /\ \A s \in Server : stop[s] = "none"

\* Where a shutdown goroutine is tells what became of its server.
StopInv ==
    \A s \in Server :
        /\ closed[s] <=> stop[s] \in {"draining", "forced", "done"}
        /\ stop[s] = "done" => inflight[s] = 0 \/ s \in cut \cap {"http"}
        /\ s \in cut => stop[s] \in {"forced", "done"} /\ deadline
        /\ stop[s] = "forced" => s \in cut

Some(q) == \E i \in 1..Len(q) : q[i]

\* An error is in a channel until main has it.
ErrorInv ==
    /\ \A s \in Server : serve[s] = "failed" => failed \/ Some(serveErrs)
    /\ \A s \in cut : stop[s] = "forced" \/ failed \/ Some(shutdownErrs)
    /\ cut = {} /\ (\A s \in Server : serve[s] # "failed")
         => ~failed /\ ~Some(serveErrs) /\ ~Some(shutdownErrs)

IInv == TypeOK /\ CountInv /\ SelectInv /\ StopInv /\ ErrorInv

-----------------------------------------------------------------------------
\* What sending and receiving do to a channel.

LEMMA SendLemma ==
    ASSUME NEW q \in Seq(BOOLEAN), NEW b \in BOOLEAN, Len(q) < 2
    PROVE  /\ q \o <<b>> \in Seq(BOOLEAN)
           /\ Len(q \o <<b>>) = Len(q) + 1
           /\ Some(q \o <<b>>) <=> Some(q) \/ b
<1>1. q \o <<b>> \in Seq(BOOLEAN) /\ Len(q \o <<b>>) = Len(q) + 1
    OBVIOUS
<1>2. \A i \in 1..Len(q) + 1 : (q \o <<b>>)[i] = IF i <= Len(q) THEN q[i] ELSE b
    OBVIOUS
<1>3. Len(q) \in Nat
    OBVIOUS
<1>4. Some(q \o <<b>>) => Some(q) \/ b
    <2>1. SUFFICES ASSUME NEW i \in 1..Len(q) + 1, (q \o <<b>>)[i]
                   PROVE  Some(q) \/ b
        BY <1>1 DEF Some
    <2>2. CASE i <= Len(q)
        <3>1. i \in 1..Len(q) /\ q[i]
            BY <1>2, <1>3, <2>1, <2>2
        <3>2. QED BY <3>1 DEF Some
    <2>3. CASE ~(i <= Len(q))
        BY <1>2, <2>1, <2>3
    <2>4. QED BY <2>2, <2>3
<1>5. Some(q) => Some(q \o <<b>>)
    <2>1. SUFFICES ASSUME NEW i \in 1..Len(q), q[i]
                   PROVE  Some(q \o <<b>>)
        BY DEF Some
    <2>2. i \in 1..Len(q) + 1 /\ (q \o <<b>>)[i]
        BY <1>2, <1>3, <2>1
    <2>3. QED BY <1>1, <2>2 DEF Some
<1>6. b => Some(q \o <<b>>)
    <2>1. Len(q) + 1 \in 1..Len(q) + 1 /\ (q \o <<b>>)[Len(q) + 1] = b
        BY <1>2, <1>3
    <2>2. QED BY <1>1, <2>1 DEF Some
<1>7. QED BY <1>1, <1>4, <1>5, <1>6

LEMMA ReceiveLemma ==
    ASSUME NEW q \in Seq(BOOLEAN), q # <<>>
    PROVE  /\ Head(q) \in BOOLEAN
           /\ Tail(q) \in Seq(BOOLEAN)
           /\ Len(q) \in Nat /\ Len(q) > 0
           /\ Len(Tail(q)) = Len(q) - 1
           /\ Some(q) <=> Head(q) \/ Some(Tail(q))
<1>1. Len(q) \in Nat /\ Len(q) > 0
    OBVIOUS
<1>2. Head(q) = q[1] /\ Head(q) \in BOOLEAN
    BY <1>1
<1>3. Tail(q) \in Seq(BOOLEAN) /\ Len(Tail(q)) = Len(q) - 1
    BY <1>1
<1>4. \A i \in 1..Len(q) - 1 : Tail(q)[i] = q[i + 1]
    BY <1>1
<1>5. Some(q) => Head(q) \/ Some(Tail(q))
    <2>1. SUFFICES ASSUME NEW i \in 1..Len(q), q[i]
                   PROVE  Head(q) \/ Some(Tail(q))
        BY DEF Some
    <2>2. CASE i = 1
        BY <1>2, <2>1, <2>2
    <2>3. CASE i # 1
        <3>1. i - 1 \in 1..Len(q) - 1 /\ (i - 1) + 1 = i
            BY <1>1, <2>3
        <3>2. Tail(q)[i - 1]
            BY <1>4, <2>1, <3>1
        <3>3. QED BY <1>3, <3>1, <3>2 DEF Some
    <2>4. QED BY <2>2, <2>3
<1>6. Some(Tail(q)) => Some(q)
    <2>1. SUFFICES ASSUME NEW i \in 1..Len(q) - 1, Tail(q)[i]
                   PROVE  Some(q)
        BY <1>3 DEF Some
    <2>2. i + 1 \in 1..Len(q) /\ q[i + 1]
        BY <1>1, <1>4, <2>1
    <2>3. QED BY <2>2 DEF Some
<1>7. Head(q) => Some(q)
    <2>1. 1 \in 1..Len(q)
        BY <1>1
    <2>2. QED BY <1>2, <2>1 DEF Some
<1>8. QED BY <1>1, <1>2, <1>3, <1>5, <1>6, <1>7

LEMMA EmptyLemma ==
    ASSUME NEW q \in Seq(BOOLEAN)
    PROVE  /\ Len(q) \in Nat
           /\ Len(q) = 0 <=> q = <<>>
           /\ Len(q) = 0 => ~Some(q)
BY DEF Some

-----------------------------------------------------------------------------
\* The invariant holds at first and is kept by every step.

LEMMA InitInvariant == Init => IInv
<1>1. SUFFICES ASSUME Init PROVE IInv
    OBVIOUS
<1>2. Len(serveErrs) = 0 /\ Len(shutdownErrs) = 0 /\ ~Some(serveErrs) /\ ~Some(shutdownErrs)
    BY <1>1 DEF Init, Some
<1>3. TypeOK
    <2>1. /\ serveErrs \in Seq(BOOLEAN) /\ Len(serveErrs) <= 2
          /\ shutdownErrs \in Seq(BOOLEAN) /\ Len(shutdownErrs) <= 2
        BY <1>1, <1>2 DEF Init
    <2>2. inflight \in [Server -> 0..MaxInflight]
        BY <1>1, LifecycleAssumption DEF Init
    <2>3. /\ signal \in BOOLEAN /\ deadline \in BOOLEAN /\ failed \in BOOLEAN
          /\ main \in {"selecting", "collecting", "exited"}
          /\ stopping = 2 /\ pending = 2
        BY <1>1, Zenon DEF Init
    <2>4. /\ stopping \in 0..2 /\ pending \in 0..2
          /\ serve \in [Server -> {"starting", "serving", "failed", "returned"}]
          /\ stop \in [Server -> {"none", "begun", "draining", "forced", "done"}]
          /\ closed \in [Server -> BOOLEAN]
          /\ cut \in SUBSET Server
        BY <1>1, <2>3 DEF Init
    <2>5. QED BY <2>1, <2>2, <2>3, <2>4 DEF TypeOK
<1>4. CountInv
    BY <1>1, <1>2 DEF Init, CountInv, Ended, Down, Server
<1>5. SelectInv /\ StopInv /\ ErrorInv
    BY <1>1, <1>2 DEF Init, SelectInv, StopInv, ErrorInv
<1>6. QED BY <1>3, <1>4, <1>5 DEF IInv

\* Requests, the signal and time.
LEMMA EnvironmentStep ==
    ASSUME IInv,
           \/ Signal \/ Deadline
           \/ \E s \in Server : Arrive(s) \/ Finish(s) \/ Serve(s) \/ CloseListener(s)
    PROVE  IInv'
<1>. USE DEF IInv, collector, channels
<1>1. CASE Signal
    BY <1>1 DEF Signal, TypeOK, CountInv, SelectInv, StopInv, ErrorInv, Ended, Down, Some
<1>2. CASE Deadline
    BY <1>2 DEF Deadline, TypeOK, CountInv, SelectInv, StopInv, ErrorInv, Ended, Down, Some
<1>3. ASSUME NEW s \in Server, Arrive(s) PROVE IInv'
    <2>1. TypeOK'
        BY <1>3, LifecycleAssumption DEF Arrive, TypeOK
    <2>2. CountInv' /\ SelectInv' /\ ErrorInv'
        BY <1>3 DEF Arrive, CountInv, SelectInv, ErrorInv, Ended, Down, Some
    <2>3. StopInv'
        BY <1>3 DEF Arrive, StopInv, TypeOK
    <2>4. QED BY <2>1, <2>2, <2>3
<1>4. ASSUME NEW s \in Server, Finish(s) PROVE IInv'
    <2>1. TypeOK'
        BY <1>4, LifecycleAssumption DEF Finish, TypeOK
    <2>2. CountInv' /\ SelectInv' /\ ErrorInv'
        BY <1>4 DEF Finish, CountInv, SelectInv, ErrorInv, Ended, Down, Some
    <2>3. StopInv'
        BY <1>4 DEF Finish, StopInv, TypeOK
    <2>4. QED BY <2>1, <2>2, <2>3
<1>5. ASSUME NEW s \in Server, Serve(s) PROVE IInv'
    <2>1. TypeOK'
        BY <1>5 DEF Serve, TypeOK
    <2>2. \A r \in Server : Ended(r)' = Ended(r) /\ (serve[r] = "failed" <=> serve'[r] = "failed")
        BY <1>5 DEF Serve, Ended, TypeOK
    <2>3. CountInv'
        BY <1>5, <2>2 DEF Serve, CountInv, Down, Server
    <2>4. SelectInv' /\ StopInv'
        BY <1>5 DEF Serve, SelectInv, StopInv
    <2>5. ErrorInv'
        BY <1>5, <2>2 DEF Serve, ErrorInv, Some
    <2>6. QED BY <2>1, <2>3, <2>4, <2>5
<1>6. ASSUME NEW s \in Server, CloseListener(s) PROVE IInv'
    <2>1. TypeOK'
        BY <1>6 DEF CloseListener, TypeOK
    <2>2. \A r \in Server : Down(r)' = Down(r)
        BY <1>6 DEF CloseListener, Down, TypeOK
    <2>3. CountInv'
        BY <1>6, <2>2 DEF CloseListener, CountInv, Ended, Server
    <2>4. SelectInv'
        BY <1>6 DEF CloseListener, SelectInv
    <2>5. StopInv'
        BY <1>6 DEF CloseListener, StopInv, TypeOK
    <2>6. ErrorInv'
        BY <1>6 DEF CloseListener, ErrorInv, StopInv, Some, TypeOK
    <2>7. QED BY <2>1, <2>3, <2>4, <2>5, <2>6
<1>7. QED BY <1>1, <1>2, <1>3, <1>4, <1>5, <1>6

\* A Serve goroutine sends its one result.
LEMMA ServeResultStep ==
    ASSUME IInv, NEW s \in Server, ServeFails(s) \/ ServeReturns(s)
    PROVE  IInv'
<1>. USE DEF IInv, collector, channels
<1>1. PICK b \in BOOLEAN :
          /\ Len(serveErrs) < 2 /\ serveErrs' = serveErrs \o <<b>>
          /\ serve[s] \in {"starting", "serving"}
          /\ serve' = [serve EXCEPT ![s] = IF b THEN "failed" ELSE "returned"]
          /\ UNCHANGED <<signal, deadline, main, stopping, pending, failed, stop, closed,
                         inflight, shutdownErrs, cut>>
    BY DEF ServeFails, ServeReturns, Send, Failure, CleanReturn
<1>2. /\ serveErrs' \in Seq(BOOLEAN)
      /\ Len(serveErrs') = Len(serveErrs) + 1
      /\ Some(serveErrs') <=> Some(serveErrs) \/ b
    BY <1>1, SendLemma DEF TypeOK
<1>3. TypeOK'
    BY <1>1, <1>2, EmptyLemma DEF TypeOK
<1>4. /\ Ended(s) = 0 /\ Ended(s)' = 1
      /\ \A r \in Server : r # s => Ended(r)' = Ended(r)
    BY <1>1 DEF Ended, TypeOK
<1>5. CountInv'
    <2>1. Down("http")' = Down("http") /\ Down("grpc")' = Down("grpc")
        BY <1>1 DEF Down
    <2>2. Ended("http")' + Ended("grpc")' = Ended("http") + Ended("grpc") + 1
        BY <1>4 DEF Server, Ended
    <2>3. Len(serveErrs) \in Nat /\ Ended("http") \in Nat /\ Ended("grpc") \in Nat
        BY EmptyLemma DEF TypeOK, Ended
    <2>4. QED BY <1>1, <1>2, <2>1, <2>2, <2>3 DEF CountInv, TypeOK
<1>6. SelectInv' /\ StopInv'
    BY <1>1 DEF SelectInv, StopInv
<1>7. ErrorInv'
    <2>1. Some(shutdownErrs)' <=> Some(shutdownErrs)
        BY <1>1 DEF Some
    <2>2. Some(serveErrs)' <=> Some(serveErrs) \/ b
        BY <1>2 DEF Some
    <2>3. QED BY <1>1, <2>1, <2>2 DEF ErrorInv, TypeOK
<1>8. QED BY <1>3, <1>5, <1>6, <1>7

\* The select receives a result or sees the signal, and starts both shutdowns.
LEMMA SelectStep ==
    ASSUME IInv, Select
    PROVE  IInv'
<1>. USE DEF IInv, collector, channels
<1>1. /\ stop' = [r \in Server |-> "begun"]
      /\ stop = [r \in Server |-> "none"]
      /\ cut = {}
      /\ shutdownErrs = <<>>
    <2>1. \A r \in Server : stop[r] = "none" /\ stopping = 2
        BY DEF Select, SelectInv
    <2>2. Down("http") = 0 /\ Down("grpc") = 0
        BY <2>1 DEF Down, Server
    <2>3. Len(shutdownErrs) = 0
        BY <2>1, <2>2, EmptyLemma DEF CountInv, TypeOK, Server
    <2>4. QED BY <2>1, <2>3, EmptyLemma DEF Select, StopInv, TypeOK
<1>2. /\ pending = 2 /\ ~failed /\ ~deadline
      /\ main' = "collecting"
      /\ UNCHANGED <<signal, deadline, stopping, serve, closed, inflight, shutdownErrs, cut>>
    BY DEF Select, SelectInv
<1>3. Down("http")' = Down("http") /\ Down("grpc")' = Down("grpc")
    BY <1>1 DEF Down, Server
<1>4. Ended("http")' = Ended("http") /\ Ended("grpc")' = Ended("grpc")
    BY <1>2 DEF Ended
<1>5. /\ failed' \in BOOLEAN
      /\ pending' \in 0..2
      /\ serveErrs' \in Seq(BOOLEAN)
      /\ Len(serveErrs') <= 2
      /\ Len(serveErrs') - pending' = Len(serveErrs) - pending
      /\ failed' \/ Some(serveErrs') <=> Some(serveErrs)
    <2>1. CASE signal /\ UNCHANGED <<pending, failed, serveErrs>>
        BY <1>2, <2>1 DEF TypeOK
    <2>2. CASE /\ serveErrs # <<>>
               /\ failed' = Head(serveErrs)
               /\ serveErrs' = Tail(serveErrs)
               /\ pending' = Received
        <3>1. /\ Head(serveErrs) \in BOOLEAN
              /\ Tail(serveErrs) \in Seq(BOOLEAN)
              /\ Len(serveErrs) \in Nat
              /\ Len(Tail(serveErrs)) = Len(serveErrs) - 1
              /\ Some(serveErrs) <=> Head(serveErrs) \/ Some(Tail(serveErrs))
            BY <2>2, ReceiveLemma DEF TypeOK
        <3>2. failed' \in BOOLEAN /\ serveErrs' \in Seq(BOOLEAN)
            BY <2>2, <3>1
        <3>3. failed' \/ Some(serveErrs') <=> Some(serveErrs)
            BY <2>2, <3>1, Zenon
        <3>4. /\ pending' \in 0..2
              /\ Len(serveErrs') <= 2
              /\ Len(serveErrs') - pending' = Len(serveErrs) - pending
            <4>1. /\ Len(serveErrs') = Len(serveErrs) - 1
                  /\ pending' = pending - 1 /\ pending = 2
                  /\ Len(serveErrs) \in Nat /\ Len(serveErrs) <= 2
                BY <1>2, <2>2, <3>1, Zenon DEF TypeOK, Received
            <4>2. QED BY ONLY <4>1
        <3>5. QED BY <3>2, <3>3, <3>4
    <2>3. QED BY <2>1, <2>2 DEF Select
<1>6. TypeOK'
    BY <1>1, <1>2, <1>5 DEF TypeOK
<1>7. CountInv'
    <2>1. Len(serveErrs) \in Nat /\ Len(serveErrs') \in Nat
          /\ Ended("http") \in Nat /\ Ended("grpc") \in Nat
        BY <1>5, EmptyLemma DEF TypeOK, Ended
    <2>2. QED BY <1>2, <1>3, <1>4, <1>5, <2>1 DEF CountInv, TypeOK
<1>8. SelectInv' /\ StopInv'
    BY <1>1, <1>2 DEF SelectInv, StopInv
<1>9. ErrorInv'
    <2>1. Some(shutdownErrs)' <=> Some(shutdownErrs)
        BY <1>2 DEF Some
    <2>2. Some(serveErrs)' <=> Some(serveErrs')
        BY DEF Some
    <2>3. QED BY <1>1, <1>2, <1>5, <2>1, <2>2 DEF ErrorInv
<1>10. QED BY <1>6, <1>7, <1>8, <1>9

\* Main receives a shutdown's result.
LEMMA StoppedStep ==
    ASSUME IInv, Stopped
    PROVE  IInv'
<1>. USE DEF IInv, collector, channels
<1>1. /\ main = "collecting" /\ stopping > 0 /\ shutdownErrs # <<>>
      /\ failed' = (failed \/ Head(shutdownErrs))
      /\ shutdownErrs' = Tail(shutdownErrs)
      /\ stopping' = stopping - 1
      /\ UNCHANGED <<signal, deadline, main, pending, serve, stop, closed, inflight,
                     serveErrs, cut>>
    BY DEF Stopped
<1>2. /\ Head(shutdownErrs) \in BOOLEAN
      /\ shutdownErrs' \in Seq(BOOLEAN)
      /\ Len(shutdownErrs) \in Nat
      /\ Len(shutdownErrs') = Len(shutdownErrs) - 1
      /\ Some(shutdownErrs) <=> Head(shutdownErrs) \/ Some(shutdownErrs')
    BY <1>1, ReceiveLemma DEF TypeOK
<1>3. TypeOK'
    <2>1. failed' \in BOOLEAN
        BY <1>1, <1>2 DEF TypeOK
    <2>2. stopping' \in 0..2 /\ Len(shutdownErrs') <= 2
        <3>1. /\ stopping \in 0..2 /\ stopping > 0 /\ stopping' = stopping - 1
              /\ Len(shutdownErrs) \in Nat /\ Len(shutdownErrs) <= 2
              /\ Len(shutdownErrs') = Len(shutdownErrs) - 1
            BY <1>1, <1>2, Zenon DEF TypeOK
        <3>2. QED BY ONLY <3>1
    <2>3. QED BY <1>1, <1>2, <2>1, <2>2 DEF TypeOK
<1>4. CountInv'
    <2>1. /\ Down("http")' = Down("http") /\ Down("grpc")' = Down("grpc")
          /\ Ended("http")' = Ended("http") /\ Ended("grpc")' = Ended("grpc")
        BY <1>1 DEF Down, Ended
    <2>2. Down("http") \in Nat /\ Down("grpc") \in Nat
        BY DEF Down
    <2>3. /\ main = "collecting" /\ main' = main
          /\ Len(serveErrs)' = Len(serveErrs) /\ pending' = pending
          /\ Len(shutdownErrs) \in Nat /\ Len(shutdownErrs') = Len(shutdownErrs) - 1
          /\ stopping \in 0..2 /\ stopping' = stopping - 1
        BY <1>1, <1>2, Zenon DEF TypeOK
    <2>4. QED BY <2>1, <2>2, <2>3 DEF CountInv
<1>5. SelectInv' /\ StopInv'
    BY <1>1 DEF SelectInv, StopInv
<1>6. ErrorInv'
    <2>1. /\ Some(shutdownErrs)' <=> Some(shutdownErrs')
          /\ Some(serveErrs)' <=> Some(serveErrs)
        BY <1>1 DEF Some
    <2>2. failed' \/ Some(shutdownErrs') <=> failed \/ Some(shutdownErrs)
        BY <1>1, <1>2, Zenon
    <2>3. failed => failed'
        BY <1>1, Zenon
    <2>4. QED BY <1>1, <2>1, <2>2, <2>3 DEF ErrorInv
<1>7. QED BY <1>3, <1>4, <1>5, <1>6

\* Main receives a Serve's result.
LEMMA ServedStep ==
    ASSUME IInv, Served
    PROVE  IInv'
<1>. USE DEF IInv, collector, channels
<1>1. /\ main = "collecting" /\ pending > 0 /\ serveErrs # <<>>
      /\ failed' = (failed \/ Head(serveErrs))
      /\ serveErrs' = Tail(serveErrs)
      /\ pending' = pending - 1
      /\ UNCHANGED <<signal, deadline, main, stopping, serve, stop, closed, inflight,
                     shutdownErrs, cut>>
    BY DEF Served
<1>2. /\ Head(serveErrs) \in BOOLEAN
      /\ serveErrs' \in Seq(BOOLEAN)
      /\ Len(serveErrs) \in Nat
      /\ Len(serveErrs') = Len(serveErrs) - 1
      /\ Some(serveErrs) <=> Head(serveErrs) \/ Some(serveErrs')
    BY <1>1, ReceiveLemma DEF TypeOK
<1>3. TypeOK'
    <2>1. failed' \in BOOLEAN
        BY <1>1, <1>2 DEF TypeOK
    <2>2. pending' \in 0..2 /\ Len(serveErrs') <= 2
        <3>1. /\ pending \in 0..2 /\ pending > 0 /\ pending' = pending - 1
              /\ Len(serveErrs) \in Nat /\ Len(serveErrs) <= 2
              /\ Len(serveErrs') = Len(serveErrs) - 1
            BY <1>1, <1>2, Zenon DEF TypeOK
        <3>2. QED BY ONLY <3>1
    <2>3. QED BY <1>1, <1>2, <2>1, <2>2 DEF TypeOK
<1>4. CountInv'
    <2>1. /\ Down("http")' = Down("http") /\ Down("grpc")' = Down("grpc")
          /\ Ended("http")' = Ended("http") /\ Ended("grpc")' = Ended("grpc")
        BY <1>1 DEF Down, Ended
    <2>2. Ended("http") \in Nat /\ Ended("grpc") \in Nat
        BY DEF Ended
    <2>3. /\ main = "collecting" /\ main' = main
          /\ Len(shutdownErrs)' = Len(shutdownErrs) /\ stopping' = stopping
          /\ Len(serveErrs) \in Nat /\ Len(serveErrs') = Len(serveErrs) - 1
          /\ pending \in 0..2 /\ pending' = pending - 1
        BY <1>1, <1>2, Zenon DEF TypeOK
    <2>4. QED BY <2>1, <2>2, <2>3 DEF CountInv
<1>5. SelectInv' /\ StopInv'
    BY <1>1 DEF SelectInv, StopInv
<1>6. ErrorInv'
    <2>1. /\ Some(serveErrs)' <=> Some(serveErrs')
          /\ Some(shutdownErrs)' <=> Some(shutdownErrs)
        BY <1>1 DEF Some
    <2>2. failed' \/ Some(serveErrs') <=> failed \/ Some(serveErrs)
        BY <1>1, <1>2, Zenon
    <2>3. failed => failed'
        BY <1>1, Zenon
    <2>4. QED BY <1>1, <2>1, <2>2, <2>3 DEF ErrorInv
<1>7. QED BY <1>3, <1>4, <1>5, <1>6

LEMMA ExitStep ==
    ASSUME IInv, Exit
    PROVE  IInv'
<1>. USE DEF IInv, collector, channels
<1>1. TypeOK'
    BY DEF Exit, TypeOK
<1>2. CountInv' /\ SelectInv' /\ StopInv' /\ ErrorInv'
    BY DEF Exit, CountInv, SelectInv, StopInv, ErrorInv, Ended, Down, Some
<1>3. QED BY <1>1, <1>2

\* The timeout cancels what one server still works on.
LEMMA CancelStep ==
    ASSUME IInv, NEW s \in Server, Cancel(s)
    PROVE  IInv'
<1>. USE DEF IInv, collector, channels
<1>1. /\ stop[s] = "draining" /\ deadline
      /\ stop' = [stop EXCEPT ![s] = "forced"]
      /\ cut' = cut \cup {s}
      /\ UNCHANGED <<signal, deadline, main, stopping, pending, failed, serve, closed,
                     inflight, serveErrs, shutdownErrs>>
    BY DEF Cancel, Forced
<1>2. TypeOK'
    BY <1>1 DEF TypeOK
<1>3. CountInv'
    <2>1. \A r \in Server : stop[r] = "done" <=> stop'[r] = "done"
        BY <1>1 DEF TypeOK
    <2>2. Down("http")' = Down("http") /\ Down("grpc")' = Down("grpc")
        BY <2>1 DEF Down, Server
    <2>3. Ended("http")' = Ended("http") /\ Ended("grpc")' = Ended("grpc")
        BY <1>1 DEF Ended
    <2>4. QED BY <1>1, <2>2, <2>3 DEF CountInv
<1>4. SelectInv'
    BY <1>1 DEF SelectInv
<1>5. StopInv'
    BY <1>1 DEF StopInv, TypeOK
<1>6. ErrorInv'
    <2>1. /\ Some(serveErrs)' <=> Some(serveErrs)
          /\ Some(shutdownErrs)' <=> Some(shutdownErrs)
        BY <1>1 DEF Some
    <2>2. stop'[s] = "forced" /\ \A r \in Server : r # s => stop'[r] = stop[r]
        BY <1>1 DEF TypeOK
    <2>3. \A r \in cut' : r = s \/ r \in cut
        BY <1>1
    <2>4. QED BY <1>1, <2>1, <2>2, <2>3 DEF ErrorInv, TypeOK
<1>7. QED BY <1>2, <1>3, <1>4, <1>5, <1>6

\* A shutdown goroutine sends its one result.
LEMMA ShutdownResultStep ==
    ASSUME IInv, NEW s \in Server, Drained(s) \/ ForcedStop(s)
    PROVE  IInv'
<1>. USE DEF IInv, collector, channels
<1>1. PICK b \in BOOLEAN :
          /\ Len(shutdownErrs) < 2 /\ shutdownErrs' = shutdownErrs \o <<b>>
          /\ stop[s] = IF b THEN "forced" ELSE "draining"
          /\ stop' = [stop EXCEPT ![s] = "done"]
          /\ IF b THEN s = "grpc" => inflight[s] = 0 ELSE inflight[s] = 0
          /\ UNCHANGED <<signal, deadline, main, stopping, pending, failed, serve, closed,
                         inflight, serveErrs, cut>>
    BY DEF Drained, ForcedStop, Send, ForcedErr
<1>2. /\ shutdownErrs' \in Seq(BOOLEAN)
      /\ Len(shutdownErrs') = Len(shutdownErrs) + 1
      /\ Some(shutdownErrs') <=> Some(shutdownErrs) \/ b
    BY <1>1, SendLemma DEF TypeOK
<1>3. TypeOK'
    BY <1>1, <1>2, EmptyLemma DEF TypeOK
<1>4. /\ Down(s) = 0 /\ Down(s)' = 1
      /\ \A r \in Server : r # s => Down(r)' = Down(r)
    BY <1>1 DEF Down, TypeOK
<1>5. CountInv'
    <2>1. Ended("http")' = Ended("http") /\ Ended("grpc")' = Ended("grpc")
        BY <1>1 DEF Ended
    <2>2. Down("http")' + Down("grpc")' = Down("http") + Down("grpc") + 1
        BY <1>4 DEF Server, Down
    <2>3. Len(shutdownErrs) \in Nat /\ Down("http") \in Nat /\ Down("grpc") \in Nat
        BY EmptyLemma DEF TypeOK, Down
    <2>4. QED BY <1>1, <1>2, <2>1, <2>2, <2>3 DEF CountInv, TypeOK
<1>6. SelectInv'
    BY <1>1 DEF SelectInv
<1>7. StopInv'
    BY <1>1 DEF StopInv, TypeOK, Server
<1>8. ErrorInv'
    <2>1. /\ Some(serveErrs)' <=> Some(serveErrs)
          /\ Some(shutdownErrs)' <=> Some(shutdownErrs) \/ b
        BY <1>1, <1>2 DEF Some
    <2>2. s \in cut <=> b
        BY <1>1 DEF StopInv
    <2>3. \A r \in Server : r # s => stop'[r] = stop[r]
        BY <1>1 DEF TypeOK
    <2>4. QED BY <1>1, <2>1, <2>2, <2>3 DEF ErrorInv, TypeOK
<1>9. QED BY <1>3, <1>5, <1>6, <1>7, <1>8

LEMMA StutterStep ==
    ASSUME IInv, UNCHANGED vars
    PROVE  IInv'
BY DEF IInv, vars, collector, channels, TypeOK, CountInv, SelectInv, StopInv, ErrorInv,
       Ended, Down, Some

LEMMA NextInvariant == IInv /\ [Next]_vars => IInv'
<1>1. SUFFICES ASSUME IInv, [Next]_vars PROVE IInv'
    OBVIOUS
<1>2. CASE Environment
    BY <1>1, <1>2, EnvironmentStep, ServeResultStep DEF Environment
<1>3. CASE Deadline
    BY <1>1, <1>3, EnvironmentStep
<1>4. CASE Main
    BY <1>1, <1>4, SelectStep, StoppedStep, ServedStep, ExitStep DEF Main
<1>5. ASSUME NEW s \in Server, Process(s) PROVE IInv'
    BY <1>1, <1>5, EnvironmentStep, ServeResultStep, CancelStep, ShutdownResultStep
       DEF Process
<1>6. CASE UNCHANGED vars
    BY <1>1, <1>6, StutterStep
<1>7. QED BY <1>1, <1>2, <1>3, <1>4, <1>5, <1>6 DEF Next

LEMMA Invariance == Spec => []IInv
<1>1. QED BY InitInvariant, NextInvariant, PTL DEF Spec

-----------------------------------------------------------------------------
\* The theorems.

\* The variables of serveUntilDone keep their types; above all, no goroutine ever sends
\* a second result, so that no channel holds more than two.
THEOREM TypeCorrect == Spec => []TypeOK
<1>1. IInv => TypeOK
    BY DEF IInv
<1>2. QED BY <1>1, Invariance, PTL

LEMMA AtExit ==
    ASSUME IInv, main = "exited"
    PROVE  /\ serveErrs = <<>> /\ shutdownErrs = <<>>
           /\ ~Some(serveErrs) /\ ~Some(shutdownErrs)
           /\ \A s \in Server : stop[s] = "done" /\ serve[s] \in {"failed", "returned"}
<1>1. stopping = 0 /\ pending = 0
    BY DEF IInv, CountInv
<1>2. Len(serveErrs) \in Nat /\ Len(shutdownErrs) \in Nat
    BY EmptyLemma DEF IInv, TypeOK
<1>3. /\ Ended("http") + Ended("grpc") = Len(serveErrs) + 2
      /\ Down("http") + Down("grpc") = Len(shutdownErrs) + 2
    BY <1>1, <1>2 DEF IInv, CountInv, Ended, Down
<1>4. /\ Ended("http") = 1 /\ Ended("grpc") = 1 /\ Len(serveErrs) = 0
      /\ Down("http") = 1 /\ Down("grpc") = 1 /\ Len(shutdownErrs) = 0
    BY <1>2, <1>3 DEF Ended, Down
<1>5. \A s \in Server : stop[s] = "done" /\ serve[s] \in {"failed", "returned"}
    BY <1>4 DEF Ended, Down, Server
<1>6. QED BY <1>4, <1>5, EmptyLemma DEF IInv, TypeOK

\* serveUntilDone returns with both servers stopped, no goroutine left in a send and no
\* request in flight but HTTP requests cut off by the timeout.
THEOREM CleanExit == Spec => []ExitsClean
<1>1. IInv => ExitsClean
    BY AtExit DEF IInv, ExitsClean, StopInv
<1>2. QED BY <1>1, Invariance, PTL

\* What serveUntilDone returns is an error exactly when a server failed or a drain was cut
\* short by Close or Stop.
THEOREM FaithfulReport == Spec => []ReportsFailures
<1>1. IInv => ReportsFailures
    <2>1. SUFFICES ASSUME IInv, main = "exited"
                   PROVE  /\ (\E s \in Server : serve[s] = "failed" \/ s \in cut) => failed
                          /\ cut = {} /\ (\A s \in Server : serve[s] # "failed") => ~failed
        BY DEF ReportsFailures
    <2>2. \A s \in cut : s \in Server /\ stop[s] = "done"
        BY <2>1, AtExit DEF IInv, TypeOK
    <2>3. QED BY <2>1, <2>2, AtExit DEF IInv, ErrorInv
<1>2. QED BY <1>1, Invariance, PTL

-----------------------------------------------------------------------------
(***************************************************************************)
(* Why it exits.  Every step the goroutines or the clock take uses up some *)
(* of a finite amount of work, nothing the environment does adds to it,    *)
(* and until the exit there is always such a step to take: no goroutine    *)
(* waits for another one that waits for it, and no channel is ever full    *)
(* for a goroutine that has yet to send.                                   *)
(***************************************************************************)

ServeWork(s) == CASE serve[s] = "starting" -> 2
                  [] serve[s] = "serving" -> 1
                  [] OTHER -> 0

StopWork(s) == CASE stop[s] = "none" -> 4
                 [] stop[s] = "begun" -> 3
                 [] stop[s] = "draining" -> 2
                 [] stop[s] = "forced" -> 1
                 [] OTHER -> 0

\* Once it accepts no more of them, the calls of the gRPC server only become fewer.
Calls == IF closed["grpc"] THEN inflight["grpc"] ELSE MaxInflight

Work ==
    ServeWork("http") + ServeWork("grpc") + StopWork("http") + StopWork("grpc")
    + stopping + pending + Calls
    + (IF deadline THEN 0 ELSE 1) + (IF main = "exited" THEN 0 ELSE 1)

\* The steps that are sure to be taken (Fairness).
SureStep ==
    \/ Deadline \/ Main \/ (\E s \in Server : Process(s))
    \/ "grpc" \in cut /\ Finish("grpc")

WorkIsUsedUp == Work' <= Work /\ (SureStep => Work' < Work)

\* What each part of the work is before and after a step.
LEMMA WorkOfRest ==
    ASSUME TypeOK, TypeOK'
    PROVE  /\ \A s \in Server : ServeWork(s) \in 0..2 /\ ServeWork(s)' \in 0..2
           /\ \A s \in Server : StopWork(s) \in 0..4 /\ StopWork(s)' \in 0..4
           /\ Calls \in 0..MaxInflight /\ Calls' \in 0..MaxInflight
           /\ stopping \in Nat /\ stopping' \in Nat /\ pending \in Nat /\ pending' \in Nat
           /\ "http" \in Server /\ "grpc" \in Server
BY LifecycleAssumption DEF ServeWork, StopWork, Calls, TypeOK, Server

\* A goroutine of one server moves on.
LEMMA ServerUsesWork ==
    ASSUME TypeOK, TypeOK', NEW s \in Server,
           UNCHANGED <<deadline, main, stopping, pending>>,
           \A r \in Server \ {s} : serve'[r] = serve[r] /\ stop'[r] = stop[r],
           Calls' <= Calls,
           ServeWork(s)' + StopWork(s)' < ServeWork(s) + StopWork(s)
    PROVE  Work' < Work
<1>1. \A r \in Server \ {s} : ServeWork(r)' = ServeWork(r) /\ StopWork(r)' = StopWork(r)
    BY DEF ServeWork, StopWork
<1>2. s = "http" \/ s = "grpc"
    BY DEF Server
<1>3. QED BY <1>1, <1>2, WorkOfRest DEF Work

LEMMA ServeUsesWork ==
    ASSUME TypeOK, TypeOK', NEW s \in Server,
           Serve(s) \/ ServeReturns(s) \/ ServeFails(s)
    PROVE  Work' < Work
<1>1. /\ UNCHANGED <<deadline, main, stopping, pending, stop, closed, inflight>>
      /\ \A r \in Server \ {s} : serve'[r] = serve[r]
      /\ \/ serve[s] = "starting" /\ serve'[s] = "serving"
         \/ serve[s] \in {"starting", "serving"} /\ serve'[s] \in {"failed", "returned"}
    BY DEF Serve, ServeReturns, ServeFails, TypeOK, collector
<1>2. ServeWork(s)' < ServeWork(s)
    BY <1>1 DEF ServeWork
<1>3. StopWork(s)' = StopWork(s) /\ Calls' = Calls
    BY <1>1 DEF StopWork, Calls
<1>4. QED BY <1>1, <1>2, <1>3, WorkOfRest, ServerUsesWork

LEMMA StopUsesWork ==
    ASSUME TypeOK, TypeOK', NEW s \in Server,
           CloseListener(s) \/ Drained(s) \/ Cancel(s) \/ ForcedStop(s)
    PROVE  Work' < Work
<1>1. /\ UNCHANGED <<deadline, main, stopping, pending, serve, inflight>>
      /\ \A r \in Server \ {s} : stop'[r] = stop[r]
      /\ closed' = closed \/ closed' = [closed EXCEPT ![s] = TRUE]
      /\ \/ stop[s] = "begun" /\ stop'[s] = "draining"
         \/ stop[s] = "draining" /\ stop'[s] \in {"forced", "done"}
         \/ stop[s] = "forced" /\ stop'[s] = "done"
    BY DEF CloseListener, Drained, Cancel, Forced, ForcedStop, TypeOK, collector
<1>2. StopWork(s)' < StopWork(s)
    BY <1>1 DEF StopWork
<1>3. ServeWork(s)' = ServeWork(s)
    BY <1>1 DEF ServeWork
<1>4. Calls' <= Calls
    <2>1. inflight["grpc"] \in 0..MaxInflight /\ MaxInflight \in Nat
        BY LifecycleAssumption DEF TypeOK, Server
    <2>2. closed["grpc"] => closed'["grpc"]
        BY <1>1 DEF TypeOK, Server
    <2>3. QED BY <1>1, <2>1, <2>2 DEF Calls
<1>5. QED BY <1>1, <1>2, <1>3, <1>4, WorkOfRest, ServerUsesWork

LEMMA MainUsesWork == ASSUME IInv, TypeOK', Main PROVE Work' < Work
<1>. USE DEF IInv, collector
<1>1. CASE Select
    <2>1. /\ main = "selecting" /\ main' = "collecting"
          /\ pending' <= pending
          /\ UNCHANGED <<deadline, stopping, serve, closed, inflight>>
          /\ \A s \in Server : stop[s] = "none" /\ stop'[s] = "begun"
        BY <1>1 DEF Select, Received, SelectInv, TypeOK
    <2>2. \A s \in Server : StopWork(s) = 4 /\ StopWork(s)' = 3
        BY <2>1 DEF StopWork
    <2>3. \A s \in Server : ServeWork(s)' = ServeWork(s)
        BY <2>1 DEF ServeWork
    <2>4. Calls' = Calls
        BY <2>1 DEF Calls
    <2>5. QED BY <2>1, <2>2, <2>3, <2>4, WorkOfRest DEF Work
<1>2. CASE Stopped \/ Served \/ Exit
    <2>1. /\ UNCHANGED <<deadline, serve, stop, closed, inflight>>
          /\ main = "collecting"
          /\ \/ main' = main /\ stopping' = stopping - 1 /\ pending' = pending
             \/ main' = main /\ stopping' = stopping /\ pending' = pending - 1
             \/ main' = "exited" /\ stopping' = stopping /\ pending' = pending
        BY <1>2 DEF Stopped, Served, Exit, channels
    <2>2. /\ \A s \in Server : ServeWork(s)' = ServeWork(s) /\ StopWork(s)' = StopWork(s)
          /\ Calls' = Calls
        BY <2>1 DEF ServeWork, StopWork, Calls
    <2>3. QED BY <2>1, <2>2, WorkOfRest DEF Work
<1>3. QED BY <1>1, <1>2 DEF Main

\* Of the environment, time and the end of a call that Stop has cancelled use up work.
LEMMA EnvironmentUsesWork ==
    ASSUME IInv, TypeOK',
           Deadline \/ Signal \/ UNCHANGED vars \/ \E s \in Server : Arrive(s) \/ Finish(s)
    PROVE  /\ Work' <= Work
           /\ Deadline \/ ("grpc" \in cut /\ Finish("grpc")) => Work' < Work
<1>. USE DEF IInv, collector
<1>1. UNCHANGED <<main, stopping, pending, serve, stop, closed>>
    BY DEF Deadline, Signal, Arrive, Finish, vars
<1>2. \A s \in Server : ServeWork(s)' = ServeWork(s) /\ StopWork(s)' = StopWork(s)
    BY <1>1 DEF ServeWork, StopWork
<1>3. deadline' = deadline \/ (~deadline /\ deadline')
    BY DEF Deadline, Signal, Arrive, Finish, vars
<1>4. Calls' <= Calls
    <2>1. closed["grpc"] => inflight'["grpc"] <= inflight["grpc"]
        BY DEF Deadline, Signal, Arrive, Finish, vars, TypeOK, Server
    <2>2. QED BY <1>1, <2>1, LifecycleAssumption DEF Calls
<1>5. Deadline => ~deadline /\ deadline'
    BY DEF Deadline
<1>6. "grpc" \in cut /\ Finish("grpc") => Calls' < Calls
    <2>1. "grpc" \in cut => closed["grpc"]
        BY DEF StopInv, Server
    <2>2. Finish("grpc") => inflight'["grpc"] < inflight["grpc"]
        BY DEF Finish, TypeOK, Server
    <2>3. QED BY <1>1, <2>1, <2>2 DEF Calls
<1>7. QED BY <1>1, <1>2, <1>3, <1>4, <1>5, <1>6, WorkOfRest DEF Work

LEMMA StepUsesWork == ASSUME IInv, TypeOK', [Next]_vars PROVE WorkIsUsedUp
<1>1. SureStep => Work' < Work
    BY EnvironmentUsesWork, MainUsesWork, ServeUsesWork, StopUsesWork
       DEF SureStep, Process, IInv, Server
<1>2. Work' <= Work
    <2>1. \/ SureStep
          \/ \E s \in Server : ServeFails(s)
          \/ Signal \/ UNCHANGED vars \/ \E s \in Server : Arrive(s) \/ Finish(s)
        BY DEF Next, Environment, SureStep
    <2>2. Work \in Nat /\ Work' \in Nat
        BY WorkOfRest DEF Work, IInv
    <2>3. CASE SureStep \/ \E s \in Server : ServeFails(s)
        BY <1>1, <2>2, <2>3, ServeUsesWork DEF IInv
    <2>4. QED BY <2>1, <2>3, EnvironmentUsesWork
<1>3. QED BY <1>1, <1>2 DEF WorkIsUsedUp

-----------------------------------------------------------------------------
\* Who can go on.

MainCan ==
    \/ stopping > 0 /\ shutdownErrs # <<>>
    \/ stopping = 0 /\ pending > 0 /\ serveErrs # <<>>
    \/ stopping = 0 /\ pending = 0

ServeCan(s) == serve[s] \in {"starting", "serving"} /\ closed[s] /\ Len(serveErrs) < 2

StopCan(s) ==
    \/ stop[s] = "begun"
    \/ stop[s] = "draining" /\ deadline
    \/ stop[s] = "forced" /\ (s = "grpc" => inflight[s] = 0) /\ Len(shutdownErrs) < 2

\* Before the shutdown, main waits for a signal or a failure; after it began, the clock, a
\* goroutine or a cancelled call goes on.
SomebodyCan ==
    /\ main = "selecting" /\ (signal \/ \E s \in Server : serve[s] = "failed")
         => signal \/ serveErrs # <<>>
    /\ main = "collecting" =>
         \/ ~deadline \/ MainCan \/ \E s \in Server : ServeCan(s) \/ StopCan(s)
         \/ "grpc" \in cut /\ inflight["grpc"] > 0

\* A shutdown goroutine runs for each server once main has stopped waiting.
StartedInv == main # "selecting" => \A s \in Server : stop[s] # "none"

LEMMA StartedStep == ASSUME IInv, StartedInv, [Next]_vars PROVE StartedInv'
<1>1. CASE Select
    BY <1>1 DEF Select, StartedInv
<1>2. CASE ~Select
    <2>1. /\ main' = "selecting" <=> main = "selecting"
          /\ \A s \in Server : stop[s] # "none" => stop'[s] # "none"
        BY <1>2 DEF IInv, TypeOK, Next, Environment, Main, Process, Signal, Arrive, Finish,
             ServeFails, Deadline, Stopped, Served, Exit, Serve, ServeReturns, CloseListener,
             Drained, Cancel, Forced, ForcedStop, vars, collector
    <2>2. QED BY <2>1 DEF StartedInv
<1>3. QED BY <1>1, <1>2

LEMMA CollectingCan ==
    ASSUME IInv, StartedInv, main = "collecting", deadline,
           ~("grpc" \in cut /\ inflight["grpc"] > 0)
    PROVE  MainCan \/ \E s \in Server : ServeCan(s) \/ StopCan(s)
<1>0. /\ Len(serveErrs) \in Nat /\ Len(shutdownErrs) \in Nat
      /\ stopping \in Nat /\ pending \in Nat
      /\ "http" \in Server /\ "grpc" \in Server
    BY EmptyLemma DEF IInv, TypeOK, Server
<1>1. CASE \E s \in Server : stop[s] # "done"
    <2>1. PICK s \in Server : stop[s] # "done"
        BY <1>1
    <2>2. stop[s] \in {"begun", "draining", "forced"}
        BY <2>1 DEF IInv, TypeOK, StartedInv
    <2>3. CASE stop[s] = "forced"
        <3>1. Down(s) = 0
            BY <2>1 DEF Down
        <3>2. Len(shutdownErrs) < 2
            BY <1>0, <3>1 DEF IInv, CountInv, TypeOK, Down, Server
        <3>3. s = "grpc" => inflight[s] = 0
            BY <2>3 DEF IInv, StopInv, TypeOK
        <3>4. QED BY <2>3, <3>2, <3>3 DEF StopCan
    <2>4. QED BY <2>2, <2>3 DEF StopCan
<1>2. CASE \A s \in Server : stop[s] = "done"
    <2>1. stopping = Len(shutdownErrs)
        BY <1>0, <1>2 DEF IInv, CountInv, Down
    <2>2. CASE stopping > 0
        BY <1>0, <2>1, <2>2, EmptyLemma DEF MainCan, IInv, TypeOK
    <2>3. CASE stopping = 0 /\ \E s \in Server : serve[s] \in {"starting", "serving"}
        <3>1. PICK s \in Server : serve[s] \in {"starting", "serving"}
            BY <2>3
        <3>2. Ended(s) = 0
            BY <3>1 DEF Ended
        <3>3. Len(serveErrs) < 2
            BY <1>0, <3>2 DEF IInv, CountInv, TypeOK, Ended, Server
        <3>4. closed[s]
            BY <1>2 DEF IInv, StopInv
        <3>5. QED BY <3>1, <3>3, <3>4 DEF ServeCan
    <2>4. CASE stopping = 0 /\ \A s \in Server : serve[s] \in {"failed", "returned"}
        <3>1. pending = Len(serveErrs)
            BY <1>0, <2>4 DEF IInv, CountInv, Ended
        <3>2. QED BY <1>0, <2>4, <3>1, EmptyLemma DEF MainCan, IInv, TypeOK
    <2>5. QED BY <1>0, <2>2, <2>3, <2>4 DEF IInv, TypeOK
<1>3. QED BY <1>1, <1>2

LEMMA Going == ASSUME IInv, StartedInv PROVE SomebodyCan
<1>1. ASSUME main = "selecting", NEW s \in Server, serve[s] = "failed"
      PROVE  serveErrs # <<>>
    <2>1. Some(serveErrs)
        BY <1>1 DEF IInv, SelectInv, ErrorInv
    <2>2. QED BY <2>1, EmptyLemma DEF IInv, TypeOK
<1>2. QED BY <1>1, CollectingCan DEF SomebodyCan

\* The process takes a bounded number of steps of its own: each one uses up some of its
\* work, which no request, signal or failure gives back.  With NeverStuck this is why
\* serveUntilDone returns once it began to shut down.
THEOREM WorkEnds == Spec => [][WorkIsUsedUp]_vars
<1>1. IInv /\ IInv' /\ [Next]_vars => [WorkIsUsedUp]_vars
    BY StepUsesWork DEF IInv
<1>2. QED BY <1>1, Invariance, PTL DEF Spec

\* From the first signal or failure to the exit somebody can go on: no goroutine is left in
\* a send, or waiting for a result that nobody sends any more, whichever server fails first.
THEOREM NeverStuck == Spec => []SomebodyCan
<1>1. Init => StartedInv
    BY DEF Init, StartedInv
<1>2. IInv /\ StartedInv /\ [Next]_vars => StartedInv'
    BY StartedStep
<1>3. IInv /\ StartedInv => SomebodyCan
    BY Going
<1>4. QED BY <1>1, <1>2, <1>3, Invariance, PTL DEF Spec
=============================================================================
