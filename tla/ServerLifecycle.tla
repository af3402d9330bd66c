-------------------------- MODULE ServerLifecycle --------------------------
(***************************************************************************)
(* The life of the process: it serves HTTP and gRPC until a signal or a    *)
(* failure of either, then stops both within one timeout and exits.        *)
(*                                                                         *)
(* Goroutines: the main one, per server one in Serve, and per server one   *)
(* that shuts it down.  They meet in two buffered channels of capacity 2.  *)
(* Of an error only its presence matters.                                  *)
(***************************************************************************)
EXTENDS Naturals, Sequences

CONSTANTS
    MaxInflight   \* bound: requests in flight per server

ASSUME LifecycleAssumption == MaxInflight \in Nat

Server == {"http", "grpc"}

VARIABLES
    signal,       \* was SIGINT or SIGTERM received?
    deadline,     \* has shutdownCtx expired?
    main,         \* where serveUntilDone is
    stopping,     \* shutdown results it has yet to receive
    pending,      \* Serve results it has yet to receive
    failed,       \* has it received an error?
    serve,        \* where each Serve goroutine is
    stop,         \* where each shutdown goroutine is
    closed,       \* is the server's listener closed?
    inflight,     \* requests each server works on
    serveErrs,    \* the channels: TRUE for an error
    shutdownErrs,
    cut           \* servers whose requests were cancelled by Close or Stop

collector == <<main, stopping, pending, failed>>
channels == <<serveErrs, shutdownErrs>>
vars == <<signal, deadline, collector, serve, stop, closed, inflight, channels, cut>>

TypeOK ==
    /\ signal \in BOOLEAN
    /\ deadline \in BOOLEAN
    /\ main \in {"selecting", "collecting", "exited"}
    /\ stopping \in 0..2
    /\ pending \in 0..2
    /\ failed \in BOOLEAN
    /\ serve \in [Server -> {"starting", "serving", "failed", "returned"}]
    /\ stop \in [Server -> {"none", "begun", "draining", "forced", "done"}]
    /\ closed \in [Server -> BOOLEAN]
    /\ inflight \in [Server -> 0..MaxInflight]
    /\ serveErrs \in Seq(BOOLEAN) /\ Len(serveErrs) <= 2
    /\ shutdownErrs \in Seq(BOOLEAN) /\ Len(shutdownErrs) <= 2
    /\ cut \in SUBSET Server

Init ==
    /\ signal = FALSE /\ deadline = FALSE
    /\ main = "selecting"
    /\ stopping = 2
    /\ pending = 2
    /\ failed = FALSE
    /\ serve = [s \in Server |-> "starting"]
    /\ stop = [s \in Server |-> "none"]
    /\ closed = [s \in Server |-> FALSE]
    /\ inflight = [s \in Server |-> 0]
    /\ serveErrs = <<>> /\ shutdownErrs = <<>>
    /\ cut = {}

-----------------------------------------------------------------------------
\* The environment: requests, the signal, a failing listener, time.

Arrive(s) ==
    /\ serve[s] = "serving" /\ ~closed[s]
    /\ inflight[s] < MaxInflight
    /\ inflight' = [inflight EXCEPT ![s] = @ + 1]
    /\ UNCHANGED <<signal, deadline, collector, serve, stop, closed, channels, cut>>

\* Nothing makes a handler finish, except that a cancelled gRPC call returns.
Finish(s) ==
    /\ inflight[s] > 0
    /\ inflight' = [inflight EXCEPT ![s] = @ - 1]
    /\ UNCHANGED <<signal, deadline, collector, serve, stop, closed, channels, cut>>

Signal ==
    /\ signal' = TRUE
    /\ ~signal
    /\ UNCHANGED <<deadline, collector, serve, stop, closed, inflight, channels, cut>>

\* shutdownTimeout elapses; the clock runs from the moment serving ends.
Deadline ==
    /\ main = "collecting" /\ ~deadline
    /\ deadline' = TRUE
    /\ UNCHANGED <<signal, collector, serve, stop, closed, inflight, channels, cut>>

-----------------------------------------------------------------------------
\* The Serve goroutines.

Serve(s) ==
    /\ serve[s] = "starting" /\ ~closed[s]
    /\ serve' = [serve EXCEPT ![s] = "serving"]
    /\ UNCHANGED <<signal, deadline, collector, stop, closed, inflight, channels, cut>>

\* A channel of capacity 2 blocks its third sender.
Send(channel, results) == Len(channel) < 2 /\ channel' = channel \o results

\* Mutation: the goroutine sends its error and goes on to send nil.
FellThrough == <<TRUE, FALSE>>

Failure == <<TRUE>>

\* An accepting server fails: its requests go on, no new one is accepted.
ServeFails(s) ==
    /\ serve[s] = "serving" /\ ~closed[s]
    /\ Send(serveErrs, Failure)
    /\ serve' = [serve EXCEPT ![s] = "failed"]
    /\ UNCHANGED <<signal, deadline, collector, stop, closed, inflight, shutdownErrs, cut>>

\* Mutation: ErrServerClosed and ErrServerStopped are taken for failures.
AnyReturn == <<TRUE>>

\* ErrServerClosed, ErrServerStopped and nil are no failures, even when the server
\* was stopped before it served.
CleanReturn == <<FALSE>>

ServeReturns(s) ==
    /\ serve[s] \in {"starting", "serving"} /\ closed[s]
    /\ Send(serveErrs, CleanReturn)
    /\ serve' = [serve EXCEPT ![s] = "returned"]
    /\ UNCHANGED <<signal, deadline, collector, stop, closed, inflight, shutdownErrs, cut>>

-----------------------------------------------------------------------------
\* The main goroutine.

\* Mutation: a Serve result that ends the wait is taken for the last one.
LastOne == 0

Received == pending - 1

\* ctx.Done or the first result of a Serve, whichever select picks.
Select ==
    /\ main = "selecting"
    /\ \/ signal /\ UNCHANGED <<pending, failed, serveErrs>>
       \/ /\ serveErrs # <<>>
          /\ failed' = Head(serveErrs)
          /\ serveErrs' = Tail(serveErrs)
          /\ pending' = Received
    /\ main' = "collecting"
    /\ stop' = [s \in Server |-> "begun"]
    /\ UNCHANGED <<signal, deadline, stopping, serve, closed, inflight, shutdownErrs, cut>>

\* It receives both shutdown results, ...
Stopped ==
    /\ main = "collecting" /\ stopping > 0
    /\ shutdownErrs # <<>>
    /\ failed' = (failed \/ Head(shutdownErrs))
    /\ shutdownErrs' = Tail(shutdownErrs)
    /\ stopping' = stopping - 1
    /\ UNCHANGED <<signal, deadline, main, pending, serve, stop, closed, inflight,
                   serveErrs, cut>>

\* ... then what is left of the Serve results, ...
Served ==
    /\ main = "collecting" /\ stopping = 0 /\ pending > 0
    /\ serveErrs # <<>>
    /\ failed' = (failed \/ Head(serveErrs))
    /\ serveErrs' = Tail(serveErrs)
    /\ pending' = pending - 1
    /\ UNCHANGED <<signal, deadline, main, stopping, serve, stop, closed, inflight,
                   shutdownErrs, cut>>

\* ... and returns their join.
Exit ==
    /\ main = "collecting" /\ stopping = 0 /\ pending = 0
    /\ main' = "exited"
    /\ UNCHANGED <<signal, deadline, stopping, pending, failed, serve, stop, closed,
                   inflight, channels, cut>>

-----------------------------------------------------------------------------
\* The shutdown goroutines: Shutdown and GracefulStop close the listener, then drain.

CloseListener(s) ==
    /\ stop[s] = "begun"
    /\ stop' = [stop EXCEPT ![s] = "draining"]
    /\ closed' = [closed EXCEPT ![s] = TRUE]
    /\ UNCHANGED <<signal, deadline, collector, serve, inflight, channels, cut>>

Drained(s) ==
    /\ stop[s] = "draining" /\ inflight[s] = 0
    /\ Send(shutdownErrs, <<FALSE>>)
    /\ stop' = [stop EXCEPT ![s] = "done"]
    /\ UNCHANGED <<signal, deadline, collector, serve, closed, inflight, serveErrs, cut>>

\* Mutation: a drain that times out is waited for all the same.
Patient(s) == FALSE

\* Close and Stop cancel what is still in flight, once the timeout has elapsed.
Forced(s) == stop[s] = "draining" /\ deadline

Cancel(s) ==
    /\ Forced(s)
    /\ stop' = [stop EXCEPT ![s] = "forced"]
    /\ cut' = cut \cup {s}
    /\ UNCHANGED <<signal, deadline, collector, serve, closed, inflight, channels>>

\* Mutation: the timeout is not reported.
ForcedQuietly == <<FALSE>>

ForcedErr == <<TRUE>>

\* stopGRPC waits once more for GracefulStop, which returns after the last call's
\* handler; Close waits for no handler.  Both report the timeout.
ForcedStop(s) ==
    /\ stop[s] = "forced"
    /\ s = "grpc" => inflight[s] = 0
    /\ Send(shutdownErrs, ForcedErr)
    /\ stop' = [stop EXCEPT ![s] = "done"]
    /\ UNCHANGED <<signal, deadline, collector, serve, closed, inflight, serveErrs, cut>>

Environment ==
    Signal \/ \E s \in Server : Arrive(s) \/ Finish(s) \/ ServeFails(s)

Process(s) ==
    Serve(s) \/ ServeReturns(s) \/ CloseListener(s) \/ Drained(s) \/ Cancel(s) \/ ForcedStop(s)

Main == Select \/ Stopped \/ Served \/ Exit

Next == Environment \/ Deadline \/ Main \/ \E s \in Server : Process(s)

\* Every goroutine is scheduled while it can run, and time passes.  A gRPC handler hands
\* its context to every query, so it returns once Stop has cancelled it; no other
\* handler's end, and no signal, is assumed.
Fairness ==
    /\ WF_vars(Deadline)
    /\ WF_vars(Main)
    /\ WF_vars("grpc" \in cut /\ Finish("grpc"))
    /\ \A s \in Server :
        /\ WF_vars(Serve(s) \/ ServeReturns(s))
        /\ WF_vars(CloseListener(s) \/ Drained(s) \/ Cancel(s) \/ ForcedStop(s))

Spec == Init /\ [][Next]_vars /\ Fairness

-----------------------------------------------------------------------------
\* Properties.

\* "the process always exits within the bound": after a signal or a failure of either
\* server it exits, although handlers may never finish of themselves.
AlwaysExits ==
    signal \/ (\E s \in Server : serve[s] = "failed") ~> main = "exited"

\* It exits with both servers stopped, no goroutine left behind in a send and nothing in
\* flight but HTTP handlers it gave up, whatever the order in which servers stop or fail.
ExitsClean ==
    main = "exited" =>
        /\ serveErrs = <<>> /\ shutdownErrs = <<>>
        /\ \A s \in Server :
             /\ closed[s] /\ stop[s] = "done"
             /\ serve[s] \in {"failed", "returned"}
             /\ inflight[s] = 0 \/ s \in cut \cap {"http"}

\* It reports an error if and only if a server failed or a drain was cut short by Close or
\* Stop: a signal at startup, before Serve, counts as a graceful stop, and so does a drain
\* that ends by itself although the timeout has elapsed meanwhile.
ReportsFailures ==
    main = "exited" =>
        /\ (\E s \in Server : serve[s] = "failed" \/ s \in cut) => failed
        /\ cut = {} /\ (\A s \in Server : serve[s] # "failed") => ~failed
=============================================================================
