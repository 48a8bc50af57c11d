--------------------------- MODULE ServiceHandler ---------------------------
(***************************************************************************)
(* handler.Execute of service_windows.go: a service under the service       *)
(* control manager.  A goroutine runs Service.Run; Execute waits for its     *)
(* result or for a stop, tells the manager what state it is in, and returns *)
(* an exit code, on which the manager's recovery action depends.            *)
(*                                                                          *)
(* svc.Run stands between the two: it passes requests on one at a time, and *)
(* takes every status Execute sends.  The stop timeout may pass at any time. *)
(***************************************************************************)
EXTENDS Naturals, FiniteSets

CONSTANTS
    heeds,        \* Service.Run returns once its context is done
    NoRequest, NoResult

ASSUME HandlerAssumption ==
    /\ heeds \subseteq BOOLEAN /\ heeds # {}
    /\ NoRequest \notin {"stop", "shutdown", "preshutdown", "interrogate", "other"}
    /\ NoResult \notin [err : {"nil", "canceled", "error"}, stopped : BOOLEAN]

VARIABLES
    obeys,        \* whether this Service heeds its context; it never changes
    status,       \* the state last reported to the manager
    request,      \* a request on its way to Execute
    pc, code,     \* Execute ("dead" without a process), and what it returned
    ctxDone,
    run, result,  \* the goroutine, and what runRecovered returned
    done,         \* the channel, of capacity one
    logged        \* levels of the records written

vars == <<obeys, status, request, pc, code, ctxDone, run, result, done, logged>>
goroutine == <<run, result>>

-----------------------------------------------------------------------------
Stops == {"stop", "shutdown", "preshutdown"}
Requests == Stops \cup {"interrogate", "other"}
Errors == {"nil", "canceled", "error"}

\* What Run returned, and whether its context was done by then.
Result == [err : Errors, stopped : BOOLEAN]

\* runRecovered: a panic becomes an error.
runRecovered(outcome) == IF outcome = "panic" THEN "error" ELSE outcome

-----------------------------------------------------------------------------
Begin ==
    /\ pc = "begin"
    /\ status' = "startPending"
    /\ pc' = "spawn"
    /\ UNCHANGED <<obeys, request, code, ctxDone, goroutine, done, logged>>

Spawn ==
    /\ pc = "spawn"
    /\ run' = "running"
    /\ pc' = "announce"
    /\ UNCHANGED <<obeys, status, request, code, ctxDone, result, done, logged>>

Announce ==
    /\ pc = "announce"
    /\ status' = "running"
    /\ pc' = "select"
    /\ UNCHANGED <<obeys, request, code, ctxDone, goroutine, done, logged>>

\* Execute returns; its deferred cancel runs.
Return(result_code) == pc' = "returned" /\ code' = result_code /\ ctxDone' = TRUE

\* The first branch of the select: Run returned of its own accord, or a stop
\* is waiting and the select took this branch all the same.
TakeDone ==
    /\ pc = "select"
    /\ done # NoResult
    /\ done' = NoResult
    /\ pc' = "ending"
    /\ UNCHANGED <<obeys, status, request, code, ctxDone, goroutine, logged>>

Ending ==
    /\ pc = "ending"
    /\ status' = "stopPending"
    /\ IF result.err # "nil" THEN Return("failed") /\ logged' = logged \cup {"error"}
       ELSE Return("clean") /\ UNCHANGED logged
    /\ UNCHANGED <<obeys, request, goroutine, done>>

\* The second branch: interrogations are answered, stops begun, others ignored.
TakeRequest ==
    /\ pc = "select"
    /\ request # NoRequest
    /\ request' = NoRequest
    /\ pc' = CASE request \in Stops -> "stopping"
               [] request = "interrogate" -> "echo"
               [] OTHER -> "select"
    /\ UNCHANGED <<obeys, status, code, ctxDone, goroutine, done, logged>>

\* Execute sends back the status the request carries, c.CurrentStatus: the last one
\* it had sent when the request was handed over, and it has sent none since.
Echo ==
    /\ pc = "echo"
    /\ pc' = "select"
    /\ UNCHANGED <<obeys, status, request, code, ctxDone, goroutine, done, logged>>

\* Mutant: after the cancel Execute goes back to the outer select (a break
\* leaves only the inner one).
StoppingBreaks ==
    /\ pc = "stopping"
    /\ status' = "stopPending"
    /\ ctxDone' = TRUE
    /\ pc' = "select"
    /\ UNCHANGED <<obeys, request, code, goroutine, done, logged>>

Stopping ==
    /\ pc = "stopping"
    /\ status' = "stopPending"
    /\ ctxDone' = TRUE
    /\ pc' = "waiting"
    /\ UNCHANGED <<obeys, request, code, goroutine, done, logged>>

\* Mutant: an error on the way out is passed over.
StoppedSilently ==
    /\ pc = "waiting"
    /\ done # NoResult
    /\ done' = NoResult
    /\ Return("clean")
    /\ UNCHANGED <<obeys, status, request, goroutine, logged>>

\* Mutant: an error on the way out of a stop is a failed exit.
StoppedFails ==
    /\ pc = "waiting"
    /\ done # NoResult
    /\ done' = NoResult
    /\ IF done.err = "error" THEN Return("failed") /\ logged' = logged \cup {"error"}
       ELSE Return("clean") /\ UNCHANGED logged
    /\ UNCHANGED <<obeys, status, request, goroutine>>

\* Run returned after the stop, or just before it.
Stopped ==
    /\ pc = "waiting"
    /\ done # NoResult
    /\ done' = NoResult
    /\ logged' = IF done.err \in {"nil", "canceled"} THEN logged ELSE logged \cup {"error"}
    /\ Return("clean")
    /\ UNCHANGED <<obeys, status, request, goroutine>>

\* Mutant: no timer beside the channel.
NeverTimesOut == FALSE /\ UNCHANGED vars

\* time.After(stopTimeout); when both are ready either may be taken.
TimesOut ==
    /\ pc = "waiting"
    /\ logged' = logged \cup {"warn"}
    /\ Return("clean")
    /\ UNCHANGED <<obeys, status, request, goroutine, done>>

Execute == \/ Begin \/ Spawn \/ Announce \/ TakeDone \/ Ending \/ TakeRequest
           \/ Echo \/ Stopping \/ Stopped \/ TimesOut

-----------------------------------------------------------------------------
\* Service.Run may return anything at any time, or panic.
RunReturns ==
    /\ run = "running"
    /\ \E outcome \in Errors \cup {"panic"} :
          result' = [err |-> runRecovered(outcome), stopped |-> ctxDone]
    /\ run' = "sending"
    /\ UNCHANGED <<obeys, status, request, pc, code, ctxDone, done, logged>>

\* Mutant: the channel has no buffer, so that somebody has to be receiving.
SendUnbuffered ==
    /\ run = "sending"
    /\ done = NoResult
    /\ pc \in {"select", "waiting"}
    /\ done' = result
    /\ run' = "gone"
    /\ UNCHANGED <<obeys, status, request, pc, code, ctxDone, result, logged>>

Send ==
    /\ run = "sending"
    /\ done = NoResult
    /\ done' = result
    /\ run' = "gone"
    /\ UNCHANGED <<obeys, status, request, pc, code, ctxDone, result, logged>>

\* The manager sends stops only to a service that says it accepts them.
Request ==
    /\ request = NoRequest
    /\ status \notin {"stopped", "none"}
    /\ request' \in (IF status = "running" THEN Requests ELSE {"interrogate"})
    /\ UNCHANGED <<obeys, status, pc, code, ctxDone, goroutine, done, logged>>

\* svc.Run reports the end, and the exit code with it; requests not yet handed
\* over are dropped.
ReportStopped ==
    /\ pc = "returned" /\ status # "stopped"
    /\ status' = "stopped"
    /\ request' = NoRequest
    /\ UNCHANGED <<obeys, pc, code, ctxDone, goroutine, done, logged>>

\* The manager starts the service, in a new process.
StartService ==
    /\ status = "stopped"
    /\ status' = "none" /\ request' = NoRequest
    /\ pc' = "begin" /\ code' = "none" /\ ctxDone' = FALSE
    /\ run' = "none" /\ result' = NoResult /\ done' = NoResult
    /\ logged' = {}
    /\ UNCHANGED obeys

\* The process ends: main returns after svc.Run did, or somebody kills it.
Die ==
    /\ pc # "dead"
    /\ status' = "stopped" /\ request' = NoRequest
    /\ pc' = "dead" /\ code' = "none" /\ ctxDone' = FALSE
    /\ run' = "none" /\ result' = NoResult /\ done' = NoResult
    /\ logged' = {}
    /\ UNCHANGED obeys

Init ==
    /\ obeys \in heeds
    /\ status = "stopped" /\ request = NoRequest
    /\ pc = "dead" /\ code = "none" /\ ctxDone = FALSE
    /\ run = "none" /\ result = NoResult /\ done = NoResult
    /\ logged = {}

Next == Execute \/ RunReturns \/ Send \/ Request \/ ReportStopped \/ StartService \/ Die

Spec == Init /\ [][Next]_vars

\* Execute, svc.Run and the goroutine run on; a Service that heeds its context
\* returns once that is done.
FairSpec ==
    /\ Spec
    /\ WF_vars(Execute) /\ WF_vars(Send) /\ WF_vars(ReportStopped)
    /\ WF_vars(obeys /\ ctxDone /\ RunReturns)

-----------------------------------------------------------------------------
TypeOK ==
    /\ obeys \in heeds
    /\ status \in {"none", "startPending", "running", "stopPending", "stopped"}
    /\ request \in Requests \cup {NoRequest}
    /\ pc \in {"begin", "spawn", "announce", "select", "echo", "ending",
               "stopping", "waiting", "returned", "dead"}
    /\ code \in {"none", "clean", "failed"}
    /\ ctxDone \in BOOLEAN
    /\ run \in {"none", "running", "sending", "gone"}
    /\ result \in Result \cup {NoResult}
    /\ done \in Result \cup {NoResult}
    /\ logged \subseteq {"error", "warn"}

\* The exit code is a failure only for a Run that failed before anybody stopped
\* it, and never for what a stop made it return, or the recovery action
\* would restart a service that was stopped on purpose
\* (service_windows.go:54-61, 71-74).
FailedExitIsOwnFailure ==
    code = "failed" => result.err # "nil" /\ ~result.stopped

\* No failure of Run, a panic included, passes in silence: it is logged, or the
\* log says that Run was not waited for (winsvr.go:48-54).
FailureIsLogged ==
    pc = "returned" /\ run \in {"sending", "gone"} /\ result.err = "error" => logged # {}

\* A stop the manager has sent ends the service, even when Run ignores
\* its context (the stop timeout).
StopIsAnswered == request \in Stops ~> status = "stopped"

\* No goroutine is left hanging on its channel after Execute returned, the stop
\* timeout passed or not, when Run heeds its context (make(chan error, 1), the
\* deferred cancel).
GoroutineEnds == obeys /\ pc = "returned" ~> run \in {"gone", "none"}
=============================================================================
