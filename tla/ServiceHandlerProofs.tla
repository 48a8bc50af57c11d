------------------------ MODULE ServiceHandlerProofs ------------------------
(* Proofs about ServiceHandler: the exit code, the log and the stop.          *)
EXTENDS ServiceHandler, TLAPS

-----------------------------------------------------------------------------
\* The goroutine: it has a result once Run returned, and hands over that one.
\* Its context is alive until Execute takes a stop or returns.
GoroutineOK ==
    /\ run = "none" <=> pc \in {"begin", "spawn", "dead"}
    /\ run \in {"sending", "gone"} <=> result # NoResult
    /\ done # NoResult => done = result /\ run = "gone"
    /\ ctxDone <=> pc \in {"waiting", "returned"}
    /\ result # NoResult /\ ~ctxDone => ~result.stopped

\* Execute: what it took from the channel and what it owes the log.
ExecuteOK ==
    /\ pc = "ending" => run = "gone"
    /\ pc = "returned" /\ run # "gone" => "warn" \in logged
    /\ code = "failed" => pc = "returned" /\ run = "gone"

\* What the manager was told last goes with the place Execute is at.
StatusOK ==
    /\ pc = "dead" => status = "stopped"
    /\ pc = "begin" => status = "none"
    /\ pc \in {"spawn", "announce"} => status = "startPending"
    /\ pc \in {"select", "echo", "ending", "stopping"} => status = "running"
    /\ pc = "waiting" => status = "stopPending"
    /\ pc = "returned" => status \in {"stopPending", "stopped"}

\* A stop is sent only to a service that said it runs.
RequestOK == request \in Stops => pc \in {"select", "echo", "stopping", "waiting", "ending", "returned"}

IInv == TypeOK /\ GoroutineOK /\ ExecuteOK /\ StatusOK /\ RequestOK
        /\ FailedExitIsOwnFailure /\ FailureIsLogged

-----------------------------------------------------------------------------
\* No request is not a stop.
LEMMA NoStop == NoRequest \notin Stops
  BY HandlerAssumption DEF Stops

LEMMA InitInvariant == Init => IInv
  BY NoStop DEF Init, IInv, TypeOK, GoroutineOK, ExecuteOK, StatusOK, RequestOK,
         FailedExitIsOwnFailure, FailureIsLogged

\* Execute's own steps.
LEMMA ExecuteInvariant ==
    ASSUME IInv, Execute
    PROVE  IInv'
  <1> USE DEF IInv, TypeOK, GoroutineOK, ExecuteOK, StatusOK, RequestOK,
              FailedExitIsOwnFailure, FailureIsLogged, goroutine
  <1>1. CASE Begin
    BY <1>1 DEF Begin
  <1>2. CASE Spawn
    BY <1>2 DEF Spawn
  <1>3. CASE Announce
    BY <1>3 DEF Announce
  <1>4. CASE TakeDone
    BY <1>4 DEF TakeDone
  <1>5. CASE Ending
    BY <1>5 DEF Ending, Return
  <1>6. CASE TakeRequest
    BY <1>6 DEF TakeRequest
  <1>7. CASE Echo
    BY <1>7 DEF Echo
  <1>8. CASE Stopping
    BY <1>8 DEF Stopping
  <1>9. CASE Stopped
    BY <1>9 DEF Stopped, Return
  <1>10. CASE TimesOut
    BY <1>10 DEF TimesOut, Return
  <1>11. QED
    BY <1>1, <1>2, <1>3, <1>4, <1>5, <1>6, <1>7, <1>8, <1>9, <1>10 DEF Execute

\* Every other step.
LEMMA OthersInvariant ==
    ASSUME IInv, RunReturns \/ Send \/ Request \/ ReportStopped
                 \/ StartService \/ Die \/ UNCHANGED vars
    PROVE  IInv'
  <1> USE DEF IInv, TypeOK, GoroutineOK, ExecuteOK, StatusOK, RequestOK,
              FailedExitIsOwnFailure, FailureIsLogged, goroutine
  <1>1. CASE RunReturns
    <2>1. PICK outcome \in Errors \cup {"panic"} :
              result' = [err |-> runRecovered(outcome), stopped |-> ctxDone]
      BY <1>1 DEF RunReturns
    <2>2. result' \in Result /\ result'.stopped = ctxDone
      BY <2>1 DEF Result, Errors, runRecovered
    <2>3. result' # NoResult
      BY <2>2, HandlerAssumption DEF Result, Errors
    <2>4. QED
      BY <1>1, <2>2, <2>3 DEF RunReturns
  <1>2. CASE Send
    BY <1>2 DEF Send
  <1>3. CASE Request
    BY <1>3 DEF Request, Requests, Stops
  <1>4. CASE ReportStopped
    BY <1>4 DEF ReportStopped
  <1>5. CASE StartService
    BY <1>5, NoStop DEF StartService
  <1>6. CASE Die
    BY <1>6, NoStop DEF Die
  <1>7. CASE UNCHANGED vars
    BY <1>7 DEF vars
  <1>8. QED
    BY <1>1, <1>2, <1>3, <1>4, <1>5, <1>6, <1>7

THEOREM Invariant == Spec => []IInv
  <1>1. IInv /\ [Next]_vars => IInv'
    BY ExecuteInvariant, OthersInvariant DEF Next
  <1>2. QED
    BY <1>1, InitInvariant, PTL DEF Spec

-----------------------------------------------------------------------------
\* Every variable keeps to its type.
THEOREM TypeCorrect == Spec => []TypeOK
  <1>1. IInv => TypeOK
    BY DEF IInv
  <1>2. QED
    BY <1>1, Invariant, PTL

\* A service that was stopped never exits as failed, nor does one whose Run
\* returned nil.
THEOREM FailedExitOwn == Spec => []FailedExitIsOwnFailure
  <1>1. IInv => FailedExitIsOwnFailure
    BY DEF IInv
  <1>2. QED
    BY <1>1, Invariant, PTL

\* Every failure of Run leaves a trace in the log.
THEOREM FailureLogged == Spec => []FailureIsLogged
  <1>1. IInv => FailureIsLogged
    BY DEF IInv
  <1>2. QED
    BY <1>1, Invariant, PTL

\* Once Execute has announced that it stops, it ends clean, whatever Run returned
\* and when: also for a Run that failed just before the stop was taken, of which
\* FailedExitIsOwnFailure would allow a failed exit (service_windows.go:68-92).
StopEndsClean == [][status = "stopPending" /\ pc # "returned" => code' # "failed"]_vars

\* A stop that was taken never ends in a failed exit.
THEOREM StopsClean == Spec => StopEndsClean
  <1>1. ASSUME IInv, [Next]_vars, status = "stopPending", pc # "returned"
        PROVE  code' # "failed"
    <2>1. pc = "waiting" /\ code # "failed"
      BY <1>1 DEF IInv, TypeOK, StatusOK, ExecuteOK
    <2>2. CASE Execute
      BY <2>1, <2>2 DEF Execute, Begin, Spawn, Announce, TakeDone, Ending, TakeRequest, Echo,
                        Stopping, Stopped, TimesOut, Return
    <2>3. CASE ~Execute
      BY <1>1, <2>1, <2>3 DEF Next, RunReturns, Send, Request, ReportStopped, StartService,
                              Die, vars
    <2>4. QED
      BY <2>2, <2>3
  <1>2. QED
    BY <1>1, Invariant, PTL DEF Spec, StopEndsClean

-----------------------------------------------------------------------------
(* What the liveness properties rest on.                                    *)

\* The goroutine never has to wait for somebody to receive: its channel has room
\* whenever it sends, also after Execute gave up on it (make(chan error, 1),
\* service_windows.go:47).  With this a fair scheduler makes GoroutineEnds.
SendHasRoom == run = "sending" => done = NoResult

\* The steps Execute may still take once a stop is waiting, or taken.
AnswerRank ==
    CASE pc = "echo" -> 4
      [] pc = "select" -> 3
      [] pc = "stopping" -> 2
      [] pc \in {"waiting", "ending"} -> 1
      [] OTHER -> 0

\* From the arrival of a stop on every step of Execute brings its return nearer,
\* until the process ends: no request that waits, no result and no
\* interrogation brings Execute back (service_windows.go:51-92).
StopIsTaken ==
    [][(request \in Stops \/ pc \in {"stopping", "waiting", "ending"}) =>
          /\ pc \in {"select", "echo", "stopping", "waiting", "ending", "returned"}
          /\ Execute => AnswerRank' < AnswerRank
          /\ ~Execute => UNCHANGED pc \/ pc' \in {"begin", "dead"}]_vars

\* The send of the goroutine is never held up.
THEOREM SendRoom == Spec => []SendHasRoom
  <1>1. IInv => SendHasRoom
    BY DEF IInv, GoroutineOK, SendHasRoom
  <1>2. QED
    BY <1>1, Invariant, PTL

\* A stop is answered within four steps of Execute, one of them at most its wait
\* for Run, which the stop timeout ends: the safety half of StopIsAnswered.
THEOREM StopTaken == Spec => StopIsTaken
  <1>1. ASSUME IInv, [Next]_vars,
               request \in Stops \/ pc \in {"stopping", "waiting", "ending"}
        PROVE  /\ pc \in {"select", "echo", "stopping", "waiting", "ending", "returned"}
               /\ Execute => AnswerRank' < AnswerRank
               /\ ~Execute => UNCHANGED pc \/ pc' \in {"begin", "dead"}
    <2>1. pc \in {"select", "echo", "stopping", "waiting", "ending", "returned"}
      BY <1>1 DEF IInv, RequestOK
    <2>2. ASSUME Execute
          PROVE  AnswerRank' < AnswerRank
      <3>1. \/ pc = "echo" /\ pc' = "select"
            \/ pc = "select" /\ pc' \in {"ending", "stopping"}
            \/ pc = "stopping" /\ pc' = "waiting"
            \/ pc \in {"waiting", "ending"} /\ pc' = "returned"
        <4>1. CASE Begin \/ Spawn \/ Announce
          BY <2>1, <4>1 DEF Begin, Spawn, Announce
        <4>2. CASE TakeDone \/ TakeRequest
          BY <1>1, <4>2, HandlerAssumption
          DEF TakeDone, TakeRequest, Stops, IInv, TypeOK, Requests
        <4>3. CASE Echo \/ Stopping
          BY <4>3 DEF Echo, Stopping
        <4>4. CASE Ending \/ Stopped \/ TimesOut
          BY <4>4 DEF Ending, Stopped, TimesOut, Return
        <4>5. QED
          BY <2>2, <4>1, <4>2, <4>3, <4>4 DEF Execute
      <3>2. CASE pc = "echo" /\ pc' = "select"
        BY <3>2 DEF AnswerRank
      <3>3. CASE pc = "select" /\ pc' \in {"ending", "stopping"}
        <4>1. AnswerRank = 3
          BY <3>3 DEF AnswerRank
        <4>2. AnswerRank' \in {1, 2}
          BY <3>3 DEF AnswerRank
        <4>3. QED
          BY <4>1, <4>2
      <3>4. CASE pc = "stopping" /\ pc' = "waiting"
        BY <3>4 DEF AnswerRank
      <3>5. CASE pc \in {"waiting", "ending"} /\ pc' = "returned"
        <4>1. AnswerRank = 1
          BY <3>5 DEF AnswerRank
        <4>2. AnswerRank' = 0
          BY <3>5 DEF AnswerRank
        <4>3. QED
          BY <4>1, <4>2
      <3>6. QED
        BY <3>1, <3>2, <3>3, <3>4, <3>5
    <2>3. ASSUME ~Execute
          PROVE  UNCHANGED pc \/ pc' \in {"begin", "dead"}
      BY <1>1, <2>3 DEF Next, RunReturns, Send, Request, ReportStopped, StartService, Die, vars
    <2>4. QED
      BY <2>1, <2>2, <2>3
  <1>2. QED
    BY <1>1, Invariant, PTL DEF Spec, StopIsTaken
=============================================================================
