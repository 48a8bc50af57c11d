---------------------------- MODULE AgentProofs ----------------------------
(* Proofs about Agent: it is a ServiceHandler over a Supervisor, so that      *)
(* what is proved of each holds of the process, and what follows from both.  *)
EXTENDS Agent, TLAPS

HP == INSTANCE ServiceHandlerProofs WITH heeds <- {TRUE}, pc <- at
SP == INSTANCE SupervisorProofs WITH cancelled <- ctxDone

-----------------------------------------------------------------------------
(* The instances.                                                           *)

LEMMA HandlerAssumed == HP!HandlerAssumption
  BY AgentAssumption DEF H!HandlerAssumption, HP!HandlerAssumption

LEMMA SupervisorAssumed ==
    /\ SP!MaxDurationAssumption /\ SP!ConfigAssumption /\ SP!SessionAssumption
    /\ SP!UserAssumption /\ SP!DefaultsAssumption
  BY AgentAssumption
  DEF S!MaxDurationAssumption, S!ConfigAssumption, S!SessionAssumption,
      S!UserAssumption, S!DefaultsAssumption,
      SP!MaxDurationAssumption, SP!ConfigAssumption, SP!SessionAssumption,
      SP!UserAssumption, SP!DefaultsAssumption, S!Config, SP!Config, S!Duration, SP!Duration,
      S!Token, SP!Token, S!elevationDefault, SP!elevationDefault, S!elevationFull,
      SP!elevationFull, S!elevationLimited, SP!elevationLimited

\* The definitions of the two instances are the same.
LEMMA SameHandler ==
    /\ H!Init <=> HP!Init
    /\ H!Execute <=> HP!Execute
    /\ H!RunReturns <=> HP!RunReturns
    /\ H!Send <=> HP!Send
    /\ H!Request <=> HP!Request
    /\ H!ReportStopped <=> HP!ReportStopped
    /\ H!StartService <=> HP!StartService
    /\ H!Die <=> HP!Die
  <1>1. H!Init <=> HP!Init
    BY DEF H!Init, HP!Init
  <1>2. H!Execute <=> HP!Execute
    BY DEF H!Execute, HP!Execute, H!Begin, HP!Begin, H!Spawn, HP!Spawn, H!Announce, HP!Announce,
           H!TakeDone, HP!TakeDone, H!Ending, HP!Ending, H!Return, HP!Return,
           H!TakeRequest, HP!TakeRequest, H!Echo, HP!Echo, H!Stopping, HP!Stopping,
           H!Stopped, HP!Stopped, H!TimesOut, HP!TimesOut, H!goroutine, HP!goroutine,
           H!Stops, HP!Stops
  <1>3. H!RunReturns <=> HP!RunReturns
    BY DEF H!RunReturns, HP!RunReturns, H!Errors, HP!Errors, H!runRecovered, HP!runRecovered
  <1>4. H!Send <=> HP!Send
    BY DEF H!Send, HP!Send
  <1>5. H!Request <=> HP!Request
    BY DEF H!Request, HP!Request, H!Requests, HP!Requests, H!Stops, HP!Stops,
           H!goroutine, HP!goroutine
  <1>6. H!ReportStopped <=> HP!ReportStopped
    BY DEF H!ReportStopped, HP!ReportStopped, H!goroutine, HP!goroutine
  <1>7. H!StartService <=> HP!StartService
    BY DEF H!StartService, HP!StartService
  <1>8. H!Die <=> HP!Die
    BY DEF H!Die, HP!Die
  <1>9. QED
    BY <1>1, <1>2, <1>3, <1>4, <1>5, <1>6, <1>7, <1>8

LEMMA SameRunStep == S!RunStep <=> SP!RunStep
  <1>1. /\ \A c : S!minBackoff(c) = SP!minBackoff(c) /\ S!maxBackoff(c) = SP!maxBackoff(c)
        /\ \A d, max : S!grow(d, max) = SP!grow(d, max)
    BY DEF S!minBackoff, SP!minBackoff, S!maxBackoff, SP!maxBackoff, S!Default, SP!Default,
           S!grow, SP!grow, S!Wrap, SP!Wrap
  <1>2. /\ \A u, e : S!LaunchResult(u, e) = SP!LaunchResult(u, e)
        /\ \A tok, e : S!LaunchesAsAdmin(tok, e) = SP!LaunchesAsAdmin(tok, e)
        /\ \A err, e, off : S!shouldAutoElevate(err, e, off) <=> SP!shouldAutoElevate(err, e, off)
    BY DEF S!LaunchResult, SP!LaunchResult, S!HasElevated, SP!HasElevated,
           S!LaunchesAsAdmin, SP!LaunchesAsAdmin, S!chooseElevation, SP!chooseElevation,
           S!elevationFull, SP!elevationFull, S!elevationLimited, SP!elevationLimited,
           S!shouldAutoElevate, SP!shouldAutoElevate
  <1>3. S!ReadySessions = SP!ReadySessions
    BY DEF S!ReadySessions, SP!ReadySessions, S!SignedIn, SP!SignedIn
  <1> USE DEF S!Goto, SP!Goto, S!Return, SP!Return, S!machine, SP!machine, S!process, SP!process,
              S!memory, SP!memory
  <1>4. S!Start <=> SP!Start
    BY DEF S!Start, SP!Start, S!minWait, SP!minWait
  <1>5. S!CheckStopped <=> SP!CheckStopped
    BY DEF S!CheckStopped, SP!CheckStopped
  <1>6. S!CheckPasses <=> SP!CheckPasses
    BY DEF S!CheckPasses, SP!CheckPasses
  <1>7. S!CheckFails <=> SP!CheckFails
    BY DEF S!CheckFails, SP!CheckFails
  <1>8. S!CheckAgain <=> SP!CheckAgain
    BY <1>1 DEF S!CheckAgain, SP!CheckAgain, S!maxWait, SP!maxWait
  <1>9. S!Stat <=> SP!Stat
    BY <1>1 DEF S!Stat, SP!Stat
  <1>10. S!Loop <=> SP!Loop
    BY DEF S!Loop, SP!Loop
  <1>11. S!SessionReady <=> SP!SessionReady
    BY <1>3 DEF S!SessionReady, SP!SessionReady
  <1>12. S!SessionStopped <=> SP!SessionStopped
    BY DEF S!SessionStopped, SP!SessionStopped
  <1>13. S!SessionUnsupported <=> SP!SessionUnsupported
    BY DEF S!SessionUnsupported, SP!SessionUnsupported
  <1>14. S!LaunchOk <=> SP!LaunchOk
    BY <1>2 DEF S!LaunchOk, SP!LaunchOk
  <1>15. S!LaunchFails <=> SP!LaunchFails
    BY <1>2 DEF S!LaunchFails, SP!LaunchFails, S!Results, SP!Results
  <1>16. S!SignInAgain <=> SP!SignInAgain
    BY DEF S!SignInAgain, SP!SignInAgain
  <1>17. S!DelayOver <=> SP!DelayOver
    BY <1>1 DEF S!DelayOver, SP!DelayOver
  <1>18. S!WaitEnds <=> SP!WaitEnds
    BY DEF S!WaitEnds, SP!WaitEnds
  <1>19. S!Close <=> SP!Close
    BY <1>1 DEF S!Close, SP!Close, S!NoRights, SP!NoRights
  <1>20. S!SleepStopped <=> SP!SleepStopped
    BY DEF S!SleepStopped, SP!SleepStopped
  <1>21. QED
    BY <1>4, <1>5, <1>6, <1>7, <1>8, <1>9, <1>10, <1>11, <1>12,
       <1>13, <1>14, <1>15, <1>16, <1>17, <1>18, <1>19, <1>20
    DEF S!RunStep, SP!RunStep

LEMMA SameEnvironment ==
    /\ S!Init <=> SP!Init
    /\ S!Stop <=> SP!Stop
    /\ S!Restart <=> SP!Restart
    /\ S!Settle <=> SP!Settle
    /\ S!PayloadExits <=> SP!PayloadExits
    /\ S!StaysUp <=> SP!StaysUp
    /\ \A s : /\ S!SignOut(s) <=> SP!SignOut(s)
              /\ S!Connect(s) <=> SP!Connect(s)
              /\ \A u : S!SignIn(s, u) <=> SP!SignIn(s, u)
  <1> USE DEF S!machine, SP!machine, S!process, SP!process, S!memory, SP!memory,
              S!SignedIn, SP!SignedIn
  <1>1. S!Init <=> SP!Init
    BY DEF S!Init, SP!Init, S!NoRights, SP!NoRights
  <1>2. (S!Stop <=> SP!Stop) /\ (S!Restart <=> SP!Restart) /\ (S!Settle <=> SP!Settle)
    BY DEF S!Stop, SP!Stop, S!Restart, SP!Restart, S!Settle, SP!Settle, S!NoRights, SP!NoRights
  <1>3. (S!PayloadExits <=> SP!PayloadExits) /\ (S!StaysUp <=> SP!StaysUp)
    BY DEF S!PayloadExits, SP!PayloadExits, S!StaysUp, SP!StaysUp
  <1>4. \A s : /\ S!SignOut(s) <=> SP!SignOut(s)
               /\ S!Connect(s) <=> SP!Connect(s)
               /\ \A u : S!SignIn(s, u) <=> SP!SignIn(s, u)
    BY DEF S!SignOut, SP!SignOut, S!Connect, SP!Connect, S!SignIn, SP!SignIn
  <1>5. QED
    BY <1>1, <1>2, <1>3, <1>4

-----------------------------------------------------------------------------
(* The components.                                                          *)

\* A step of the process is a step of the handler or leaves it alone.
LEMMA HandlerSteps ==
    ASSUME [Next]_vars
    PROVE  \/ H!Execute \/ H!Send \/ H!RunReturns \/ H!Request \/ H!ReportStopped
           \/ H!StartService \/ H!Die
           \/ UNCHANGED handler
  BY DEF Next, Execute, Send, Manager, RunStep, Die, World, vars

LEMMA HandlerInvariant ==
    ASSUME HP!IInv, [Next]_vars
    PROVE  HP!IInv'
  <1>1. CASE H!Execute
    BY <1>1, SameHandler, HandlerAssumed, HP!ExecuteInvariant
  <1>2. CASE UNCHANGED handler
    <2>1. UNCHANGED HP!vars
      BY <1>2 DEF handler, HP!vars
    <2>2. QED
      BY <2>1, HandlerAssumed, HP!OthersInvariant
  <1>3. CASE ~H!Execute /\ ~UNCHANGED handler
    BY <1>3, HandlerSteps, SameHandler, HandlerAssumed, HP!OthersInvariant
  <1>4. QED
    BY <1>1, <1>2, <1>3

\* Execute touches the context only to cancel it, and leaves Run's result alone.
LEMMA ExecuteCancels ==
    ASSUME HP!IInv, H!Execute
    PROVE  /\ UNCHANGED result
           /\ UNCHANGED ctxDone \/ (~ctxDone /\ ctxDone' = TRUE)
  <1>1. ctxDone \in BOOLEAN
    BY DEF HP!IInv, HP!TypeOK
  <1>2. QED
    BY <1>1 DEF H!Execute, H!Begin, H!Spawn, H!Announce, H!TakeDone, H!Ending, H!TakeRequest,
       H!Echo, H!Stopping, H!Stopped, H!TimesOut, H!Return, H!goroutine

\* A step of the process is a step of Run or of what Run sees of the rest, or
\* leaves it alone: Execute's cancel is the stop, the end of the process the restart.
LEMMA SupervisorSteps ==
    ASSUME HP!IInv, [Next]_vars
    PROVE  S!RunStep \/ S!Environment \/ UNCHANGED S!vars
  <1>1. CASE Execute
    <2>1. CASE UNCHANGED ctxDone
      BY <1>1, <2>1, ExecuteCancels DEF Execute, supervisor, S!vars, exit
    <2>2. CASE ~ctxDone /\ ctxDone' = TRUE
      <3>1. S!Stop
        BY <1>1, <2>2, ExecuteCancels
        DEF Execute, supervisor, S!Stop, S!machine, S!process, S!memory, exit
      <3>2. QED
        BY <3>1 DEF S!Environment
    <2>3. QED
      BY <1>1, <2>1, <2>2, ExecuteCancels DEF Execute
  <1>2. CASE Send
    BY <1>2 DEF Send, H!Send, supervisor, S!vars, exit
  <1>3. CASE Manager
    <2>1. CASE at = "dead" /\ H!StartService
      <3>1. ctxDone = FALSE /\ result = NoResult
        BY <2>1 DEF HP!IInv, HP!TypeOK, HP!GoroutineOK
      <3>2. UNCHANGED <<ctxDone, result>>
        BY <2>1, <3>1 DEF H!StartService
      <3>3. QED
        BY <1>3, <3>2 DEF Manager, supervisor, S!vars, exit
    <2>2. CASE H!Request \/ H!ReportStopped
      BY <1>3, <2>2 DEF Manager, H!Request, H!ReportStopped, H!goroutine, supervisor, S!vars, exit
    <2>3. QED
      BY <1>3, <2>1, <2>2 DEF Manager
  <1>4. CASE RunStep
    BY <1>4 DEF RunStep
  <1>5. CASE Die
    BY <1>5 DEF Die, S!Environment
  <1>6. CASE World
    BY <1>6 DEF World, S!Environment
  <1>7. CASE UNCHANGED vars
    BY <1>7 DEF vars, handler, supervisor, S!vars, exit
  <1>8. QED
    BY <1>1, <1>2, <1>3, <1>4, <1>5, <1>6, <1>7 DEF Next

\* The process's Execute behaves as ServiceHandler says.
THEOREM AgentIsHandler == Spec => H!Spec
  <1>1. Init => H!Init
    BY DEF Init
  <1>2. ASSUME [Next]_vars PROVE [H!Next]_(H!vars)
    BY <1>2, HandlerSteps DEF H!Next, handler, H!vars
  <1>3. QED
    BY <1>1, <1>2, PTL DEF Spec, H!Spec

LEMMA HandlerInvariantHolds == Spec => []HP!IInv
  <1>1. Init => HP!IInv
    BY SameHandler, HandlerAssumed, HP!InitInvariant DEF Init
  <1>2. HP!IInv /\ [Next]_vars => HP!IInv'
    BY HandlerInvariant
  <1>3. QED
    BY <1>1, <1>2, PTL DEF Spec

\* The process's Run behaves as Supervisor says: what stops it is what Execute
\* does to its context.
THEOREM AgentIsSupervisor == Spec => S!Spec
  <1>1. Init => S!Init
    BY DEF Init
  <1>2. ASSUME HP!IInv, [Next]_vars PROVE [S!Next]_(S!vars)
    BY <1>2, SupervisorSteps DEF S!Next
  <1>3. QED
    BY <1>1, <1>2, HandlerInvariantHolds, PTL DEF Spec, S!Spec

-----------------------------------------------------------------------------
(* The invariant.                                                           *)

\* The goroutine and Run: Run has not begun before the goroutine is there, and
\* has a result exactly when it is over.
RunOK ==
    /\ run = "none" => pc = "start"
    /\ run = "running" => pc # "exited"
    /\ run \in {"sending", "gone"} => pc = "exited"

IInv == HP!IInv /\ SP!IInv /\ RunOK

\* Run's side of the invariant.
LEMMA SupervisorInvariant ==
    ASSUME HP!IInv, SP!IInv, [Next]_vars
    PROVE  SP!IInv'
  <1>1. CASE S!RunStep
    BY <1>1, SameRunStep, SupervisorAssumed, SP!RunInvariant
  <1>2. CASE S!Environment
    <2>1. SP!Environment
      BY <1>2, SameEnvironment DEF S!Environment, SP!Environment
    <2>2. QED
      BY <2>1, SupervisorAssumed, SP!EnvironmentInvariant
  <1>3. CASE UNCHANGED S!vars
    <2>1. UNCHANGED SP!vars
      BY <1>3 DEF S!vars, SP!vars
    <2>2. QED
      BY <2>1, SupervisorAssumed, SP!NextInvariant
  <1>4. QED
    BY <1>1, <1>2, <1>3, SupervisorSteps

LEMMA RunKept ==
    ASSUME IInv, [Next]_vars
    PROVE  RunOK'
  <1> USE DEF RunOK
  <1>1. CASE Execute
    BY <1>1 DEF Execute, supervisor, IInv, H!Execute, H!Begin, H!Spawn, H!Announce, H!TakeDone,
       H!Ending, H!TakeRequest, H!Echo, H!Stopping, H!Stopped, H!TimesOut, H!Return, H!goroutine,
       HP!IInv, HP!GoroutineOK
  <1>2. CASE Send
    BY <1>2 DEF Send, H!Send, supervisor, IInv
  <1>3. CASE Manager
    BY <1>3 DEF Manager, H!Request, H!ReportStopped, H!StartService, H!goroutine, supervisor,
       IInv, HP!IInv, HP!GoroutineOK
  <1>4. CASE RunStep
    <2>1. /\ pc # "exited" /\ run = "running" /\ result = NoResult
          /\ \/ pc' # "exited" /\ exit' = exit
             \/ pc' = "exited" /\ exit' \in {"nil", "error"}
      BY <1>4, SameRunStep, SP!RunGoesOnOrEnds, SupervisorAssumed
      DEF RunStep, IInv, HP!IInv, HP!GoroutineOK
    <2>2. CASE UNCHANGED handler
      BY <2>1, <2>2 DEF handler, exit
    <2>3. CASE H!RunReturns
      <3>1. run' = "sending" /\ result' # NoResult /\ result'.err # "none"
        <4>1. PICK outcome \in H!Errors \cup {"panic"} :
                 result' = [err |-> H!runRecovered(outcome), stopped |-> ctxDone]
          BY <2>3 DEF H!RunReturns
        <4>2. H!runRecovered(outcome) \in {"nil", "canceled", "error"} /\ ctxDone \in BOOLEAN
          BY DEF H!runRecovered, H!Errors, IInv, HP!IInv, HP!TypeOK
        <4>3. result' # NoResult
          BY <4>1, <4>2, HandlerAssumed DEF HP!HandlerAssumption
        <4>4. QED
          BY <2>3, <4>1, <4>2, <4>3 DEF H!RunReturns
      <3>2. QED
        BY <2>1, <3>1 DEF exit
    <2>4. QED
      BY <1>4, <2>2, <2>3 DEF RunStep
  <1>5. CASE Die
    BY <1>5 DEF Die, H!Die, S!Restart
  <1>6. CASE World
    BY <1>6 DEF World, handler, IInv, S!PayloadExits, S!StaysUp, S!SignOut, S!Connect, S!SignIn
  <1>7. CASE UNCHANGED vars
    BY <1>7 DEF vars, handler, supervisor, IInv
  <1>8. QED
    BY <1>1, <1>2, <1>3, <1>4, <1>5, <1>6, <1>7 DEF Next

THEOREM Invariant == Spec => []IInv
  <1>1. Init => IInv
    <2>1. ASSUME Init PROVE HP!IInv /\ SP!IInv
      BY <2>1, SameHandler, SameEnvironment, HandlerAssumed, SupervisorAssumed,
         HP!InitInvariant, SP!InitInvariant DEF Init
    <2>2. ASSUME Init PROVE RunOK
      BY <2>2 DEF Init, H!Init, S!Init, RunOK
    <2>3. QED
      BY <2>1, <2>2 DEF IInv
  <1>2. IInv /\ [Next]_vars => IInv'
    BY HandlerInvariant, SupervisorInvariant, RunKept DEF IInv
  <1>3. QED
    BY <1>1, <1>2, PTL DEF Spec

-----------------------------------------------------------------------------
(* The theorems.                                                            *)

\* A service that nobody stopped never says that it ended well.
THEOREM CleanExitAsked == Spec => CleanExitWasAsked
  <1>1. ASSUME IInv, [Next]_vars, code' = "clean", code # "clean"
        PROVE  at = "waiting"
    <2>1. H!Execute
      BY <1>1, HandlerSteps DEF H!Send, H!RunReturns, H!Request, H!ReportStopped, H!StartService,
                                H!Die, handler
    <2>2. at = "waiting" \/ (at = "ending" /\ result.err = "nil")
      BY <1>1, <2>1 DEF H!Execute, H!Begin, H!Spawn, H!Announce, H!TakeDone, H!Ending,
         H!TakeRequest, H!Echo, H!Stopping, H!Stopped, H!TimesOut, H!Return
    <2>3. ASSUME at = "ending" PROVE result.err # "nil"
      <3>1. ~ctxDone /\ result # NoResult
        BY <1>1, <2>3 DEF IInv, HP!IInv, HP!GoroutineOK, HP!ExecuteOK
      <3>2. exit # "nil"
        BY <1>1, <3>1 DEF IInv, SP!IInv, SP!ExitIsHonest
      <3>3. QED
        BY <3>1, <3>2 DEF exit
    <2>4. QED
      BY <2>2, <2>3
  <1>2. QED
    BY <1>1, Invariant, PTL DEF Spec, CleanExitWasAsked

\* A payload lives only while the goroutine runs.
LEMMA PayloadWithinRun == IInv /\ jobs > 0 => run = "running"
  <1>1. ASSUME IInv, jobs > 0 PROVE run = "running"
    <2>1. pc \in {"wait", "close"}
      BY <1>1 DEF IInv, SP!IInv, SP!OnePayload
    <2>2. run \in {"none", "running", "sending", "gone"}
      BY <1>1 DEF IInv, HP!IInv, HP!TypeOK
    <2>3. QED
      BY <1>1, <2>1, <2>2 DEF IInv, RunOK
  <1>2. QED
    BY <1>1

\* No payload outlives Execute unnoticed.
THEOREM ReturnedPayloadLogged == Spec => []ReturnedPayloadIsLogged
  <1>1. IInv => ReturnedPayloadIsLogged
    <2>1. ASSUME IInv, at = "returned", jobs > 0 PROVE "warn" \in logged
      BY <2>1, PayloadWithinRun DEF IInv, HP!IInv, HP!ExecuteOK
    <2>2. QED
      BY <2>1 DEF ReturnedPayloadIsLogged
  <1>2. QED
    BY <1>1, Invariant, PTL

\* The Supervisor heeds its context, as ServiceHandler asks of a Service: once
\* Execute has cancelled it, Run ends within four steps of its own, whatever
\* the payload and the people do meanwhile.
THEOREM StopHeeded == Spec => SP!StopIsPrompt
  <1>1. S!Init => SP!Init
    BY SameEnvironment
  <1>2. [S!Next]_(S!vars) => [SP!Next]_(SP!vars)
    BY SameRunStep, SameEnvironment
    DEF S!Next, SP!Next, S!Environment, SP!Environment, S!vars, SP!vars
  <1>3. SP!Spec => SP!StopIsPrompt
    BY SupervisorAssumed, SP!StopPrompt
  <1>4. QED
    BY <1>1, <1>2, <1>3, AgentIsSupervisor, PTL DEF S!Spec, SP!Spec
=============================================================================
