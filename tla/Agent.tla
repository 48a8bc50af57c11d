------------------------------- MODULE Agent -------------------------------
(***************************************************************************)
(* The process of an installed agent (the "run" command of                  *)
(* example/agent/main.go): Execute of service_windows.go over the Run of     *)
(* supervisor.go, with one context between them.  What ServiceHandler takes   *)
(* for any Service is here the Supervisor, and what Supervisor takes for a    *)
(* stop is here Execute's cancel.                                            *)
(*                                                                          *)
(* A process that ends takes its Run and its payload with it, before the     *)
(* manager starts the next.  Anything may fail at any time.                  *)
(***************************************************************************)
EXTENDS Integers

CONSTANTS
    MaxDuration, Configs, Session, Console, NoSession, User, NoUser, TokenOf,
    NoRequest, NoResult

VARIABLES
    status, request, at, code, ctxDone, run, result, done, logged,
    conf, demands, users, active, pc, checked, wait, backoff, elevate, sid,
    jobs, rights, alive, healthy,
    obeys, calm    \* fixed: Run heeds its context, and failures never cease

handler == <<obeys, status, request, at, code, ctxDone, run, result, done, logged>>
supervisor == <<conf, demands, users, active, calm, pc, checked, wait, backoff, elevate, sid,
                jobs, rights, alive, healthy>>
vars == <<handler, supervisor>>

\* How Run ended is what runRecovered hands over.
exit == IF result = NoResult THEN "none" ELSE result.err

H == INSTANCE ServiceHandler WITH heeds <- {TRUE}, pc <- at
S == INSTANCE Supervisor WITH cancelled <- ctxDone

ASSUME AgentAssumption ==
    /\ H!HandlerAssumption
    /\ S!MaxDurationAssumption /\ S!ConfigAssumption /\ S!SessionAssumption
    /\ S!UserAssumption /\ S!DefaultsAssumption

-----------------------------------------------------------------------------
\* Execute, the dispatcher of svc.Run and the manager.  A cancel reaches Run
\* by way of ctxDone.
Execute ==
    /\ H!Execute
    /\ UNCHANGED supervisor

Send ==
    /\ H!Send
    /\ UNCHANGED supervisor

Manager ==
    /\ H!Request \/ H!ReportStopped \/ (at = "dead" /\ H!StartService)
    /\ UNCHANGED supervisor

\* Run, on its goroutine: its last step is its return.
RunStep ==
    /\ run = "running"
    /\ H!RunReturns \/ UNCHANGED handler
    /\ S!RunStep

Die ==
    /\ H!Die
    /\ S!Restart

\* The payload, and the people.
World ==
    /\ UNCHANGED handler
    /\ \/ S!PayloadExits \/ S!StaysUp
       \/ \E s \in Session : \/ S!SignOut(s) \/ S!Connect(s)
                             \/ \E u \in User : S!SignIn(s, u)

Init == H!Init /\ S!Init

Next == Execute \/ Send \/ Manager \/ RunStep \/ Die \/ World

Spec == Init /\ [][Next]_vars

-----------------------------------------------------------------------------
\* The service exits clean only for a stop: whatever ends Run by itself makes
\* a failure of the exit, so that the recovery action fires
\* (service_windows.go:54-63 with supervisor.go:142-149, 183-189).
CleanExitWasAsked ==
    [][code' = "clean" /\ code # "clean" => at = "waiting"]_vars

\* Once Execute has returned, no payload of this process is left, or the log
\* says that Run was not waited for (service_windows.go:75-87, supervisor.go:243).
ReturnedPayloadIsLogged == at = "returned" /\ jobs > 0 => "warn" \in logged

=============================================================================
