--------------------------- MODULE ServiceManager ---------------------------
(***************************************************************************)
(* The life of an installed service: the commands administrators give       *)
(* (manager_windows.go, and dispatch of example/agent/main.go), the service *)
(* control manager's database, and the service itself, which is a           *)
(* ServiceHandler whose Run keeps a helper alive.                           *)
(*                                                                          *)
(* `calm` is FALSE while calls to Windows may fail and processes may be     *)
(* killed.  The deadline of Uninstall may pass at any time.                 *)
(***************************************************************************)
EXTENDS Naturals, FiniteSets

CONSTANTS
    Admins,                        \* people, or tools, at a command line
    RestartDelay,                  \* Config.RestartDelay
    heeds, NoRequest, NoResult     \* as in ServiceHandler

ASSUME ManagerAssumption ==
    /\ RestartDelay \in Nat
    /\ IsFiniteSet(Admins)
    /\ heeds \subseteq BOOLEAN /\ heeds # {}
    /\ NoRequest \notin {"stop", "shutdown", "preshutdown", "interrogate", "other"}
    /\ NoResult \notin [err : {"nil", "canceled", "error"}, stopped : BOOLEAN]

VARIABLES
    obeys, status, request, pc, code, ctxDone, run, result, done, logged,

    entry,       \* the service in the manager's database
    recovery,    \* its recovery actions: none, for crashes only, for any failure
    source,      \* whether the event source is registered
    handles,     \* open handles of the service
    due,         \* a recovery action is about to start the service again
    helpers,     \* helper trees alive: this process's, a former process's
    at, how,     \* where each command is, and how its stop went
    answer,      \* what the last command of each said of a removal
    calm,
    restarted,   \* history: commands under which the service was started again
    botched      \* history: an install went wrong and could not be undone

handler == <<obeys, status, request, pc, code, ctxDone, run, result, done, logged>>
database == <<entry, recovery, source>>
command == <<at, how, answer>>
history == <<restarted, botched>>
vars == <<handler, database, handles, due, helpers, command, calm, history>>

H == INSTANCE ServiceHandler

-----------------------------------------------------------------------------
Installing == {"recovery", "flag", "source", "clear", "undo"}
Uninstalling == {"ask", "again", "delete", "remove"}
Holding == Installing \cup Uninstalling

Goto(a, place) == at' = [at EXCEPT ![a] = place]

\* s.Close, deferred: the command is over, and says what.
Leave(a, said) ==
    /\ handles' = handles - 1
    /\ Goto(a, "idle")
    /\ how' = [how EXCEPT ![a] = "none"]
    /\ answer' = [answer EXCEPT ![a] = said]
    /\ restarted' = restarted \ {a}

\* The manager runs the service's executable.  A process on its way out
\* may still have its helper.
Launch ==
    /\ entry = "registered"
    /\ H!StartService
    /\ helpers' = IF helpers = {} THEN {} ELSE {"former"}
    /\ restarted' = {a \in Admins : at[a] \in {"delete", "remove"}}

-----------------------------------------------------------------------------
(* Commands.                                                                *)

\* A double-click: what to do is decided before anybody consents to it.  A
\* Status that fails looks like a missing service.
Manage(a) ==
    /\ at[a] = "idle"
    /\ \/ entry # "absent" /\ Goto(a, "toUninstall")
       \/ (entry = "absent" \/ ~calm) /\ Goto(a, "toInstall")
    /\ answer' = [answer EXCEPT ![a] = "none"]
    /\ UNCHANGED <<handler, database, handles, due, helpers, how, calm, history>>

Command(a) ==
    /\ at[a] = "idle"
    /\ \E place \in {"toInstall", "toUninstall", "start"} : Goto(a, place)
    /\ answer' = [answer EXCEPT ![a] = "none"]
    /\ UNCHANGED <<handler, database, handles, due, helpers, how, calm, history>>

\* Stop: a stop on its way makes another one redundant.
StopCommand(a) ==
    /\ at[a] = "idle"
    /\ H!Request /\ request' = "stop"
    /\ UNCHANGED <<database, handles, due, helpers, command, calm, history>>

\* Elevate fails or is cancelled, the manager cannot be reached, or the service
\* is not in the state the command needs.
Refused(a) ==
    /\ at[a] \in {"toInstall", "toUninstall"}
    /\ Goto(a, "idle")
    /\ UNCHANGED <<handler, database, handles, due, helpers, how, answer, calm, history>>

-----------------------------------------------------------------------------
(* Install, and the Start that follows it.                                  *)

CreateService(a) ==
    /\ at[a] = "toInstall" /\ entry = "absent"
    /\ entry' = "registered"
    /\ handles' = handles + 1
    /\ Goto(a, IF RestartDelay > 0 THEN "recovery" ELSE "source")
    /\ UNCHANGED <<handler, recovery, source, due, helpers, how, answer, calm, history>>

\* Mutant: a step that fails just returns.
SetRecoveryNoUndo(a) ==
    /\ at[a] = "recovery"
    /\ \/ /\ entry = "registered"
          /\ recovery' = "crash"
          /\ Goto(a, "flag")
          /\ UNCHANGED <<handles, how, answer, restarted>>
       \/ /\ entry # "registered" \/ ~calm
          /\ UNCHANGED recovery
          /\ Leave(a, "none")
    /\ UNCHANGED <<handler, entry, source, due, helpers, calm, botched>>

SetRecoveryActions(a) ==
    /\ at[a] = "recovery"
    /\ \/ /\ entry = "registered"
          /\ recovery' = "crash"
          /\ Goto(a, "flag")
       \/ /\ entry # "registered" \/ ~calm
          /\ UNCHANGED recovery
          /\ Goto(a, "undo")
    /\ UNCHANGED <<handler, entry, source, handles, due, helpers, how, answer, calm, history>>

\* Mutant: recovery is not asked for on failures that report Stopped.
SetNoFlag(a) ==
    /\ at[a] = "flag"
    /\ Goto(a, "source")
    /\ UNCHANGED <<handler, database, handles, due, helpers, how, answer, calm, history>>

SetNonCrashFlag(a) ==
    /\ at[a] = "flag"
    /\ \/ /\ entry = "registered"
          /\ recovery' = "full"
          /\ Goto(a, "source")
       \/ /\ entry # "registered" \/ ~calm
          /\ UNCHANGED recovery
          /\ Goto(a, "undo")
    /\ UNCHANGED <<handler, entry, source, handles, due, helpers, how, answer, calm, history>>

\* Registering needs no service, and a source that is there will do.  It may
\* fail after it has written its key.
InstallAsEventCreate(a) ==
    /\ at[a] = "source"
    /\ \/ /\ source' = TRUE
          /\ handles' = handles - 1
          /\ Goto(a, "start")
       \/ /\ ~calm
          /\ source' \in {source, TRUE}
          /\ Goto(a, "clear")
          /\ UNCHANGED handles
    /\ UNCHANGED <<handler, entry, recovery, due, helpers, how, answer, calm, history>>

ClearSource(a) ==
    /\ at[a] = "clear"
    /\ source' = FALSE \/ (~calm /\ UNCHANGED source)
    /\ Goto(a, "undo")
    /\ UNCHANGED <<handler, entry, recovery, handles, due, helpers, how, answer, calm, history>>

\* Mutants: the handle is closed by hand and then again by the defer, or never.
UndoClosesTwice(a) ==
    /\ at[a] = "undo"
    /\ entry' = "marked"
    /\ Goto(a, "idle") /\ handles' = handles - 2
    /\ UNCHANGED <<handler, recovery, source, due, helpers, how, answer, calm, history>>

UndoKeepsHandle(a) ==
    /\ at[a] = "undo"
    /\ entry' = "marked"
    /\ Goto(a, "idle")
    /\ UNCHANGED <<handler, recovery, source, handles, due, helpers, how, answer, calm, history>>

\* fail: the new service is deleted; a deletion that is refused is ignored.
Undo(a) ==
    /\ at[a] = "undo"
    /\ \/ entry' = "marked" /\ UNCHANGED botched
       \/ ~calm /\ UNCHANGED entry /\ botched' = (botched \/ entry = "registered")
    /\ Leave(a, "none")
    /\ UNCHANGED <<handler, recovery, source, due, helpers, calm>>

Start(a) ==
    /\ at[a] = "start"
    /\ Goto(a, "idle")
    /\ \/ Launch
       \/ /\ entry # "registered" \/ status # "stopped" \/ ~calm
          /\ UNCHANGED <<handler, helpers, restarted>>
    /\ UNCHANGED <<database, handles, due, how, answer, calm, botched>>

-----------------------------------------------------------------------------
(* Uninstall.                                                               *)

\* A service that is marked may or may not be opened.
OpenService(a) ==
    /\ at[a] = "toUninstall" /\ entry # "absent"
    /\ handles' = handles + 1
    /\ Goto(a, "ask")
    /\ UNCHANGED <<handler, database, due, helpers, how, answer, calm, history>>

\* What stopAndWait found out is how[a]; then comes Delete.
GoDelete(a, outcome) ==
    /\ Goto(a, "delete")
    /\ how' = [how EXCEPT ![a] = outcome]
    /\ UNCHANGED <<handler, answer>>

Pending == {"none", "startPending", "stopPending"}

\* Mutant: a refusal is taken for a service that is stopped.
AskTrusting(a) ==
    /\ at[a] \in {"ask", "again"}
    /\ status # "running"
    /\ GoDelete(a, "stopped")
    /\ UNCHANGED <<database, handles, due, helpers, calm, history>>

\* ERROR_SERVICE_NOT_ACTIVE.
AskStopped(a) ==
    /\ at[a] \in {"ask", "again"}
    /\ status = "stopped"
    /\ GoDelete(a, "stopped")
    /\ UNCHANGED <<database, handles, due, helpers, calm, history>>

\* Mutant: the stop is asked for once, and then only waited for.
AskAcceptedOnce(a) ==
    /\ at[a] = "ask"
    /\ status = "running"
    /\ \/ H!Request /\ request' = "stop"
       \/ request # NoRequest /\ UNCHANGED handler
    /\ Goto(a, "again")
    /\ UNCHANGED <<database, handles, due, helpers, how, answer, calm, history>>

\* The stop is accepted; the status that comes with it is still Running.
AskAccepted(a) ==
    /\ at[a] \in {"ask", "again"}
    /\ status = "running"
    /\ \/ H!Request /\ request' = "stop"
       \/ request # NoRequest /\ UNCHANGED handler
    /\ Goto(a, "again")
    /\ UNCHANGED <<database, handles, due, helpers, how, answer, calm, history>>

\* A service between two states refuses the stop; sleep, and ask again.
AskTooEarly(a) ==
    /\ at[a] = "ask" /\ status \in Pending
    /\ Goto(a, "again")
    /\ UNCHANGED <<handler, database, handles, due, helpers, how, answer, calm, history>>

\* Any other error, such as that of a service others depend on.
AskFails(a) ==
    /\ at[a] \in {"ask", "again"} /\ ~calm
    /\ GoDelete(a, "refused")
    /\ UNCHANGED <<database, handles, due, helpers, calm, history>>

\* Mutant: no deadline.
GiveUpNever(a) == FALSE /\ UNCHANGED vars

\* stopWait is over.
GiveUp(a) ==
    /\ at[a] = "again"
    /\ GoDelete(a, "late")
    /\ UNCHANGED <<database, handles, due, helpers, calm, history>>

DeleteOk(a) ==
    /\ at[a] = "delete" /\ entry = "registered"
    /\ entry' = "marked"
    /\ Goto(a, "remove")
    /\ UNCHANGED <<handler, recovery, source, handles, due, helpers, how, answer, calm, history>>

\* Somebody else has deleted it, or the deletion is refused.
DeleteFails(a) ==
    /\ at[a] = "delete"
    /\ entry # "registered" \/ ~calm
    /\ Leave(a, "none")
    /\ UNCHANGED <<handler, database, due, helpers, calm, botched>>

\* The service is gone from the database; what is said depends on the stop.  A
\* source that cannot be removed is all that is said.
RemoveSource(a) ==
    /\ at[a] = "remove"
    /\ \/ /\ source' = FALSE
          /\ Leave(a, IF how[a] = "stopped" THEN "removed" ELSE "mayRun")
       \/ /\ ~calm
          /\ UNCHANGED source
          /\ Leave(a, "noSource")
    /\ UNCHANGED <<handler, entry, recovery, due, helpers, calm, botched>>

-----------------------------------------------------------------------------
(* The manager and the service.                                             *)

\* The recovery action is armed when the service ends and was not stopped.
Arms(failed) ==
    due' = (due \/ (failed /\ recovery = "full"))

RecoveryFires ==
    /\ due /\ due' = FALSE
    /\ \/ Launch
       \/ /\ entry # "registered" \/ status # "stopped"
          /\ UNCHANGED <<handler, helpers, restarted>>
    /\ UNCHANGED <<database, handles, command, calm, botched>>

\* A service that is marked goes when nobody holds it and it does not run.
Forget ==
    /\ entry = "marked" /\ handles = 0 /\ status = "stopped"
    /\ entry' = "absent" /\ recovery' = "none" /\ due' = FALSE /\ botched' = FALSE
    /\ UNCHANGED <<handler, source, handles, helpers, command, calm, restarted>>

\* Execute, and the goroutine's send.
Execute ==
    /\ H!Execute \/ H!Send
    /\ UNCHANGED <<database, handles, due, helpers, command, calm, history>>

\* Run has closed its helper when it returns, unless it panics.
RunReturns ==
    /\ H!RunReturns
    /\ \/ helpers' = helpers \ {"own"}
       \/ result'.err = "error" /\ UNCHANGED helpers
    /\ UNCHANGED <<database, handles, due, command, calm, history>>

ReportStopped ==
    /\ H!ReportStopped
    /\ Arms(code = "failed")
    /\ UNCHANGED <<database, handles, helpers, command, calm, history>>

\* main returns, or, while it may, the process is killed; its jobs are closed.
Die ==
    /\ ~calm \/ status = "stopped"
    /\ H!Die
    /\ due' = (due \/ (status # "stopped" /\ recovery # "none"))
    /\ helpers' = helpers \ {"own"}
    /\ UNCHANGED <<database, handles, command, calm, history>>

\* The helper starts and ends, with sessions and of its own accord; that of a
\* former process ends with it.
Helper ==
    /\ \/ run = "running" /\ helpers' = helpers \cup {"own"}
       \/ helpers' \in {helpers \ {"own"}, helpers \ {"former"}}
    /\ UNCHANGED <<handler, database, handles, due, command, calm, history>>

\* A command is killed; Windows closes its handles.
AdminDies(a) ==
    /\ ~calm /\ at[a] # "idle"
    /\ Goto(a, "idle")
    /\ handles' = IF at[a] \in Holding THEN handles - 1 ELSE handles
    /\ how' = [how EXCEPT ![a] = "none"]
    /\ restarted' = restarted \ {a}
    /\ botched' = (botched \/ (at[a] \in Installing /\ entry = "registered"))
    /\ UNCHANGED <<handler, database, due, helpers, answer, calm>>

Settle ==
    /\ ~calm /\ calm' = TRUE
    /\ UNCHANGED <<handler, database, handles, due, helpers, command, history>>

-----------------------------------------------------------------------------
Init ==
    /\ H!Init
    /\ entry = "absent" /\ recovery = "none"
    /\ source \in BOOLEAN
    /\ handles = 0
    /\ due = FALSE /\ helpers = {}
    /\ at = [a \in Admins |-> "idle"]
    /\ how = [a \in Admins |-> "none"]
    /\ answer = [a \in Admins |-> "none"]
    /\ calm = FALSE
    /\ restarted = {} /\ botched = FALSE

Install(a) == \/ CreateService(a) \/ SetRecoveryActions(a) \/ SetNonCrashFlag(a)
              \/ InstallAsEventCreate(a) \/ ClearSource(a) \/ Undo(a) \/ Start(a)

Uninstall(a) == \/ OpenService(a) \/ AskStopped(a) \/ AskAccepted(a) \/ AskTooEarly(a)
                \/ AskFails(a) \/ DeleteOk(a) \/ DeleteFails(a) \/ RemoveSource(a)

Commands(a) == Manage(a) \/ Command(a) \/ StopCommand(a) \/ Refused(a) \/ AdminDies(a)

Service == Execute \/ RunReturns \/ ReportStopped \/ Die \/ Helper

Next == \/ \E a \in Admins : Install(a) \/ Uninstall(a) \/ GiveUp(a) \/ Commands(a)
        \/ Service \/ RecoveryFires \/ Forget \/ Settle

Spec == Init /\ [][Next]_vars

\* A command that was consented to runs on, and so do the handler and the
\* manager.  In a calm system stopWait need not pass before the service stops.
FairSpec ==
    /\ Spec
    /\ \A a \in Admins : WF_vars(at[a] \in Holding \cup {"start"} /\ (Install(a) \/ Uninstall(a)))
                         /\ WF_vars(~calm /\ GiveUp(a))
    /\ WF_vars(Execute) /\ WF_vars(ReportStopped)
    /\ WF_vars(RecoveryFires) /\ WF_vars(Forget)

-----------------------------------------------------------------------------
TypeOK ==
    /\ H!TypeOK
    /\ entry \in {"absent", "registered", "marked"}
    /\ recovery \in {"none", "crash", "full"}
    /\ source \in BOOLEAN /\ due \in BOOLEAN /\ calm \in BOOLEAN /\ botched \in BOOLEAN
    /\ handles \in Nat
    /\ helpers \subseteq {"own", "former"}
    /\ at \in [Admins -> Holding \cup {"idle", "toInstall", "toUninstall", "start"}]
    /\ how \in [Admins -> {"none", "stopped", "late", "refused"}]
    /\ answer \in [Admins -> {"none", "removed", "mayRun", "noSource"}]
    /\ restarted \subseteq Admins

Complete == source /\ (RestartDelay > 0 => recovery = "full")

\* A service that is registered with nobody in the middle of installing it has
\* everything Install gives it, whatever failed and whoever else installed or
\* uninstalled meanwhile; only an undo that is refused, or an installer that is
\* killed, leaves a half-installed one (Install, fail, manager_windows.go:72-102).
InstalledIsComplete ==
    entry = "registered" /\ (\A a \in Admins : at[a] \notin Installing) => Complete \/ botched

\* When the manager is told Stopped while the helper still lives, the log says that
\* Run was not waited for or did not end well (service_windows.go:75-87).
StoppedHelperIsLogged == status = "stopped" /\ "own" \in helpers => logged # {}

\* Uninstall's nil is never a refusal mistaken for a stop: the service stopped
\* while it was asked, and it still stands unless somebody started it again between
\* that and the deletion (stopAndWait, manager_windows.go:155-189).  Its helper is
\* then gone or in the log, by StoppedHelperIsLogged.
NilMeansItStopped ==
    [][\A a \in Admins : at[a] = "remove" /\ answer'[a] = "removed" =>
          status = "stopped" \/ a \in restarted]_vars

\* A recovery action is armed only for a process that died or a Run that failed
\* before anybody stopped it: no stop is undone by the manager
\* (manager_windows.go:87-91, service_windows.go:71-74).
StopIsNotUndone ==
    [][~due /\ due' /\ pc' = "returned" => code = "failed" /\ result.err # "nil" /\ ~result.stopped]_vars

\* A service that fails is started again, when it was completely installed and
\* nobody removes it meanwhile (SetRecoveryActionsOnNonCrashFailures).
FailureIsRestarted ==
    pc = "returned" /\ code = "failed" /\ status # "stopped"
    /\ entry = "registered" /\ RestartDelay > 0 /\ (\A a \in Admins : at[a] \notin Installing) /\ ~botched
       ~> pc = "begin" \/ entry # "registered"

\* In a calm system the stop of Uninstall gets through, even to a service that is
\* still starting when it is first asked (stopAndWait asks again).
StopGetsThrough ==
    \A a \in Admins : at[a] \in {"ask", "again"} /\ calm
                         ~> status = "stopped" \/ at[a] \notin {"ask", "again"}

\* Uninstall returns, whatever the service does (stopWait), as does Install.
CommandReturns == \A a \in Admins : at[a] \in Holding ~> at[a] \notin Holding \/ calm

\* Every path of Install and Uninstall closes its handle: once the commands are
\* over, a removed service that has stopped disappears, so that it can be
\* installed again (the deferred Close).
RemovalCompletes ==
    <>[](\A a \in Admins : at[a] = "idle") => <>[](entry = "marked" => status # "stopped")

-----------------------------------------------------------------------------
\* manager_windows.go:128-131: Uninstall waits for the service to stop, so by the
\* time it returns nil the old helper is gone and its file unlocked.
HelperIsGone ==
    [][\A a \in Admins : at[a] = "remove" /\ answer'[a] = "removed" => helpers = {}]_vars
=============================================================================
