------------------------ MODULE ServiceManagerProofs ------------------------
(* Proofs about ServiceManager, for any number of administrators.  What the  *)
(* proofs about ServiceHandler establish is used here as it stands.          *)
EXTENDS ServiceManager, FiniteSetTheorems, TLAPS

HP == INSTANCE ServiceHandlerProofs

-----------------------------------------------------------------------------
(* The invariant.                                                           *)

Holders == {a \in Admins : at[a] \in Holding}

\* Who holds the service keeps it in the database, so that there is one installer
\* at a time, and nobody can install while another removes the source.
EntryOK ==
    /\ entry = "absent" => Holders = {}
    /\ \A a \in Admins : at[a] = "remove" => entry = "marked"
    /\ \A a, b \in Admins : at[a] \in Installing /\ at[b] \in Installing => a = b
    /\ \A a \in Admins : at[a] = "source" /\ entry = "registered" /\ RestartDelay > 0
                            => recovery = "full"

\* A process has a helper while Run runs, and after it only when Run panicked.
HelperOK ==
    "own" \in helpers => /\ run # "none"
                         /\ run \in {"sending", "gone"} => result.err = "error"

\* What Uninstall saw still holds, or somebody started the service since.
StopOK ==
    \A a \in Admins : at[a] \in {"delete", "remove"} /\ how[a] = "stopped" /\ a \notin restarted
                         => status = "stopped"

\* A command has said nothing before it is over.
AnswerOK == \A a \in Admins : at[a] # "idle" => answer[a] = "none"

IInv ==
    /\ HP!IInv /\ TypeOK
    /\ handles = Cardinality(Holders)
    /\ EntryOK /\ InstalledIsComplete /\ HelperOK /\ StopOK /\ AnswerOK

-----------------------------------------------------------------------------
(* The service is a ServiceHandler.                                         *)

LEMMA HandlerAssumed == HP!HandlerAssumption
  BY ManagerAssumption DEF HP!HandlerAssumption

\* The definitions of the two instances are the same.
LEMMA SameHandler ==
    /\ H!Init <=> HP!Init
    /\ H!TypeOK <=> HP!TypeOK
    /\ H!Execute <=> HP!Execute
    /\ H!RunReturns <=> HP!RunReturns
    /\ H!Send <=> HP!Send
    /\ H!Request <=> HP!Request
    /\ H!ReportStopped <=> HP!ReportStopped
    /\ H!StartService <=> HP!StartService
    /\ H!Die <=> HP!Die
  <1>1. H!Init <=> HP!Init
    BY DEF H!Init, HP!Init
  <1>2. H!TypeOK <=> HP!TypeOK
    BY DEF H!TypeOK, HP!TypeOK, H!Requests, HP!Requests, H!Stops, HP!Stops, H!Result, HP!Result,
           H!Errors, HP!Errors
  <1>3. H!Execute <=> HP!Execute
    BY DEF H!Execute, HP!Execute, H!Begin, HP!Begin, H!Spawn, HP!Spawn, H!Announce, HP!Announce,
           H!TakeDone, HP!TakeDone, H!Ending, HP!Ending, H!Return, HP!Return,
           H!TakeRequest, HP!TakeRequest, H!Echo, HP!Echo, H!Stopping, HP!Stopping,
           H!Stopped, HP!Stopped, H!TimesOut, HP!TimesOut, H!goroutine, HP!goroutine,
           H!Stops, HP!Stops
  <1>4. H!RunReturns <=> HP!RunReturns
    BY DEF H!RunReturns, HP!RunReturns, H!Errors, HP!Errors, H!runRecovered, HP!runRecovered
  <1>5. H!Send <=> HP!Send
    BY DEF H!Send, HP!Send
  <1>6. H!Request <=> HP!Request
    BY DEF H!Request, HP!Request, H!Requests, HP!Requests, H!Stops, HP!Stops,
           H!goroutine, HP!goroutine
  <1>7. H!ReportStopped <=> HP!ReportStopped
    BY DEF H!ReportStopped, HP!ReportStopped, H!goroutine, HP!goroutine
  <1>8. H!StartService <=> HP!StartService
    BY DEF H!StartService, HP!StartService
  <1>9. H!Die <=> HP!Die
    BY DEF H!Die, HP!Die
  <1>10. QED
    BY <1>1, <1>2, <1>3, <1>4, <1>5, <1>6, <1>7, <1>8, <1>9

\* A step of the composition is a step of the handler or leaves it alone.
LEMMA HandlerSteps ==
    ASSUME [Next]_vars
    PROVE  \/ H!Execute \/ H!Send \/ H!RunReturns \/ H!Request \/ H!ReportStopped
           \/ H!StartService \/ H!Die
           \/ UNCHANGED handler
  <1>1. CASE UNCHANGED vars
    BY <1>1 DEF vars
  <1>2. ASSUME NEW a \in Admins, Install(a)
        PROVE  H!StartService \/ UNCHANGED handler
    BY <1>2 DEF Install, CreateService, SetRecoveryActions, SetNonCrashFlag,
       InstallAsEventCreate, ClearSource, Undo, Start, Launch
  <1>3. ASSUME NEW a \in Admins, Uninstall(a) \/ GiveUp(a)
        PROVE  H!Request \/ UNCHANGED handler
    BY <1>3 DEF Uninstall, GiveUp, OpenService, AskStopped, AskAccepted, AskTooEarly, AskFails,
       DeleteOk, DeleteFails, RemoveSource, GoDelete
  <1>4. ASSUME NEW a \in Admins, Commands(a)
        PROVE  H!Request \/ UNCHANGED handler
    BY <1>4 DEF Commands, Manage, Command, StopCommand, Refused, AdminDies
  <1>5. CASE Service
    BY <1>5 DEF Service, Execute, RunReturns, ReportStopped, Die, Helper
  <1>6. CASE RecoveryFires \/ Forget \/ Settle
    BY <1>6 DEF RecoveryFires, Forget, Settle, Launch
  <1>7. QED
    BY <1>1, <1>2, <1>3, <1>4, <1>5, <1>6 DEF Next

LEMMA HandlerInvariant ==
    ASSUME HP!IInv, [Next]_vars
    PROVE  HP!IInv'
  <1>1. CASE H!Execute
    BY <1>1, SameHandler, HandlerAssumed, HP!ExecuteInvariant
  <1>2. CASE UNCHANGED handler
    <2>1. UNCHANGED HP!vars
      BY <1>2 DEF handler, HP!vars
    <2>2. QED
      BY <2>1, HandlerAssumed, HP!OthersInvariant
  <1>3. CASE ~H!Execute /\ ~UNCHANGED handler
    BY <1>3, HandlerSteps, SameHandler, HandlerAssumed, HP!OthersInvariant
  <1>4. QED
    BY <1>1, <1>2, <1>3

\* Whatever administrators and the manager do, the service behaves as
\* ServiceHandler says, so that everything shown there holds here.
THEOREM ServiceIsHandler == Spec => H!Spec
  <1>1. Init => H!Init
    BY DEF Init
  <1>2. ASSUME [Next]_vars PROVE [H!Next]_(H!vars)
    BY <1>2, HandlerSteps DEF H!Next, handler, H!vars
  <1>3. QED
    BY <1>1, <1>2, PTL DEF Spec, H!Spec

-----------------------------------------------------------------------------
(* Handles.                                                                 *)

\* Going to a place changes who holds the service, and how many they are.
LEMMA HoldersChange ==
    ASSUME TypeOK, NEW a \in Admins, NEW place, Goto(a, place),
           handles = Cardinality(Holders)
    PROVE  /\ place \in Holding <=> at[a] \in Holding => Cardinality(Holders') = handles
           /\ place \in Holding /\ at[a] \notin Holding => Cardinality(Holders') = handles + 1
           /\ place \notin Holding /\ at[a] \in Holding => Cardinality(Holders') = handles - 1
  <1>1. IsFiniteSet(Holders)
    BY ManagerAssumption, FS_Subset DEF Holders
  <1>2. CASE place \in Holding <=> at[a] \in Holding
    <2>1. Holders' = Holders
      BY <1>2 DEF Goto, TypeOK, Holders
    <2>2. QED
      BY <1>2, <2>1
  <1>3. CASE place \in Holding /\ at[a] \notin Holding
    <2>1. Holders' = Holders \cup {a} /\ a \notin Holders
      BY <1>3 DEF Goto, TypeOK, Holders
    <2>2. QED
      BY <1>1, <1>3, <2>1, FS_AddElement
  <1>4. CASE place \notin Holding /\ at[a] \in Holding
    <2>1. Holders' = Holders \ {a} /\ a \in Holders
      BY <1>4 DEF Goto, TypeOK, Holders
    <2>2. QED
      BY <1>1, <1>4, <2>1, FS_RemoveElement
  <1>5. QED
    BY <1>2, <1>3, <1>4

LEMMA HandlesKept ==
    ASSUME IInv, [Next]_vars
    PROVE  handles' = Cardinality(Holders')
  <1>0. TypeOK /\ handles = Cardinality(Holders)
    BY DEF IInv
  <1> USE DEF Holding, Installing, Uninstalling
  <1>1. CASE UNCHANGED <<at, handles>>
    BY <1>0, <1>1 DEF Holders
  <1>2. ASSUME NEW a \in Admins, Install(a)
        PROVE  handles' = Cardinality(Holders')
    <2>1. CASE CreateService(a)
      BY <1>0, <2>1, HoldersChange DEF CreateService
    <2>2. CASE SetRecoveryActions(a)
      BY <1>0, <2>2, HoldersChange DEF SetRecoveryActions
    <2>3. CASE SetNonCrashFlag(a)
      BY <1>0, <2>3, HoldersChange DEF SetNonCrashFlag
    <2>4. CASE InstallAsEventCreate(a)
      <3>1. /\ at[a] \in Holding
            /\ \/ Goto(a, "start") /\ handles' = handles - 1
               \/ Goto(a, "clear") /\ handles' = handles
        BY <2>4 DEF InstallAsEventCreate
      <3>2. QED
        BY <1>0, <3>1, HoldersChange
    <2>5. CASE ClearSource(a)
      BY <1>0, <2>5, HoldersChange DEF ClearSource
    <2>6. CASE Undo(a)
      <3>1. at[a] \in Holding /\ Goto(a, "idle") /\ handles' = handles - 1
        BY <2>6 DEF Undo, Leave
      <3>2. QED
        BY <1>0, <3>1, HoldersChange
    <2>7. CASE Start(a)
      BY <1>0, <2>7, HoldersChange DEF Start
    <2>8. QED
      BY <1>2, <2>1, <2>2, <2>3, <2>4, <2>5, <2>6, <2>7 DEF Install
  <1>3. ASSUME NEW a \in Admins, Uninstall(a) \/ GiveUp(a)
        PROVE  handles' = Cardinality(Holders')
    <2>1. CASE OpenService(a)
      BY <1>0, <2>1, HoldersChange DEF OpenService
    <2>2. CASE AskStopped(a) \/ AskFails(a) \/ GiveUp(a)
      BY <1>0, <2>2, HoldersChange DEF AskStopped, AskFails, GiveUp, GoDelete
    <2>3. CASE AskAccepted(a) \/ AskTooEarly(a)
      BY <1>0, <2>3, HoldersChange DEF AskAccepted, AskTooEarly
    <2>4. CASE DeleteOk(a)
      BY <1>0, <2>4, HoldersChange DEF DeleteOk
    <2>5. CASE DeleteFails(a) \/ RemoveSource(a)
      <3>1. at[a] \in Holding /\ Goto(a, "idle") /\ handles' = handles - 1
        BY <2>5 DEF DeleteFails, RemoveSource, Leave
      <3>2. QED
        BY <1>0, <3>1, HoldersChange
    <2>6. QED
      BY <1>3, <2>1, <2>2, <2>3, <2>4, <2>5 DEF Uninstall
  <1>4. ASSUME NEW a \in Admins, Commands(a)
        PROVE  handles' = Cardinality(Holders')
    <2>1. CASE Manage(a)
      BY <1>0, <2>1, HoldersChange DEF Manage
    <2>2. CASE Command(a)
      BY <1>0, <2>2, HoldersChange DEF Command
    <2>3. CASE StopCommand(a)
      BY <1>1, <2>3 DEF StopCommand, command
    <2>4. CASE Refused(a)
      BY <1>0, <2>4, HoldersChange DEF Refused
    <2>5. CASE AdminDies(a)
      <3>1. Goto(a, "idle") /\ handles' = IF at[a] \in Holding THEN handles - 1 ELSE handles
        BY <2>5 DEF AdminDies
      <3>2. QED
        BY <1>0, <3>1, HoldersChange
    <2>6. QED
      BY <1>4, <2>1, <2>2, <2>3, <2>4, <2>5 DEF Commands
  <1>5. CASE Service \/ RecoveryFires \/ Forget \/ Settle \/ UNCHANGED vars
    BY <1>1, <1>5 DEF Service, Execute, RunReturns, ReportStopped, Die, Helper, RecoveryFires, Forget,
       Settle, vars, command
  <1>6. QED
    BY <1>2, <1>3, <1>4, <1>5 DEF Next

LEMMA HandlesCount ==
    ASSUME TypeOK, handles = Cardinality(Holders)
    PROVE  handles \in Nat /\ (handles = 0 <=> Holders = {})
  <1>1. IsFiniteSet(Holders)
    BY ManagerAssumption, FS_Subset DEF Holders
  <1>2. QED
    BY <1>1, FS_EmptySet, FS_CardinalityType

LEMMA TypeKept ==
    ASSUME IInv, [Next]_vars
    PROVE  TypeOK'
  <1>0. TypeOK /\ handles = Cardinality(Holders) /\ HP!IInv
    BY DEF IInv
  <1>1. H!TypeOK'
    <2>1. HP!IInv'
      BY <1>0, HandlerInvariant
    <2>2. HP!TypeOK'
      BY <2>1 DEF HP!IInv
    <2>3. QED
      BY <2>2 DEF H!TypeOK, HP!TypeOK, H!Requests, HP!Requests, H!Stops, HP!Stops,
                  H!Result, HP!Result, H!Errors, HP!Errors
  <1>2. handles' \in Nat
    <2>1. handles' = Cardinality(Holders')
      BY HandlesKept
    <2>2. IsFiniteSet(Holders')
      BY ManagerAssumption, FS_Subset DEF Holders
    <2>3. QED
      BY <2>1, <2>2, FS_CardinalityType
  <1> DEFINE RestOK == /\ entry \in {"absent", "registered", "marked"}
                       /\ recovery \in {"none", "crash", "full"}
                       /\ source \in BOOLEAN /\ due \in BOOLEAN
                       /\ calm \in BOOLEAN /\ botched \in BOOLEAN
             CommandsOK == /\ at \in [Admins -> Holding \cup {"idle", "toInstall", "toUninstall", "start"}]
                           /\ how \in [Admins -> {"none", "stopped", "late", "refused"}]
                           /\ answer \in [Admins -> {"none", "removed", "mayRun", "noSource"}]
                           /\ restarted \subseteq Admins
                           /\ helpers \subseteq {"own", "former"}
  <1>3. RestOK /\ CommandsOK
    BY <1>0 DEF TypeOK
  <1>4. RestOK' /\ CommandsOK'
    <2> USE DEF Goto, Launch, Leave
    <2>1. ASSUME NEW a \in Admins, Install(a)
          PROVE  RestOK' /\ CommandsOK'
      <3> USE DEF Holding, Installing, Uninstalling
      <3>1. CASE CreateService(a) \/ SetRecoveryActions(a) \/ SetNonCrashFlag(a)
        BY <1>3, <3>1 DEF CreateService, SetRecoveryActions, SetNonCrashFlag, history
      <3>2. CASE InstallAsEventCreate(a) \/ ClearSource(a)
        BY <1>3, <3>2 DEF InstallAsEventCreate, ClearSource, history
      <3>3. CASE Undo(a)
        BY <1>3, <3>3 DEF Undo
      <3>4. CASE Start(a)
        BY <1>3, <3>4 DEF Start, database
      <3>5. QED
        BY <2>1, <3>1, <3>2, <3>3, <3>4 DEF Install
    <2>2. ASSUME NEW a \in Admins, Uninstall(a) \/ GiveUp(a)
          PROVE  RestOK' /\ CommandsOK'
      BY <1>3, <2>2 DEF Uninstall, GiveUp, OpenService, AskStopped, AskAccepted, AskTooEarly,
         AskFails, DeleteOk, DeleteFails, RemoveSource, GoDelete, database, history,
         Holding, Installing, Uninstalling
    <2>3. ASSUME NEW a \in Admins, Commands(a)
          PROVE  RestOK' /\ CommandsOK'
      BY <1>3, <2>3 DEF Commands, Manage, Command, StopCommand, Refused, AdminDies, database,
         command, history
    <2>4. CASE Service
      BY <1>3, <2>4 DEF Service, Execute, RunReturns, ReportStopped, Arms, Die, Helper, database,
         command, history
    <2>5. CASE RecoveryFires \/ Forget \/ Settle \/ UNCHANGED vars
      BY <1>3, <2>5 DEF RecoveryFires, Forget, Settle, vars, database, command, history
    <2>6. QED
      BY <2>1, <2>2, <2>3, <2>4, <2>5 DEF Next
  <1>5. QED
    BY <1>1, <1>2, <1>4 DEF TypeOK

-----------------------------------------------------------------------------
(* The database and those who hold the service.                             *)

LEMMA EntryKept ==
    ASSUME IInv, [Next]_vars
    PROVE  EntryOK'
  <1>0. TypeOK /\ EntryOK /\ handles = Cardinality(Holders)
    BY DEF IInv
  <1> USE DEF EntryOK, Holders, Holding, Installing, Uninstalling
  <1>1. CASE UNCHANGED <<entry, recovery, at>>
    BY <1>0, <1>1
  <1>2. ASSUME NEW a \in Admins, Install(a)
        PROVE  EntryOK'
    <2>1. CASE CreateService(a)
      BY <1>0, <2>1 DEF CreateService, Goto, TypeOK
    <2>2. CASE SetRecoveryActions(a) \/ SetNonCrashFlag(a)
      BY <1>0, <2>2 DEF SetRecoveryActions, SetNonCrashFlag, Goto, TypeOK
    <2>3. CASE InstallAsEventCreate(a) \/ ClearSource(a)
      BY <1>0, <2>3 DEF InstallAsEventCreate, ClearSource, Goto, TypeOK
    <2>4. CASE Undo(a)
      BY <1>0, <2>4 DEF Undo, Leave, Goto, TypeOK
    <2>5. CASE Start(a)
      BY <1>0, <2>5 DEF Start, database, Goto, TypeOK
    <2>6. QED
      BY <1>2, <2>1, <2>2, <2>3, <2>4, <2>5 DEF Install
  <1>3. ASSUME NEW a \in Admins, Uninstall(a) \/ GiveUp(a)
        PROVE  EntryOK'
    <2>1. CASE OpenService(a)
      BY <1>0, <2>1 DEF OpenService, database, Goto, TypeOK
    <2>2. CASE AskStopped(a) \/ AskFails(a) \/ GiveUp(a)
      BY <1>0, <2>2 DEF AskStopped, AskFails, GiveUp, GoDelete, database, Goto, TypeOK
    <2>3. CASE AskAccepted(a) \/ AskTooEarly(a)
      BY <1>0, <2>3 DEF AskAccepted, AskTooEarly, database, Goto, TypeOK
    <2>4. CASE DeleteOk(a)
      BY <1>0, <2>4 DEF DeleteOk, Goto, TypeOK
    <2>5. CASE DeleteFails(a) \/ RemoveSource(a)
      BY <1>0, <2>5 DEF DeleteFails, RemoveSource, Leave, database, Goto, TypeOK
    <2>6. QED
      BY <1>3, <2>1, <2>2, <2>3, <2>4, <2>5 DEF Uninstall
  <1>4. ASSUME NEW a \in Admins, Commands(a)
        PROVE  EntryOK'
    BY <1>0, <1>4 DEF Commands, Manage, Command, StopCommand, Refused, AdminDies, command,
       database, Goto, TypeOK
  <1>5. CASE Service \/ RecoveryFires \/ Settle \/ UNCHANGED vars
    BY <1>1, <1>5 DEF Service, Execute, RunReturns, ReportStopped, Die, Helper, RecoveryFires,
       Settle, vars, command, database
  <1>6. CASE Forget
    <2>1. Holders = {} /\ at' = at
      BY <1>0, <1>6, HandlesCount DEF Forget, command
    <2>2. QED
      BY <1>6, <2>1 DEF Forget
  <1>7. QED
    BY <1>2, <1>3, <1>4, <1>5, <1>6 DEF Next

\* A registered service is complete, or somebody is installing it.
LEMMA CompleteKept ==
    ASSUME IInv, [Next]_vars
    PROVE  InstalledIsComplete'
  <1>0. TypeOK /\ EntryOK /\ InstalledIsComplete
    BY DEF IInv
  <1> USE DEF InstalledIsComplete, Complete, Installing
  <1>1. ASSUME NEW a \in Admins, Install(a)
        PROVE  InstalledIsComplete'
    <2>1. CASE CreateService(a)
      BY <1>0, <2>1 DEF CreateService, Goto, TypeOK
    <2>2. CASE SetRecoveryActions(a) \/ SetNonCrashFlag(a)
      BY <1>0, <2>2 DEF SetRecoveryActions, SetNonCrashFlag, Goto, TypeOK
    <2>3. CASE InstallAsEventCreate(a)
      BY <1>0, <2>3 DEF InstallAsEventCreate, Goto, TypeOK, EntryOK, history
    <2>4. CASE ClearSource(a)
      BY <1>0, <2>4 DEF ClearSource, Goto, TypeOK
    <2>5. CASE Undo(a)
      BY <1>0, <2>5 DEF Undo, Leave, Goto, TypeOK
    <2>6. CASE Start(a)
      BY <1>0, <2>6 DEF Start, database, Goto, TypeOK
    <2>7. QED
      BY <1>1, <2>1, <2>2, <2>3, <2>4, <2>5, <2>6 DEF Install
  <1>2. ASSUME NEW a \in Admins, Uninstall(a) \/ GiveUp(a)
        PROVE  InstalledIsComplete'
    <2>1. CASE OpenService(a)
      BY <1>0, <2>1 DEF OpenService, database, Goto, TypeOK, history
    <2>2. CASE AskStopped(a) \/ AskFails(a) \/ GiveUp(a)
      BY <1>0, <2>2 DEF AskStopped, AskFails, GiveUp, GoDelete, database, Goto, TypeOK, history
    <2>3. CASE AskAccepted(a) \/ AskTooEarly(a)
      BY <1>0, <2>3 DEF AskAccepted, AskTooEarly, database, Goto, TypeOK, history
    <2>4. CASE DeleteOk(a)
      BY <1>0, <2>4 DEF DeleteOk, Goto, TypeOK
    <2>5. CASE DeleteFails(a)
      BY <1>0, <2>5 DEF DeleteFails, Leave, database, Goto, TypeOK
    <2>6. CASE RemoveSource(a)
      BY <1>0, <2>6 DEF RemoveSource, Leave, Goto, TypeOK, EntryOK
    <2>7. QED
      BY <1>2, <2>1, <2>2, <2>3, <2>4, <2>5, <2>6 DEF Uninstall
  <1>3. ASSUME NEW a \in Admins, Commands(a)
        PROVE  InstalledIsComplete'
    BY <1>0, <1>3 DEF Commands, Manage, Command, StopCommand, Refused, AdminDies, command,
       database, history, Goto, TypeOK
  <1>4. CASE Service \/ RecoveryFires \/ Forget \/ Settle \/ UNCHANGED vars
    BY <1>0, <1>4 DEF Service, Execute, RunReturns, ReportStopped, Die, Helper, RecoveryFires,
       Forget, Settle, vars, command, database, history
  <1>5. QED
    BY <1>1, <1>2, <1>3, <1>4 DEF Next

-----------------------------------------------------------------------------
(* The helper, and what a stop saw.                                         *)

\* Only Execute starts the goroutine, and only while there is none.
LEMMA ExecuteKeepsRun ==
    ASSUME HP!IInv, H!Execute
    PROVE  /\ UNCHANGED result
           /\ run' = run \/ (run = "none" /\ run' = "running")
           /\ status # "stopped"
  <1>1. HP!Execute
    BY SameHandler
  <1>2. HP!StatusOK /\ HP!GoroutineOK
    BY DEF HP!IInv
  <1>3. QED
    BY <1>1, <1>2 DEF HP!Execute, HP!Begin, HP!Spawn, HP!Announce, HP!TakeDone, HP!Ending,
       HP!TakeRequest, HP!Echo, HP!Stopping, HP!Stopped, HP!TimesOut, HP!Return, HP!goroutine,
       HP!StatusOK, HP!GoroutineOK

LEMMA HelperKept ==
    ASSUME IInv, [Next]_vars
    PROVE  HelperOK'
  <1>0. HelperOK /\ HP!IInv
    BY DEF IInv
  <1> USE DEF HelperOK
  <1>1. CASE UNCHANGED <<run, result, helpers>>
    BY <1>0, <1>1
  <1>2. CASE Launch
    BY <1>2 DEF Launch
  <1>3. ASSUME NEW a \in Admins, Install(a) \/ Uninstall(a) \/ GiveUp(a) \/ Commands(a)
        PROVE  Launch \/ UNCHANGED <<run, result, helpers>>
    <2>1. CASE Install(a)
      BY <2>1 DEF Install, CreateService, SetRecoveryActions, SetNonCrashFlag,
         InstallAsEventCreate, ClearSource, Undo, Start, handler
    <2>2. CASE Uninstall(a) \/ GiveUp(a)
      BY <2>2 DEF Uninstall, GiveUp, OpenService, AskStopped, AskAccepted, AskTooEarly, AskFails,
         DeleteOk, DeleteFails, RemoveSource, GoDelete, handler, H!Request, H!goroutine
    <2>3. CASE Commands(a)
      BY <2>3 DEF Commands, Manage, Command, StopCommand, Refused, AdminDies, handler,
         H!Request, H!goroutine
    <2>4. QED
      BY <1>3, <2>1, <2>2, <2>3
  <1>4. CASE Execute
    <2>1. CASE H!Execute
      BY <1>0, <1>4, <2>1, ExecuteKeepsRun DEF Execute
    <2>2. CASE H!Send
      BY <1>0, <1>4, <2>2 DEF Execute, H!Send
    <2>3. QED
      BY <1>4, <2>1, <2>2 DEF Execute
  <1>5. CASE RunReturns
    BY <1>5 DEF RunReturns, H!RunReturns
  <1>6. CASE ReportStopped \/ Die
    BY <1>0, <1>6 DEF ReportStopped, Die, H!ReportStopped, H!Die, H!goroutine
  <1>7. CASE Helper
    BY <1>0, <1>7 DEF Helper, handler
  <1>8. CASE RecoveryFires \/ Forget \/ Settle \/ UNCHANGED vars
    BY <1>1, <1>2, <1>8 DEF RecoveryFires, Forget, Settle, vars, handler
  <1>9. QED
    BY <1>1, <1>2, <1>3, <1>4, <1>5, <1>6, <1>7, <1>8 DEF Next, Service

LEMMA StopKept ==
    ASSUME IInv, [Next]_vars
    PROVE  StopOK'
  <1>0. TypeOK /\ StopOK /\ HP!IInv
    BY DEF IInv
  <1> USE DEF StopOK
  <1>1. CASE UNCHANGED <<status, at, how, restarted>>
    BY <1>0, <1>1
  <1>2. ASSUME NEW a \in Admins, Install(a)
        PROVE  StopOK'
    <2>1. CASE Start(a)
      <3>1. at' = [at EXCEPT ![a] = "idle"] /\ how' = how
        BY <2>1 DEF Start, Goto
      <3>2. CASE Launch
        BY <1>0, <3>1, <3>2 DEF Launch, TypeOK
      <3>3. CASE UNCHANGED <<status, restarted>>
        BY <1>0, <3>1, <3>3 DEF TypeOK
      <3>4. QED
        BY <2>1, <3>2, <3>3 DEF Start, handler
    <2>2. CASE Undo(a)
      BY <1>0, <2>2 DEF Undo, Leave, Goto, handler, TypeOK
    <2>3. CASE ~Start(a) /\ ~Undo(a)
      BY <1>0, <1>2, <2>3 DEF Install, CreateService, SetRecoveryActions, SetNonCrashFlag,
         InstallAsEventCreate, ClearSource, Goto, handler, history, TypeOK
    <2>4. QED
      BY <2>1, <2>2, <2>3
  <1>3. ASSUME NEW a \in Admins, Uninstall(a) \/ GiveUp(a)
        PROVE  StopOK'
    <2>1. CASE OpenService(a) \/ AskTooEarly(a) \/ DeleteOk(a)
      BY <1>0, <2>1 DEF OpenService, AskTooEarly, DeleteOk, handler, history, Goto, TypeOK
    <2>2. CASE AskStopped(a) \/ AskFails(a) \/ GiveUp(a)
      BY <1>0, <2>2 DEF AskStopped, AskFails, GiveUp, GoDelete, handler, history, Goto, TypeOK
    <2>3. CASE AskAccepted(a)
      BY <1>0, <2>3 DEF AskAccepted, H!Request, handler, history, Goto, TypeOK
    <2>4. CASE DeleteFails(a) \/ RemoveSource(a)
      BY <1>0, <2>4 DEF DeleteFails, RemoveSource, Leave, handler, Goto, TypeOK
    <2>5. QED
      BY <1>3, <2>1, <2>2, <2>3, <2>4 DEF Uninstall
  <1>4. ASSUME NEW a \in Admins, Commands(a)
        PROVE  StopOK'
    BY <1>0, <1>4 DEF Commands, Manage, Command, StopCommand, Refused, AdminDies, command,
       handler, history, H!Request, Goto, TypeOK
  <1>5. CASE Execute
    <2>1. status # "stopped" \/ status' = status
      BY <1>0, <1>5, ExecuteKeepsRun DEF Execute, H!Send
    <2>2. UNCHANGED <<at, how, restarted>>
      BY <1>5 DEF Execute, command, history
    <2>3. QED
      BY <1>0, <2>1, <2>2
  <1>6. CASE ReportStopped \/ Die
    BY <1>6 DEF ReportStopped, Die, H!ReportStopped, H!Die
  <1>7. CASE RunReturns \/ Helper
    BY <1>1, <1>7 DEF RunReturns, H!RunReturns, Helper, handler, command, history
  <1>8. CASE RecoveryFires
    <2>1. UNCHANGED <<at, how>>
      BY <1>8 DEF RecoveryFires, command
    <2>2. CASE Launch
      BY <1>0, <2>1, <2>2 DEF Launch, TypeOK
    <2>3. CASE UNCHANGED <<status, restarted>>
      BY <1>1, <2>1, <2>3
    <2>4. QED
      BY <1>8, <2>2, <2>3 DEF RecoveryFires, handler
  <1>9. CASE Forget \/ Settle \/ UNCHANGED vars
    BY <1>1, <1>9 DEF Forget, Settle, vars, handler, command, history
  <1>10. QED
    BY <1>2, <1>3, <1>4, <1>5, <1>6, <1>7, <1>8, <1>9 DEF Next, Service

LEMMA AnswerKept ==
    ASSUME IInv, [Next]_vars
    PROVE  AnswerOK'
  <1>0. TypeOK /\ AnswerOK
    BY DEF IInv
  <1> USE DEF AnswerOK
  <1>1. CASE UNCHANGED <<at, answer>>
    BY <1>0, <1>1
  <1>2. ASSUME NEW a \in Admins, Install(a)
        PROVE  AnswerOK'
    <2>1. CASE Undo(a)
      BY <1>0, <2>1 DEF Undo, Leave, Goto, TypeOK
    <2>2. CASE ~Undo(a)
      BY <1>0, <1>2, <2>2 DEF Install, CreateService, SetRecoveryActions, SetNonCrashFlag,
         InstallAsEventCreate, ClearSource, Start, Goto, TypeOK
    <2>3. QED
      BY <2>1, <2>2
  <1>3. ASSUME NEW a \in Admins, Uninstall(a) \/ GiveUp(a)
        PROVE  AnswerOK'
    <2>1. CASE DeleteFails(a) \/ RemoveSource(a)
      BY <1>0, <2>1 DEF DeleteFails, RemoveSource, Leave, Goto, TypeOK
    <2>2. CASE ~DeleteFails(a) /\ ~RemoveSource(a)
      BY <1>0, <1>3, <2>2 DEF Uninstall, GiveUp, OpenService, AskStopped, AskAccepted,
         AskTooEarly, AskFails, DeleteOk, GoDelete, Goto, TypeOK
    <2>3. QED
      BY <2>1, <2>2
  <1>4. ASSUME NEW a \in Admins, Commands(a)
        PROVE  AnswerOK'
    BY <1>0, <1>4 DEF Commands, Manage, Command, StopCommand, Refused, AdminDies, command,
       Goto, TypeOK
  <1>5. CASE Service \/ RecoveryFires \/ Forget \/ Settle \/ UNCHANGED vars
    BY <1>1, <1>5 DEF Service, Execute, RunReturns, ReportStopped, Die, Helper, RecoveryFires,
       Forget, Settle, vars, command
  <1>6. QED
    BY <1>2, <1>3, <1>4, <1>5 DEF Next

-----------------------------------------------------------------------------
LEMMA InitInvariant == Init => IInv
  <1> SUFFICES ASSUME Init PROVE IInv
    OBVIOUS
  <1>1. HP!IInv
    BY SameHandler, HandlerAssumed, HP!InitInvariant DEF Init
  <1>2. H!TypeOK
    BY <1>1, SameHandler DEF HP!IInv
  <1>3. TypeOK
    BY <1>2 DEF Init, TypeOK
  <1>4. \A a \in Admins : at[a] = "idle"
    BY DEF Init
  <1>5. Holders = {}
    BY <1>4 DEF Holders, Holding, Installing, Uninstalling
  <1>6. handles = Cardinality(Holders)
    BY <1>5, FS_EmptySet DEF Init
  <1>7. EntryOK /\ InstalledIsComplete /\ HelperOK /\ StopOK /\ AnswerOK
    BY <1>4, <1>5 DEF Init, EntryOK, InstalledIsComplete, HelperOK, StopOK, AnswerOK, Installing
  <1>8. QED
    BY <1>1, <1>3, <1>6, <1>7 DEF IInv

THEOREM Invariant == Spec => []IInv
  <1>1. ASSUME IInv, [Next]_vars PROVE IInv'
    <2>1. HP!IInv'
      BY <1>1, HandlerInvariant DEF IInv
    <2>2. TypeOK' /\ handles' = Cardinality(Holders')
      BY <1>1, TypeKept, HandlesKept
    <2>3. EntryOK' /\ InstalledIsComplete' /\ HelperOK' /\ StopOK' /\ AnswerOK'
      BY <1>1, EntryKept, CompleteKept, HelperKept, StopKept, AnswerKept
    <2>4. QED
      BY <2>1, <2>2, <2>3 DEF IInv
  <1>2. QED
    BY <1>1, InitInvariant, PTL DEF Spec

-----------------------------------------------------------------------------
\* Every variable keeps to its type; no handle is closed twice.
THEOREM TypeCorrect == Spec => []TypeOK
  <1>1. IInv => TypeOK
    BY DEF IInv
  <1>2. QED
    BY <1>1, Invariant, PTL

\* A service that is registered is completely installed, whoever installs and
\* uninstalls at the same time and whatever fails, unless it could not be undone.
THEOREM InstalledComplete == Spec => []InstalledIsComplete
  <1>1. IInv => InstalledIsComplete
    BY DEF IInv
  <1>2. QED
    BY <1>1, Invariant, PTL

LEMMA HelperLoggedNow == IInv => StoppedHelperIsLogged
  <1> SUFFICES ASSUME IInv, status = "stopped", "own" \in helpers
               PROVE  logged # {}
    BY DEF StoppedHelperIsLogged
  <1>1. run # "none" /\ (run \in {"sending", "gone"} => result.err = "error")
    BY DEF IInv, HelperOK
  <1>2. HP!TypeOK /\ HP!GoroutineOK /\ HP!ExecuteOK /\ HP!StatusOK /\ HP!FailureIsLogged
    BY DEF IInv, HP!IInv
  <1>3. pc = "returned"
    BY <1>1, <1>2 DEF HP!TypeOK, HP!StatusOK, HP!GoroutineOK
  <1>4. QED
    BY <1>1, <1>2, <1>3 DEF HP!ExecuteOK, HP!FailureIsLogged

\* A service never stops with a helper alive and nothing said of it.
THEOREM HelperLogged == Spec => []StoppedHelperIsLogged
  <1>1. QED
    BY HelperLoggedNow, Invariant, PTL

\* Uninstall returns nil only for a service that stopped while it was asked, and
\* that stands still unless it was started again before the deletion.
THEOREM NilStopped == Spec => NilMeansItStopped
  <1>1. ASSUME IInv, [Next]_vars, NEW a \in Admins,
               at[a] = "remove", answer'[a] = "removed", a \notin restarted
        PROVE  status = "stopped"
    <2>1. how[a] = "stopped"
      <3>1. answer[a] = "none" /\ TypeOK
        BY <1>1 DEF IInv, AnswerOK
      <3>2. ASSUME NEW b \in Admins, Undo(b) \/ DeleteFails(b)
            PROVE  answer'[a] \in {"none", answer[a]}
        BY <3>1, <3>2 DEF Undo, DeleteFails, Leave, TypeOK
      <3>3. ASSUME NEW b \in Admins, RemoveSource(b)
            PROVE  how[a] = "stopped"
        BY <1>1, <3>1, <3>3 DEF RemoveSource, Leave, TypeOK
      <3>4. ASSUME NEW b \in Admins, Install(b), ~Undo(b)
            PROVE  answer' = answer
        BY <3>4 DEF Install, CreateService, SetRecoveryActions, SetNonCrashFlag,
           InstallAsEventCreate, ClearSource, Start
      <3>5. ASSUME NEW b \in Admins, Uninstall(b) \/ GiveUp(b), ~DeleteFails(b), ~RemoveSource(b)
            PROVE  answer' = answer
        BY <3>5 DEF Uninstall, GiveUp, OpenService, AskStopped, AskAccepted, AskTooEarly,
           AskFails, DeleteOk, GoDelete
      <3>6. ASSUME NEW b \in Admins, Commands(b)
            PROVE  answer'[a] \in {"none", answer[a]}
        BY <3>1, <3>6 DEF Commands, Manage, Command, StopCommand, Refused, AdminDies, command, TypeOK
      <3>7. CASE Service \/ RecoveryFires \/ Forget \/ Settle \/ UNCHANGED vars
        BY <1>1, <3>1, <3>7 DEF Service, Execute, RunReturns, ReportStopped, Die, Helper,
           RecoveryFires, Forget, Settle, vars, command
      <3>8. QED
        BY <1>1, <3>1, <3>2, <3>3, <3>4, <3>5, <3>6, <3>7 DEF Next
    <2>2. QED
      BY <1>1, <2>1 DEF IInv, StopOK
  <1>2. ASSUME IInv, [Next]_vars
        PROVE  [\A a \in Admins : at[a] = "remove" /\ answer'[a] = "removed" =>
                   status = "stopped" \/ a \in restarted]_vars
    BY <1>1, <1>2
  <1>3. QED
    BY <1>2, Invariant, PTL DEF Spec, NilMeansItStopped

\* No recovery action follows a stop.
THEOREM NotUndone == Spec => StopIsNotUndone
  <1>1. ASSUME IInv, [Next]_vars, ~due, due', pc' = "returned"
        PROVE  code = "failed" /\ result.err # "nil" /\ ~result.stopped
    <2>1. ReportStopped
      <3>1. CASE Die
        BY <1>1, <3>1 DEF Die, H!Die
      <3>2. ASSUME NEW a \in Admins, Install(a) \/ Uninstall(a) \/ GiveUp(a) \/ Commands(a)
            PROVE  UNCHANGED due
        BY <3>2 DEF Install, CreateService, SetRecoveryActions, SetNonCrashFlag, InstallAsEventCreate,
           ClearSource, Undo, Start, Uninstall, GiveUp, OpenService, AskStopped, AskAccepted,
           AskTooEarly, AskFails, DeleteOk, DeleteFails, RemoveSource, Commands, Manage, Command,
           StopCommand, Refused, AdminDies
      <3>3. QED
        BY <1>1, <3>1, <3>2 DEF Next, Service, Execute, RunReturns, Helper, RecoveryFires, Forget,
           Settle, vars
    <2>2. code = "failed"
      BY <1>1, <2>1 DEF ReportStopped, Arms
    <2>3. QED
      BY <1>1, <2>2 DEF IInv, HP!IInv, HP!FailedExitIsOwnFailure
  <1>2. ASSUME IInv, [Next]_vars
        PROVE  [~due /\ due' /\ pc' = "returned" => code = "failed" /\ result.err # "nil" /\ ~result.stopped]_vars
    BY <1>1, <1>2
  <1>3. QED
    BY <1>2, Invariant, PTL DEF Spec, StopIsNotUndone

-----------------------------------------------------------------------------
(* What the liveness properties rest on.                                    *)

\* Each command that holds the service holds one handle of it, and nobody else
\* holds any, whichever path Install and Uninstall take and wherever they are
\* killed (s.Close, manager_windows.go:66-130): once the commands are over a
\* removed service is held by nobody, which is what RemovalCompletes needs.
HandlesAreHeld ==
    /\ handles = Cardinality(Holders)
    /\ (\A a \in Admins : at[a] \notin Holding) => handles = 0

\* The service ends: it reports Stopped after a failure, or its process dies.
Ends == status # "stopped" /\ status' = "stopped" /\ (pc' = "dead" \/ code = "failed")

\* A service that fails or dies while it is completely installed leaves a recovery
\* action behind, and that action starts it, unless somebody else has or the
\* service is being removed: the safety half of FailureIsRestarted.
RestartIsNotLost ==
    [][/\ Ends /\ ~botched /\ (\A a \in Admins : at[a] \notin Installing)
             /\ entry = "registered" /\ RestartDelay > 0 => due'
       /\ due /\ ~due' => pc' = "begin" \/ status # "stopped" \/ entry # "registered"]_vars

\* No command leaks a handle, and none closes one that is not its own.
THEOREM HandlesHeld == Spec => []HandlesAreHeld
  <1>1. IInv => HandlesAreHeld
    BY HandlesCount DEF IInv, HandlesAreHeld, Holders
  <1>2. QED
    BY <1>1, Invariant, PTL

\* A service that ends badly is started again, or removed.
THEOREM RestartNotLost == Spec => RestartIsNotLost
  <1> DEFINE Armed == /\ Ends /\ ~botched /\ (\A a \in Admins : at[a] \notin Installing)
                            /\ entry = "registered" /\ RestartDelay > 0 => due'
             Kept == due /\ ~due' => pc' = "begin" \/ status # "stopped" \/ entry # "registered"
  <1>1. ASSUME NEW a \in Admins, Install(a) \/ Uninstall(a) \/ GiveUp(a) \/ Commands(a)
        PROVE  due' = due /\ (status' = status \/ status' = "none")
    <2>1. CASE Install(a)
      BY <2>1 DEF Install, CreateService, SetRecoveryActions, SetNonCrashFlag,
         InstallAsEventCreate, ClearSource, Undo, Start, Launch, H!StartService, handler
    <2>2. CASE Uninstall(a) \/ GiveUp(a)
      BY <2>2 DEF Uninstall, GiveUp, OpenService, AskStopped, AskAccepted, AskTooEarly, AskFails,
         DeleteOk, DeleteFails, RemoveSource, GoDelete, handler, H!Request
    <2>3. CASE Commands(a)
      BY <2>3 DEF Commands, Manage, Command, StopCommand, Refused, AdminDies, handler, H!Request
    <2>4. QED
      BY <1>1, <2>1, <2>2, <2>3
  <1>2. ASSUME IInv, [Next]_vars
        PROVE  Armed /\ Kept
    <2>1. CASE \E a \in Admins : Install(a) \/ Uninstall(a) \/ GiveUp(a) \/ Commands(a)
      BY <1>1, <2>1 DEF Ends
    <2>2. CASE Execute
      BY <2>2 DEF Execute, Ends, H!Execute, H!Send, H!Begin, H!Spawn, H!Announce, H!TakeDone,
         H!Ending, H!TakeRequest, H!Echo, H!Stopping, H!Stopped, H!TimesOut
    <2>3. CASE RunReturns \/ Helper \/ Settle \/ UNCHANGED vars
      BY <2>3 DEF RunReturns, H!RunReturns, Helper, Settle, vars, handler, Ends
    <2>4. CASE ReportStopped \/ Die
      <3>1. InstalledIsComplete
        BY <1>2 DEF IInv
      <3>2. due => due'
        BY <2>4 DEF ReportStopped, Die, Arms
      <3>3. ASSUME Ends, ~botched, \A a \in Admins : at[a] \notin Installing,
                   entry = "registered", RestartDelay > 0
            PROVE  due'
        <4>1. recovery = "full"
          BY <3>1, <3>3 DEF InstalledIsComplete, Complete
        <4>2. CASE ReportStopped
          BY <3>3, <4>1, <4>2 DEF ReportStopped, H!ReportStopped, Arms, Ends
        <4>3. CASE Die
          BY <3>3, <4>1, <4>3 DEF Die, Ends
        <4>4. QED
          BY <2>4, <4>2, <4>3
      <3>4. QED
        BY <3>2, <3>3
    <2>5. CASE RecoveryFires
      <3>1. CASE Launch
        BY <2>5, <3>1 DEF Launch, H!StartService, Ends
      <3>2. CASE UNCHANGED handler /\ (entry # "registered" \/ status # "stopped")
        BY <3>2 DEF handler, Ends
      <3>3. QED
        BY <2>5, <3>1, <3>2 DEF RecoveryFires
    <2>6. CASE Forget
      BY <2>6 DEF Forget, Ends
    <2>7. QED
      BY <1>2, <2>1, <2>2, <2>3, <2>4, <2>5, <2>6 DEF Next, Service
  <1>3. QED
    BY <1>2, Invariant, PTL DEF Spec, RestartIsNotLost
\* The calls a command still makes at most, those of stopAndWait's loop apart.
CallsLeft ==
    [place \in Holding \cup {"idle", "toInstall", "toUninstall", "start"} |->
        CASE place = "toInstall" -> 6
          [] place \in {"recovery", "toUninstall"} -> 5
          [] place \in {"flag", "ask"} -> 4
          [] place \in {"source", "again"} -> 3
          [] place \in {"clear", "delete"} -> 2
          [] place \in {"undo", "start", "remove"} -> 1
          [] place = "idle" -> 0]

\* A command never goes back, whatever fails on its way and whatever the others do,
\* and every call brings it nearer its return; only stopAndWait asks again, until
\* the service has stopped or stopWait is over (manager_windows.go:46-189).
CommandsAdvance ==
    [][\A a \in Admins : at[a] # "idle" =>
          /\ at'[a] = at[a] \/ CallsLeft[at'[a]] < CallsLeft[at[a]]
          /\ Install(a) \/ Uninstall(a) \/ GiveUp(a) => at'[a] # at[a] \/ at[a] = "again"]_vars

\* Where the step of a command leads.
LEMMA CommandStep ==
    ASSUME TypeOK, NEW a \in Admins, Install(a) \/ Uninstall(a) \/ GiveUp(a)
    PROVE  /\ \A b \in Admins \ {a} : at'[b] = at[b]
           /\ \/ at[a] = "toInstall" /\ at'[a] \in {"recovery", "source"}
              \/ at[a] = "recovery" /\ at'[a] \in {"flag", "undo"}
              \/ at[a] = "flag" /\ at'[a] \in {"source", "undo"}
              \/ at[a] = "source" /\ at'[a] \in {"start", "clear"}
              \/ at[a] = "clear" /\ at'[a] = "undo"
              \/ at[a] = "toUninstall" /\ at'[a] = "ask"
              \/ at[a] = "ask" /\ at'[a] \in {"again", "delete"}
              \/ at[a] = "again" /\ at'[a] \in {"again", "delete"}
              \/ at[a] = "delete" /\ at'[a] \in {"remove", "idle"}
              \/ at[a] \in {"undo", "start", "remove"} /\ at'[a] = "idle"
  <1> USE DEF TypeOK, Goto
  <1>1. CASE CreateService(a) \/ SetRecoveryActions(a) \/ SetNonCrashFlag(a)
    BY <1>1 DEF CreateService, SetRecoveryActions, SetNonCrashFlag
  <1>2. CASE InstallAsEventCreate(a) \/ ClearSource(a)
    BY <1>2 DEF InstallAsEventCreate, ClearSource
  <1>3. CASE Undo(a) \/ Start(a)
    BY <1>3 DEF Undo, Leave, Start
  <1>4. CASE OpenService(a) \/ DeleteOk(a)
    BY <1>4 DEF OpenService, DeleteOk
  <1>5. CASE AskStopped(a) \/ AskFails(a) \/ GiveUp(a)
    BY <1>5 DEF AskStopped, AskFails, GiveUp, GoDelete
  <1>6. CASE AskAccepted(a) \/ AskTooEarly(a)
    BY <1>6 DEF AskAccepted, AskTooEarly
  <1>7. CASE DeleteFails(a) \/ RemoveSource(a)
    BY <1>7 DEF DeleteFails, RemoveSource, Leave
  <1>8. QED
    BY <1>1, <1>2, <1>3, <1>4, <1>5, <1>6, <1>7 DEF Install, Uninstall

\* Commands do not go round in circles, but for the loop of stopAndWait: the safety
\* half of CommandReturns.
THEOREM CommandsEnd == Spec => CommandsAdvance
  <1>0. /\ CallsLeft["toInstall"] = 6 /\ CallsLeft["idle"] = 0
        /\ CallsLeft["recovery"] = 5 /\ CallsLeft["toUninstall"] = 5
        /\ CallsLeft["flag"] = 4 /\ CallsLeft["ask"] = 4
        /\ CallsLeft["source"] = 3 /\ CallsLeft["again"] = 3
        /\ CallsLeft["clear"] = 2 /\ CallsLeft["delete"] = 2
        /\ CallsLeft["undo"] = 1 /\ CallsLeft["start"] = 1 /\ CallsLeft["remove"] = 1
    BY DEF CallsLeft, Holding, Installing, Uninstalling
  <1>1. ASSUME TypeOK, [Next]_vars, NEW a \in Admins, at[a] # "idle"
        PROVE  /\ at'[a] = at[a] \/ CallsLeft[at'[a]] < CallsLeft[at[a]]
               /\ Install(a) \/ Uninstall(a) \/ GiveUp(a) => at'[a] # at[a] \/ at[a] = "again"
    <2>1. CASE Install(a) \/ Uninstall(a) \/ GiveUp(a)
      BY <1>0, <1>1, <2>1, CommandStep
    <2>2. ASSUME NEW b \in Admins, Install(b) \/ Uninstall(b) \/ GiveUp(b), a # b
          PROVE  at'[a] = at[a]
      BY <1>1, <2>2, CommandStep
    <2>3. ASSUME NEW b \in Admins, Commands(b)
          PROVE  at'[a] = at[a] \/ CallsLeft[at'[a]] < CallsLeft[at[a]]
      <3>1. CASE AdminDies(b) \/ Refused(b)
        <4>1. at'[a] \in {at[a], "idle"}
          BY <1>1, <3>1 DEF AdminDies, Refused, Goto, TypeOK
        <4>2. at[a] \in Holding \cup {"toInstall", "toUninstall", "start"}
          BY <1>1 DEF TypeOK
        <4>3. CallsLeft[at[a]] \in 1..6
          BY <1>0, <4>2 DEF Holding, Installing, Uninstalling
        <4>4. QED
          BY <1>0, <4>1, <4>3
      <3>2. CASE Manage(b) \/ Command(b) \/ StopCommand(b)
        <4>1. CASE StopCommand(b)
          BY <4>1 DEF StopCommand, command
        <4>2. CASE Manage(b) \/ Command(b)
          <5>1. at[b] = "idle" /\ \E place : Goto(b, place)
            BY <4>2 DEF Manage, Command
          <5>2. QED
            BY <1>1, <5>1 DEF Goto, TypeOK
        <4>3. QED
          BY <3>2, <4>1, <4>2
      <3>3. QED
        BY <2>3, <3>1, <3>2 DEF Commands
    <2>4. ASSUME Service \/ RecoveryFires \/ Forget \/ Settle \/ UNCHANGED vars
          PROVE  at' = at
      BY <2>4 DEF Service, Execute, RunReturns, ReportStopped, Die, Helper, RecoveryFires,
         Forget, Settle, vars, command
    <2>5. QED
      BY <1>1, <2>1, <2>2, <2>3, <2>4 DEF Next
  <1>2. IInv /\ [Next]_vars =>
          [\A a \in Admins : at[a] # "idle" =>
              /\ at'[a] = at[a] \/ CallsLeft[at'[a]] < CallsLeft[at[a]]
              /\ Install(a) \/ Uninstall(a) \/ GiveUp(a) => at'[a] # at[a] \/ at[a] = "again"]_vars
    BY <1>1 DEF IInv
  <1>3. QED
    BY <1>2, Invariant, PTL DEF Spec, CommandsAdvance
=============================================================================
