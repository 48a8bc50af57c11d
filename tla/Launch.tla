------------------------------- MODULE Launch -------------------------------
(***************************************************************************)
(* LaunchInSession, userToken and Process.Close of session_windows.go, call *)
(* by call: which handles are open, which variable holds their numbers, and *)
(* what becomes of the process that is launched.  Any call may fail.        *)
(*                                                                          *)
(* Windows hands the number of a closed handle out again, to us or to the   *)
(* rest of the service.  A process is in a job or not, and so are its       *)
(* descendants: they are in the job if it was when it started them.         *)
(***************************************************************************)
EXTENDS Elevation, FiniteSets

CONSTANTS Handles, NoHandle

ASSUME LaunchAssumption == NoHandle \notin Handles

VARIABLES
    at,          \* the next call of LaunchInSession, "idle" outside it
    held,        \* its local variables
    env,         \* whether the environment block is allocated
    p,           \* the Process it returned
    ours, theirs,        \* open handles, ours and those of the rest of the service
    jobHandle,           \* the handle of the job, while it is open
    killOnClose,
    child, assigned,     \* the process, and whether it is in the job
    offspring            \* its descendants: in the job, or outside

windowsVars == <<ours, theirs, jobHandle, child, offspring>>
vars == <<at, held, env, p, windowsVars, killOnClose, assigned>>

Locals == {"user", "linked", "tok", "job", "process", "thread"}
Nothing == [v \in Locals |-> NoHandle]
Closed == [handle |-> NoHandle, job |-> NoHandle]
Alive == {"suspended", "running"}

Holds(names) == {held[v] : v \in names} \ {NoHandle}

\* CloseHandle on each number, whoever has it by now, and TerminateProcess
\* before that.  Closing a job ends everything in it, if it is set to.
CloseHandles(numbers, terminated) ==
    LET ends == jobHandle \in numbers /\ killOnClose IN
    /\ ours' = ours \ numbers
    /\ theirs' = theirs \ numbers
    /\ jobHandle' = IF jobHandle \in numbers THEN NoHandle ELSE jobHandle
    /\ child' = IF child \in Alive /\ (terminated \/ (ends /\ assigned)) THEN "ended" ELSE child
    /\ offspring' = IF ends THEN offspring \ {"inJob"} ELSE offspring

\* A call succeeds, and returns the number of a new handle in variable v.
Opens(v, next) ==
    /\ \E h \in Handles \ (ours \cup theirs) :
          ours' = ours \cup {h} /\ held' = [held EXCEPT ![v] = h]
    /\ at' = next

\* A call fails: the defers run, and what the branch says is closed.
Deferred == {"user", "linked", "tok", "thread"}

Fail(names, terminated) ==
    /\ CloseHandles(Holds(Deferred \cup names), terminated)
    /\ held' = Nothing /\ env' = FALSE /\ at' = "idle"
    /\ UNCHANGED <<p, killOnClose, assigned>>

-----------------------------------------------------------------------------
\* A path or an argument that cannot be converted is refused before this.  The
\* Supervisor has closed the Process before.
Launch ==
    /\ at = "idle" /\ p = Closed
    /\ at' = "query"
    /\ child' = "none" /\ assigned' = FALSE /\ killOnClose' = FALSE
    /\ UNCHANGED <<held, env, p, ours, theirs, jobHandle, offspring>>

QueryUser ==
    /\ at = "query"
    /\ \/ /\ \E next \in {"choose", "duplicate"} : Opens("user", next)
          /\ UNCHANGED <<env, p, theirs, jobHandle, killOnClose, child, assigned, offspring>>
       \/ Fail({}, FALSE)

\* The elevation type, and whether there is an elevated token to be had.
Choose ==
    /\ at = "choose"
    /\ \/ \E token \in Token :
            LET choice == chooseElevation(token.kind, token.isElevated) IN
            \/ /\ choice # "impossible"
               /\ at' = IF choice = "withLinked" THEN "linked" ELSE "duplicate"
               /\ UNCHANGED <<held, env, p, windowsVars, killOnClose, assigned>>
            \/ choice = "impossible" /\ Fail({}, FALSE)
       \/ Fail({}, FALSE)

GetLinked ==
    /\ at = "linked"
    /\ \/ /\ Opens("linked", "duplicate")
          /\ UNCHANGED <<env, p, theirs, jobHandle, killOnClose, child, assigned, offspring>>
       \/ Fail({}, FALSE)

\* userToken returns the new token and closes the others.
Duplicate ==
    /\ at = "duplicate"
    /\ \/ \E h \in Handles \ (ours \cup theirs) :
            /\ ours' = (ours \cup {h}) \ Holds({"user", "linked"})
            /\ theirs' = theirs \ Holds({"user", "linked"})
            /\ held' = [Nothing EXCEPT !["tok"] = h]
            /\ at' = "environment"
            /\ UNCHANGED <<env, p, jobHandle, killOnClose, child, assigned, offspring>>
       \/ Fail({}, FALSE)

CreateEnvironment ==
    /\ at = "environment"
    /\ \/ /\ env' = TRUE /\ at' = "job"
          /\ UNCHANGED <<held, p, windowsVars, killOnClose, assigned>>
       \/ Fail({}, FALSE)

CreateJob ==
    /\ at = "job"
    /\ \/ /\ Opens("job", "limit")
          /\ jobHandle' = held'["job"]
          /\ UNCHANGED <<env, p, theirs, killOnClose, child, assigned, offspring>>
       \/ Fail({}, FALSE)

SetLimit ==
    /\ at = "limit"
    /\ \/ /\ killOnClose' = TRUE /\ at' = "create"
          /\ UNCHANGED <<held, env, p, windowsVars, assigned>>
       \/ Fail({"job"}, FALSE)

\* Mutant: without CREATE_SUSPENDED.
CreateRunning ==
    /\ at = "create"
    /\ \/ /\ \E h, t \in Handles \ (ours \cup theirs) :
                /\ h # t
                /\ ours' = ours \cup {h, t}
                /\ held' = [held EXCEPT !["process"] = h, !["thread"] = t]
          /\ child' = "running"
          /\ at' = "assign"
          /\ UNCHANGED <<env, p, theirs, jobHandle, killOnClose, assigned, offspring>>
       \/ Fail({"job"}, FALSE)

\* CreateProcessAsUser, suspended; it returns two handles.
CreateProcess ==
    /\ at = "create"
    /\ \/ /\ \E h, t \in Handles \ (ours \cup theirs) :
                /\ h # t
                /\ ours' = ours \cup {h, t}
                /\ held' = [held EXCEPT !["process"] = h, !["thread"] = t]
          /\ child' = "suspended"
          /\ at' = "assign"
          /\ UNCHANGED <<env, p, theirs, jobHandle, killOnClose, assigned, offspring>>
       \/ Fail({"job"}, FALSE)

\* Mutant: the failure leaves the suspended process behind.
AssignSpares ==
    /\ at = "assign"
    /\ \/ /\ child = "suspended"
          /\ assigned' = TRUE /\ at' = "resume"
          /\ UNCHANGED <<held, env, p, windowsVars, killOnClose>>
       \/ Fail({"process", "job"}, FALSE)

\* A process that has been killed meanwhile cannot be assigned.
Assign ==
    /\ at = "assign"
    /\ \/ /\ child = "suspended"
          /\ assigned' = TRUE /\ at' = "resume"
          /\ UNCHANGED <<held, env, p, windowsVars, killOnClose>>
       \/ Fail({"process", "job"}, TRUE)

Resume ==
    /\ at = "resume"
    /\ \/ /\ p' = [handle |-> held["process"], job |-> held["job"]]
          /\ child' = IF child = "suspended" THEN "running" ELSE child
          /\ ours' = ours \ Holds(Deferred)
          /\ theirs' = theirs \ Holds(Deferred)
          /\ held' = Nothing /\ env' = FALSE /\ at' = "idle"
          /\ UNCHANGED <<jobHandle, killOnClose, assigned, offspring>>
       \/ Fail({"process", "job"}, TRUE)

\* Mutant: only one of the numbers is cleared.
CloseClearsJob ==
    /\ at # "dead"
    /\ CloseHandles({p.handle, p.job} \ {NoHandle}, FALSE)
    /\ p' = [p EXCEPT !.job = NoHandle]
    /\ UNCHANGED <<at, held, env, killOnClose, assigned>>

\* Process.Close, whenever the caller likes and as often.
Close ==
    /\ at # "dead"
    /\ CloseHandles({p.handle, p.job} \ {NoHandle}, FALSE)
    /\ p' = Closed
    /\ UNCHANGED <<at, held, env, killOnClose, assigned>>

-----------------------------------------------------------------------------
\* The rest of the service opens and closes handles.
TheyOpen ==
    /\ at # "dead"
    /\ \E h \in Handles \ (ours \cup theirs) : theirs' = theirs \cup {h}
    /\ UNCHANGED <<at, held, env, p, ours, jobHandle, killOnClose, child, assigned, offspring>>

TheyClose ==
    /\ \E h \in theirs : theirs' = theirs \ {h}
    /\ UNCHANGED <<at, held, env, p, ours, jobHandle, killOnClose, child, assigned, offspring>>

\* The process starts others, and it and they end, or are ended.
Spawns ==
    /\ child = "running"
    /\ offspring' = offspring \cup {IF assigned THEN "inJob" ELSE "outside"}
    /\ UNCHANGED <<at, held, env, p, ours, theirs, jobHandle, killOnClose, child, assigned>>

Ends ==
    /\ \/ child \in Alive /\ child' = "ended" /\ UNCHANGED offspring
       \/ offspring' \in SUBSET offspring /\ UNCHANGED child
    /\ UNCHANGED <<at, held, env, p, ours, theirs, jobHandle, killOnClose, assigned>>

\* Windows closes every handle of the service.
ServiceDies ==
    /\ at # "dead" /\ at' = "dead"
    /\ CloseHandles(ours \cup theirs, FALSE)
    /\ held' = Nothing /\ env' = FALSE /\ p' = Closed
    /\ UNCHANGED <<killOnClose, assigned>>

Init ==
    /\ at = "idle" /\ held = Nothing /\ env = FALSE /\ p = Closed
    /\ ours = {} /\ theirs = {}
    /\ jobHandle = NoHandle /\ killOnClose = FALSE
    /\ child = "none" /\ assigned = FALSE /\ offspring = {}

LaunchInSession == \/ Launch \/ QueryUser \/ Choose \/ GetLinked \/ Duplicate
                   \/ CreateEnvironment \/ CreateJob \/ SetLimit \/ CreateProcess
                   \/ Assign \/ Resume

Others == TheyOpen \/ TheyClose \/ Spawns \/ Ends \/ ServiceDies

Next == LaunchInSession \/ Close \/ Others

Spec == Init /\ [][Next]_vars

-----------------------------------------------------------------------------
TypeOK ==
    /\ at \in {"idle", "query", "choose", "linked", "duplicate", "environment", "job",
               "limit", "create", "assign", "resume", "dead"}
    /\ held \in [Locals -> Handles \cup {NoHandle}]
    /\ p \in [handle : Handles, job : Handles] \cup {Closed}
    /\ ours \subseteq Handles /\ theirs \subseteq Handles /\ ours \cap theirs = {}
    /\ jobHandle \in Handles \cup {NoHandle}
    /\ env \in BOOLEAN /\ killOnClose \in BOOLEAN /\ assigned \in BOOLEAN
    /\ child \in {"none", "suspended", "running", "ended"}
    /\ offspring \subseteq {"inJob", "outside"}

\* A launch that fails at any of its calls has closed every handle, freed its block
\* and ended the process it had created; one that succeeds has left open the
\* handles of the process and the job, and Close leaves none
\* (session_windows.go:218-266, 305-315).
NothingLeaks ==
    at = "idle" => /\ ours = {p.handle, p.job} \ {NoHandle}
                   /\ ~env
                   /\ child # "suspended"
                   /\ p = Closed => child # "running" /\ offspring = {}

\* No code of the payload runs outside a job that ends with the service: neither the
\* process nor a descendant, even of a process that has ended, and neither while
\* the launch is under way nor after Close or the service's death
\* (CREATE_SUSPENDED; session_windows.go:181-183).
NothingEscapes ==
    child = "running" \/ offspring # {} =>
        jobHandle \in ours /\ assigned /\ killOnClose /\ "outside" \notin offspring

\* No step of the launch or of Close closes a handle of the rest of the service, not
\* even one, though Close is called again after Windows has given the numbers to
\* others (session_windows.go:301-304).
ClosesOnlyOwn == [][LaunchInSession \/ Close => theirs \subseteq theirs']_vars
=============================================================================
