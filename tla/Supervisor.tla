----------------------------- MODULE Supervisor -----------------------------
(***************************************************************************)
(* Supervisor.Run of supervisor.go with the session lookup and the launch   *)
(* of session_windows.go, as one service process lives through it: the      *)
(* update check retried until it passes, the wait for a signed-in user, the *)
(* launch, the wait for the payload, the back-off, the stop.                *)
(*                                                                          *)
(* Time is abstract: a sleep is a state that its timer or the stop ends;    *)
(* `healthy` says that the payload has been up for healthyAfter.            *)
(* Durations are in seconds.  What EnsureLatest does inside is Updater's    *)
(* business: here the check passes or fails.                                *)
(***************************************************************************)
EXTENDS Backoff, Elevation

CONSTANTS
    Configs,            \* what a deployment may set in Supervisor
    Session, Console,   \* sessions; the one attached to the console
    NoSession,
    User, NoUser,
    TokenOf             \* the token each user gets at sign-in

Config == [Bin : BOOLEAN, UpdateURL : BOOLEAN, LaunchElevated : BOOLEAN,
           DisableAutoElevate : BOOLEAN, windows : BOOLEAN,
           LocalSystem : BOOLEAN,   \* the account the service runs as
           MinBackoff : Duration, MaxBackoff : Duration]

ASSUME ConfigAssumption == Configs \subseteq Config
ASSUME SessionAssumption == Console \in Session /\ NoSession \notin Session
ASSUME UserAssumption ==
    /\ NoUser \notin User
    /\ TokenOf \in [User -> Token]
    /\ \A u \in User :
          /\ TokenOf[u].kind = elevationFull => TokenOf[u].isElevated
          /\ TokenOf[u].kind = elevationLimited => ~TokenOf[u].isElevated

\* The defaults (2s, 30s, 60s) are durations.
ASSUME DefaultsAssumption == MaxDuration >= 60

VARIABLES
    conf,        \* the configuration; it never changes
    demands,     \* the payload's manifest says requireAdministrator
    users,       \* who is signed in to each session
    active,      \* the sessions Windows reports as active
    calm,        \* launches, waits and checks no longer fail by accident
    cancelled,   \* the service is being stopped
    pc,
    exit,        \* how Run ended: "none" yet, "nil" or "error"
    checked,     \* the update check has passed in this Run
    wait, backoff, elevate, sid,
    jobs,        \* open job objects: payload trees nobody has closed
    rights,      \* the payload's user, and whether it has administrator rights
    alive, healthy

vars == <<conf, demands, users, active, calm, cancelled, pc, exit, checked,
          wait, backoff, elevate, sid, jobs, rights, alive, healthy>>
machine == <<demands, users, active, calm>>
process == <<jobs, rights, alive, healthy>>
memory == <<checked, wait, backoff, elevate, sid>>

-----------------------------------------------------------------------------
minWait == 2
maxWait == 60

Default(d, dflt) == IF d <= 0 THEN dflt ELSE d
minBackoff(c) == Default(c.MinBackoff, 2)
maxBackoff(c) ==
    IF Default(c.MaxBackoff, 30) < minBackoff(c) THEN minBackoff(c)
    ELSE Default(c.MaxBackoff, 30)

\* A user token can be had for the session; any other account than LocalSystem
\* cannot even ask, which hasSignedInUser takes for a yes.
SignedIn(s) == users[s] # NoUser \/ ~conf.LocalSystem

\* Mutant: only the console is looked at.
ConsoleOnly == {s \in {Console} : SignedIn(s)}

\* ActiveConsoleSession: the console when a user is signed in to it, else any
\* other active session with one.
ReadySessions ==
    IF SignedIn(Console) THEN {Console}
    ELSE {s \in active \ {Console} : SignedIn(s)}

\* What LaunchInSession returns for the user u of the session, if Windows has
\* no failure of its own.  Without the privilege to ask for the token that is an
\* error like any other, which Run retries.
LaunchResult(u, elevated) ==
    CASE ~conf.LocalSystem -> "failed"
      [] conf.LocalSystem /\ u = NoUser -> "noUser"
      [] conf.LocalSystem /\ u # NoUser /\ elevated /\ ~HasElevated(TokenOf[u]) -> "noToken"
      [] OTHER -> IF demands /\ ~LaunchesAsAdmin(TokenOf[u], elevated)
                  THEN "elevationRequired" ELSE "launched"

Results == {"noUser", "noToken", "elevationRequired", "launched", "failed"}

NoRights == [user |-> NoUser, admin |-> FALSE]

Goto(label) == pc' = label /\ UNCHANGED <<exit, cancelled>>
Return(result) == pc' = "exited" /\ exit' = result /\ UNCHANGED cancelled

-----------------------------------------------------------------------------
\* Run up to the update check: it needs a name for the payload, and binPath
\* the path of the service's own executable.
Start ==
    /\ pc = "start"
    /\ \/ (~conf.Bin \/ ~calm) /\ Return("error")
       \/ conf.Bin /\ Goto(IF conf.UpdateURL THEN "check" ELSE "stat")
    /\ wait' = minWait
    /\ UNCHANGED <<conf, machine, process, checked, backoff, elevate, sid>>

\* updateBeforeLaunch: its loop condition, one EnsureLatest and, on failure, a
\* sleep.  Every error it returns comes from a stopped context.
CheckStopped ==
    /\ pc = "check"
    /\ cancelled
    /\ Return("nil")
    /\ UNCHANGED <<conf, machine, process, memory>>

CheckPasses ==
    /\ pc = "check"
    /\ ~cancelled
    /\ checked' = TRUE
    /\ Goto("stat")
    /\ UNCHANGED <<conf, machine, process, wait, backoff, elevate, sid>>

\* Mutant: offline, the payload that is there is launched.
CheckFailsOpen ==
    /\ pc = "check"
    /\ ~calm /\ ~cancelled
    /\ Goto("stat")
    /\ UNCHANGED <<conf, machine, process, memory>>

CheckFails ==
    /\ pc = "check"
    /\ ~calm /\ ~cancelled
    /\ Goto("checkSleep")
    /\ UNCHANGED <<conf, machine, process, memory>>

CheckAgain ==
    /\ pc = "checkSleep"
    /\ wait' = grow(wait, maxWait)
    /\ Goto("check")
    /\ UNCHANGED <<conf, machine, process, checked, backoff, elevate, sid>>

\* The payload has to be there; then the supervising loop is set up.
Stat ==
    /\ pc = "stat"
    /\ \/ ~calm /\ Return("error") /\ UNCHANGED <<backoff, elevate>>
       \/ /\ backoff' = minBackoff(conf)
          /\ elevate' = conf.LaunchElevated
          /\ Goto("loop")
    /\ UNCHANGED <<conf, machine, process, checked, wait, sid>>

\* Mutant: elevate starts at the configured value on every turn of the loop.
LoopForgets ==
    /\ pc = "loop"
    /\ IF cancelled THEN Return("nil") ELSE Goto("session")
    /\ elevate' = conf.LaunchElevated
    /\ UNCHANGED <<conf, machine, process, checked, wait, backoff, sid>>

Loop ==
    /\ pc = "loop"
    /\ IF cancelled THEN Return("nil") ELSE Goto("session")
    /\ UNCHANGED <<conf, machine, process, memory>>

\* WaitForActiveConsole polls; a session that is ready wins over a stop.
SessionReady ==
    /\ pc = "session"
    /\ conf.windows
    /\ sid' \in ReadySessions
    /\ Goto("launch")
    /\ UNCHANGED <<conf, machine, process, checked, wait, backoff, elevate>>

SessionStopped ==
    /\ pc = "session"
    /\ conf.windows /\ cancelled
    /\ Return("nil")
    /\ UNCHANGED <<conf, machine, process, memory>>

\* Mutant: the lookup error is reported as a clean stop.
LookupErrorAsStop ==
    /\ pc = "session"
    /\ ~conf.windows
    /\ Return("nil")
    /\ UNCHANGED <<conf, machine, process, memory>>

\* Session lookup is not supported here (session_other.go).
SessionUnsupported ==
    /\ pc = "session"
    /\ ~conf.windows
    /\ Return(IF cancelled THEN "nil" ELSE "error")
    /\ UNCHANGED <<conf, machine, process, memory>>

\* LaunchInSession for whoever is signed in by now.
LaunchOk ==
    /\ pc = "launch"
    /\ LaunchResult(users[sid], elevate) = "launched"
    /\ jobs' = jobs + 1
    /\ rights' = [user |-> users[sid],
                  admin |-> LaunchesAsAdmin(TokenOf[users[sid]], elevate)]
    /\ alive' = TRUE /\ healthy' = FALSE
    /\ Goto("wait")
    /\ UNCHANGED <<conf, machine, memory>>

\* How Run answers each error of the launch, in the order it tests them.
LaunchFails ==
    /\ pc = "launch"
    /\ \E err \in Results \ {"launched"} :
          /\ err = LaunchResult(users[sid], elevate) \/ (err = "failed" /\ ~calm)
          /\ \/ /\ err = "noToken"
                /\ Return("error")
                /\ UNCHANGED elevate
             \/ /\ shouldAutoElevate(err, elevate, conf.DisableAutoElevate)
                /\ elevate' = TRUE
                /\ Goto("loop")
             \/ /\ err = "elevationRequired"
                /\ ~shouldAutoElevate(err, elevate, conf.DisableAutoElevate)
                /\ Return("error")
                /\ UNCHANGED elevate
             \/ err = "noUser" /\ Goto("signIn") /\ UNCHANGED elevate
             \/ err = "failed" /\ Goto("delay") /\ UNCHANGED elevate
    /\ UNCHANGED <<conf, machine, process, checked, wait, backoff, sid>>

\* sleep(ctx, min): nobody was signed in after all.
SignInAgain ==
    /\ pc = "signIn"
    /\ Goto("loop")
    /\ UNCHANGED <<conf, machine, process, memory>>

\* sleep(ctx, backoff), after a launch that failed or a payload that ended.
DelayOver ==
    /\ pc = "delay"
    /\ backoff' = grow(backoff, maxBackoff(conf))
    /\ Goto("loop")
    /\ UNCHANGED <<conf, machine, process, checked, wait, elevate, sid>>

\* Mutant: the stop does not end the wait for the payload.
WaitUntilExit ==
    /\ pc = "wait"
    /\ ~alive
    /\ Goto("close")
    /\ UNCHANGED <<conf, machine, process, memory>>

\* Process.Wait: the payload ended, the stop came, or the wait itself failed.
WaitEnds ==
    /\ pc = "wait"
    /\ ~alive \/ cancelled \/ ~calm
    /\ Goto("close")
    /\ UNCHANGED <<conf, machine, process, memory>>

\* Mutants: the job is closed only once the payload is known to be dead; the
\* back-off is reset by any payload that started.
CloseOnlyExited ==
    /\ pc = "close"
    /\ jobs' = IF alive THEN jobs ELSE jobs - 1
    /\ alive' = FALSE /\ healthy' = FALSE /\ rights' = NoRights
    /\ IF cancelled THEN Return("nil") /\ UNCHANGED backoff
       ELSE backoff' = (IF healthy THEN minBackoff(conf) ELSE backoff) /\ Goto("delay")
    /\ UNCHANGED <<conf, machine, checked, wait, elevate, sid>>

CloseAlwaysResets ==
    /\ pc = "close"
    /\ jobs' = jobs - 1
    /\ alive' = FALSE /\ healthy' = FALSE /\ rights' = NoRights
    /\ IF cancelled THEN Return("nil") /\ UNCHANGED backoff
       ELSE backoff' = minBackoff(conf) /\ Goto("delay")
    /\ UNCHANGED <<conf, machine, checked, wait, elevate, sid>>

\* Mutant: Close closes a handle that is closed already.
CloseTwice ==
    /\ pc = "close"
    /\ jobs' = jobs - 2
    /\ alive' = FALSE /\ healthy' = FALSE /\ rights' = NoRights
    /\ IF cancelled THEN Return("nil") /\ UNCHANGED backoff
       ELSE backoff' = (IF healthy THEN minBackoff(conf) ELSE backoff) /\ Goto("delay")
    /\ UNCHANGED <<conf, machine, checked, wait, elevate, sid>>

\* proc.Close ends the payload's whole tree, whatever Wait returned.  A payload
\* that was up long enough resets the back-off.
Close ==
    /\ pc = "close"
    /\ jobs' = jobs - 1
    /\ alive' = FALSE /\ healthy' = FALSE /\ rights' = NoRights
    /\ IF cancelled THEN Return("nil") /\ UNCHANGED backoff
       ELSE backoff' = (IF healthy THEN minBackoff(conf) ELSE backoff) /\ Goto("delay")
    /\ UNCHANGED <<conf, machine, checked, wait, elevate, sid>>

\* A sleep that the stop ends makes Run return nil.
SleepStopped ==
    /\ pc \in {"checkSleep", "signIn", "delay"}
    /\ cancelled
    /\ Return("nil")
    /\ UNCHANGED <<conf, machine, process, memory>>

RunStep == Start \/ CheckStopped \/ CheckPasses \/ CheckFails \/ CheckAgain
           \/ Stat \/ Loop \/ SessionReady \/ SessionStopped \/ SessionUnsupported
           \/ LaunchOk \/ LaunchFails \/ SignInAgain \/ DelayOver \/ WaitEnds
           \/ Close \/ SleepStopped

-----------------------------------------------------------------------------
\* Execute cancels the context: upon a stop, or when it returns.
Stop ==
    /\ ~cancelled
    /\ cancelled' = TRUE
    /\ UNCHANGED <<conf, machine, process, memory, pc, exit>>

\* The service process starts anew: after Run returned, or because it was
\* killed; then Windows closes its handles, and the job takes the payload down.
\* An update may have brought a payload with another manifest.
Restart ==
    /\ pc = "exited" \/ ~calm
    /\ pc' = "start" /\ exit' = "none" /\ cancelled' = FALSE
    /\ checked' = FALSE /\ wait' = 0 /\ backoff' = 0 /\ elevate' = FALSE
    /\ sid' = NoSession
    /\ jobs' = 0 /\ rights' = NoRights /\ alive' = FALSE /\ healthy' = FALSE
    /\ IF calm THEN UNCHANGED demands ELSE demands' \in BOOLEAN
    /\ UNCHANGED <<conf, users, active, calm>>

\* The payload.
PayloadExits ==
    /\ alive
    /\ alive' = FALSE
    /\ UNCHANGED <<conf, machine, cancelled, pc, exit, memory, jobs, rights, healthy>>

StaysUp ==
    /\ pc = "wait" /\ alive /\ ~healthy
    /\ healthy' = TRUE
    /\ UNCHANGED <<conf, machine, cancelled, pc, exit, memory, jobs, rights, alive>>

\* People sign in and out, sessions connect and disconnect.  A sign-out ends
\* the processes of the session.
SignIn(s, u) ==
    /\ ~calm
    /\ users[s] = NoUser
    /\ users' = [users EXCEPT ![s] = u]
    /\ UNCHANGED <<conf, demands, active, calm, cancelled, pc, exit, memory, process>>

SignOut(s) ==
    /\ ~calm
    /\ users[s] # NoUser
    /\ users' = [users EXCEPT ![s] = NoUser]
    /\ alive' = (alive /\ sid # s)
    /\ UNCHANGED <<conf, demands, active, calm, cancelled, pc, exit, memory, jobs, rights, healthy>>

Connect(s) ==
    /\ ~calm
    /\ active' = IF s \in active THEN active \ {s} ELSE active \cup {s}
    /\ UNCHANGED <<conf, demands, users, calm, cancelled, pc, exit, memory, process>>

Settle ==
    /\ ~calm
    /\ calm' = TRUE
    /\ UNCHANGED <<conf, demands, users, active, cancelled, pc, exit, memory, process>>

Environment == \/ Stop \/ Restart \/ PayloadExits \/ StaysUp \/ Settle
               \/ \E s \in Session : \/ SignOut(s) \/ Connect(s)
                                     \/ \E u \in User : SignIn(s, u)

Init ==
    /\ conf \in Configs
    /\ demands \in BOOLEAN
    /\ users = [s \in Session |-> NoUser]
    /\ active = {Console}
    /\ calm = FALSE /\ cancelled = FALSE
    /\ pc = "start" /\ exit = "none"
    /\ checked = FALSE /\ wait = 0 /\ backoff = 0 /\ elevate = FALSE
    /\ sid = NoSession
    /\ jobs = 0 /\ rights = NoRights /\ alive = FALSE /\ healthy = FALSE

Next == RunStep \/ Environment

Spec == Init /\ [][Next]_vars

\* Run runs on and its timers fire.  Nothing is assumed of the payload, of
\* the people or of the service manager.
FairSpec == Spec /\ WF_vars(RunStep)

-----------------------------------------------------------------------------
Supervising == {"loop", "session", "launch", "signIn", "delay", "wait", "close"}

TypeOK ==
    /\ conf \in Configs
    /\ demands \in BOOLEAN
    /\ users \in [Session -> User \cup {NoUser}]
    /\ active \subseteq Session
    /\ calm \in BOOLEAN /\ cancelled \in BOOLEAN
    /\ pc \in {"start", "check", "checkSleep", "stat", "exited"} \cup Supervising
    /\ exit \in {"none", "nil", "error"}
    /\ checked \in BOOLEAN
    /\ wait \in Duration /\ backoff \in Duration
    /\ elevate \in BOOLEAN
    /\ sid \in Session \cup {NoSession}
    /\ jobs \in Nat
    /\ rights \in [user : User \cup {NoUser}, admin : BOOLEAN]
    /\ alive \in BOOLEAN /\ healthy \in BOOLEAN

\* At most one payload tree exists, only while Run waits for it: no path back
\* to a launch, and no way out of Run, leaves one running (supervisor.go:243).
OnePayload == jobs = (IF pc \in {"wait", "close"} THEN 1 ELSE 0)

\* With an update URL no payload runs before the check of this Run has passed.
NeverLaunchUnchecked == jobs > 0 /\ conf.UpdateURL => checked

\* A payload has rights its user's ordinary token lacks only when the
\* deployment asked for that, or its manifest did and the deployment
\* did not refuse (supervisor.go:204-222, elevation.go).
ElevationIsAuthorised ==
    jobs > 0 /\ rights.admin /\ ~TokenOf[rights.user].isElevated =>
        conf.LaunchElevated \/ (demands /\ ~conf.DisableAutoElevate)

\* A payload configured or built to need administrator rights has them.
RightsSuffice == jobs > 0 /\ (conf.LaunchElevated \/ demands) => rights.admin

\* Run returns nil only when it was stopped, so the service manager
\* sees every failure (supervisor.go:142-149, 183-189).
ExitIsHonest == exit = "nil" => cancelled

\* The pauses stay within the configured bounds and never go negative, up to
\* the largest duration (grow).
BackoffInBounds ==
    /\ pc \in Supervising => backoff \in minBackoff(conf)..maxBackoff(conf)
    /\ pc \in {"check", "checkSleep"} => wait \in minWait..maxWait

\* Within one Run the back-off shrinks only after a payload stayed up
\* (supervisor.go:249-254): a crash loop keeps slowing down.
BackoffShrinksOnlyWhenHealthy ==
    [][backoff' < backoff /\ {pc, pc'} \subseteq Supervising => healthy]_vars

\* Once a Run launches elevated it always does, and Windows refuses none of
\* its launches for want of rights any more: the retry that raised elevate
\* is the last of its kind (supervisor.go:174-177).
RaisedOnce ==
    [][{pc, pc'} \subseteq Supervising /\ elevate =>
          /\ elevate'
          /\ pc = "launch" => LaunchResult(users[sid], elevate) # "elevationRequired"]_vars

\* A stop always ends Run, wherever it finds it (unless the process dies first).
StopIsHonoured == cancelled ~> pc = "exited" \/ ~cancelled

\* Someone is signed in where the lookup has to see it, and may be asked for.
Reachable == conf.LocalSystem /\ \E s \in active \cup {Console} : users[s] # NoUser

\* Once nothing fails by accident and somebody is signed in, a started service
\* gets its payload up, or Run ends and says why.
PayloadComesUp ==
    calm /\ Reachable /\ pc = "check" ~> (pc = "wait" /\ alive) \/ pc = "exited"

-----------------------------------------------------------------------------
\* supervisor.go:213-217: when a launch is given up because the payload
\* requires administrator, retrying can only fail the same way for ever.
RetryCouldOnlyFail ==
    [][pc = "launch" /\ pc' = "exited" /\ LaunchResult(users[sid], elevate) = "elevationRequired"
          => \A u \in User : LaunchResult(u, elevate) # "launched"]_vars
=============================================================================
