# winsvr: a verification of the update, the supervisor and the life of the service

winsvr is a Go library. It turns a program into a Windows service that keeps a
*payload* executable up to date and runs it, supervised, in the session of
whoever is signed in. This directory holds TLA+ models of its core, the TLC
runs that check them on small instances, and proofs, checked by TLAPS, of
their safety properties for every value of the constants. Paths such as
`update.go:282` are relative to the repository.

## 1. The system

| Component | Where | State it keeps | Operations |
|---|---|---|---|
| Updater | `update.go` | the payload file, the state file `*.update.json` (ETag and CRC-64), `.winsvr-update-*` downloads | `EnsureLatest`: sweep, load state, HEAD, compare, GET, copy, checksum, install, save state |
| Back-off | `supervisor.go:317-333` | none | `grow`, `sleep` |
| Elevation | `elevation.go`, `userToken` | none | `chooseElevation`, `shouldAutoElevate` |
| Supervisor | `supervisor.go` | locals of `Run`: back-off, whether to elevate, the current process | `Run`, `updateBeforeLaunch` |
| Sessions and launch | `session_windows.go` | the `Process` (a process handle and a job object) | `ActiveConsoleSession`, `WaitForActiveConsole`, `LaunchInSession`, `Wait`, `Close` |
| Service handler | `service_windows.go` | the state reported to the SCM, the `done` channel | `Execute`, `runRecovered` |
| Service manager | `manager_windows.go` | handles; in the SCM's database the service and its recovery actions; the event source | `Install`, `Uninstall`, `stopAndWait`, `Start`, `Stop`, `Status`, `Elevate` |
| Event log | `eventlog_windows.go`, `winsvr.go` | none | `truncate`, `eventText`, the slog handler |
| Double-click dialog | `interact_windows.go` | none | a message box |
| Other platforms | `*_other.go` | none | stubs that return `ErrUnsupported` |
| Example agent and helper | `example/` | none | `dispatch`: `manage`, `install`, `uninstall`, `run` |

How they interact. The SCM starts the process and calls `Execute`, which runs
`Supervisor.Run` in a goroutine with a context that a stop request cancels.
`Run` calls `EnsureLatest` until it succeeds (`updateBeforeLaunch`), then loops:
find a session with a signed-in user, launch the payload there inside a
kill-on-close job, wait for its end, close it, pause, again. The only state
that outlives the process is on disk: the payload, the state file and
downloads left by a process that died. An error out of `Run` becomes exit code 1
of the service, upon which the SCM's recovery actions restart it. Administrators
reach the SCM from processes of their own, which come and go, fail and
are cancelled independently of the service and of each other.

Behaviour that is hard to get right and hard to test:

* the server publishes between the HEAD and the GET, or on every read;
* the process dies between two file operations: remove and rename, rename and
  save, truncate and write of the state file;
* a scanner locks a file for a moment or for good, a stop cuts a pause short;
* two updaters meet in one directory, one sweeping while the other downloads;
* people sign in and out between the session check and the launch;
* retries, their bounds, and pauses that double up to a configured maximum;
* an installation fails half-way; a service is removed while it starts, hangs or is
  started again by its recovery action; two administrators work at once;
* a launch fails after the process was created, the service is killed before the
  process is in its job, a handle's number is handed out again;
* everything that fails may fail once, for ever, or only while a stop is under way.

What makes each component correct:

* **Updater.** The state file pairs an ETag with the checksum of its own bytes
  and nothing else; "up to date" is said only of a payload that has that
  checksum; only whole, non-empty bodies within the limit are installed; no
  error path leaks a download; the retries end; once the environment behaves the
  current release gets installed, and downloads then stop.
* **Back-off.** Pauses stay in their bounds, never wrap, and shrink only after a
  healthy payload.
* **Elevation and Supervisor.** At most one payload tree, none after `Run`; none
  before the check; administrator rights only where the deployment or the
  manifest asks for them, and always where they do; elevation, once it was
  needed, for good; nil only for a stop; a stop
  always ends `Run`; a payload comes up when it can.
* **Service handler.** A stop is answered within the stop timeout; the exit code
  is 1 exactly when `Run` failed on its own account.
* **Launch.** Whatever call fails, no handle and no process stays behind; no
  code of the payload ever runs outside its job; closing twice is harmless.
* **Service manager.** A service that is registered is completely installed; a nil
  from `Uninstall` is said only of a service that was seen to stop; failures are restarted and
  stops are not undone; commands return, and what was removed disappears.

`PROJECT.json` lists the hazards line by line, with the properties for each.

## 2. The modules

| Module | Models | Role |
|---|---|---|
| `Updater` | `update.go` | state machine; any number of updaters on one payload path |
| `MCUpdater` | | values of its constants for TLC |
| `UpdaterProofs` | | inductive invariant and theorems |
| `DownloadProofs` | | theorems about downloads: who deletes them and leaves them behind, how many steps a call takes, when it succeeds, when they are over |
| `PayloadSync` | what `EnsureLatest` promises, without downloads, retries or locks | abstract specification; `Updater` implements it |
| `UpdaterRefinement` | | the proof that it does |
| `Backoff` | `grow` with the width of `time.Duration` | operators |
| `Elevation` | `elevation.go` and the token choice of `userToken` | operators |
| `Supervisor` | `Supervisor.Run`, session lookup, results of a launch | state machine, uses the two above |
| `MCSupervisor` | | values of its constants for TLC |
| `SupervisorProofs` | | `grow`'s lemma, inductive invariant and theorems |
| `ServiceHandler` | `handler.Execute` and `runRecovered`, over any Service | state machine |
| `ServiceHandlerProofs` | | inductive invariant and theorems |
| `ServiceManager` | `manager_windows.go`, the commands of `example/agent`, the SCM's database | state machine, composed with an instance of `ServiceHandler` |
| `ServiceManagerProofs` | | the instance is a `ServiceHandler`; inductive invariant and theorems |
| `Agent` | the process of an installed agent: `Execute` over `Supervisor.Run` | composes instances of `ServiceHandler` and `Supervisor` |
| `MCAgent` | | values of its constants for TLC |
| `AgentProofs` | | it is a `ServiceHandler` and a `Supervisor`; inductive invariant and theorems |
| `Launch` | `LaunchInSession`, `userToken`, `Process.Close`, call by call | state machine, uses `Elevation` |
| `LaunchProofs` | | inductive invariant and theorems |

Two modules compose others: `ServiceManager` administrators, the SCM and
`ServiceHandler`; `Agent` `ServiceHandler` and `Supervisor`. By itself `Supervisor`
sees of `ServiceHandler` only that its context is cancelled at some moment, and
`ServiceHandler` of `Supervisor` a Run that may end in any way; in `Agent` the one's
cancel is the other's context, and the one's return the other's result. The
remaining two are seen through what is expected of them: of `Updater`, that a check
passes or fails, and of `Launch`, its results.

### Updater

`payload` is what `u.Path` holds, `record` the state file as `loadState` decodes
it, `temps` the downloads, `pc[p]` and `job[p]` the place and the locals of
updater p's call. A file body is a model value with a size and a checksum.

| Action | Code |
|---|---|
| `EnsureLatest` | entry of `EnsureLatest` and the loop around it in `updateBeforeLaunch`; `sweepTemps` |
| `LoadState`, `Head`, `Compare` | `loadState`, `check`, `matchesInstalled` |
| `Get`, `GetRefused`, `GetFails` | the request and `os.CreateTemp` in `fetch` |
| `CopyOk`, `CopyFails` | `io.Copy` through the limit reader, the length checks |
| `SumOk`, `SumMismatch`, `SumFails` | `fileCRC64` and the comparison of ETags in `download` |
| `RemoveOld`, `Rename*`, `Pause*` | `install` |
| `Truncate`, `WriteRecord` | the two halves of `os.WriteFile` in `saveState` |
| `Restart`, `Cancel` | death and restart of the process; a stop request |
| `Publish`, `Damage`, `Age` | the server, a user or scanner, the clock |
| `Settle` | not in the code: from here on the environment behaves (`calm`) |

Each action is as large as what one process does between two points at which
another process, the file system or a crash can be seen. A request that fails, a
file that is locked, and a removal that is refused are disjuncts, guarded by
`~calm`.

What the model takes for granted of the outside, and why:

* an ETag identifies a body (`README.md` asks the server for that), and every
  answer carries one: an answer without an ETag is a failed request;
* a non-empty body has a non-zero CRC-64 (it fails once in 2^64 bodies);
* a transfer that is cut short is noticed by HTTP's framing, so `io.Copy` fails;
* a file that is open for writing cannot be removed (Go opens without
  `FILE_SHARE_DELETE`; `update.go:43-45` says so);
* `os.CreateTemp` does not draw again the name of a download that is under way.

`PayloadSync` says the same without the inside of a call: `payload`, `record` and
`release` are those of `Updater`; `call` is one of "new", "busy", "delivered" and the
two ends, and `asked` is the release the server answered with last in
this call. A call may confirm the payload, make room and deliver what it was
answered, or fail; once it has delivered it can no longer fail. The refinement
mapping (at the end of `Updater`) reads `call` off the place of a call
(`CallState`) and `asked` off its locals (`Answered`: the GET's answer once
there is one, the HEAD's before).

### Supervisor

`conf` is frozen and ranges over a set of deployments, so that one run covers
them all. `demands` is the payload's manifest; `users` and `active` what
Windows says of the sessions; `pc` the place in `Run`; `wait`, `backoff`,
`elevate`, `sid` its locals; `jobs` counts job objects that nobody has closed,
`rights` remembers whose payload runs and with which rights.

| Action | Code |
|---|---|
| `Start`, `Stat` | `Run` up to its loop |
| `CheckPasses`, `CheckFails`, `CheckAgain`, `CheckStopped` | `updateBeforeLaunch` |
| `Loop`, `SessionReady`, `SessionStopped`, `SessionUnsupported` | top of the loop, `WaitForActiveConsole`, `session_other.go` |
| `LaunchOk`, `LaunchFails` | `LaunchInSession` and the cascade that tests its error |
| `SignInAgain`, `DelayOver`, `SleepStopped` | the pauses, `grow` |
| `WaitEnds`, `Close` | `Process.Wait`, `Process.Close`, the reset of the back-off |
| `Stop`, `Restart` | the context is done: by a stop, or by `Execute`'s deferred cancel, also after `Run`'s return; the next process, after this one ended or was killed |
| `PayloadExits`, `StaysUp`, `SignIn`, `SignOut`, `Connect`, `Settle` | the payload, the people, and `calm` as above |

Sleeps and polls are states that their timer, or the stop, leaves; when both are
due either may win, as Go's `select` allows. `healthy` stands for "was up for
`healthyAfter`". Durations are numbers of seconds in a width
that `MaxDuration` gives.

### ServiceHandler

`status` is what the manager was told last, `request` a request on its way,
`pc` the place in `Execute`, `run` the goroutine, `done` the channel, `result`
what `runRecovered` made of `Run`'s end, and whether the context was done by
then. `obeys` says whether the Service heeds its context; it is frozen.

| Action | Code |
|---|---|
| `Begin`, `Spawn`, `Announce` | `Execute` up to its loop |
| `TakeDone`, `Ending` | the branch of a `Run` that ended on its own account |
| `TakeRequest`, `Echo`, `Stopping` | the branch of a request |
| `Stopped`, `TimesOut` | the inner select |
| `RunReturns`, `Send` | the goroutine: `runRecovered`, the send |
| `Request`, `ReportStopped`, `StartService`, `Die` | the service manager and the dispatcher of `svc.Run`, which is not part of the repository: it hands over one request at a time, with the last status it was given, and never refuses a status; the process that ends or is killed |

When both branches of a select are ready either is taken. In particular a stop
that is waiting while `Run` fails may be overtaken by the failure; the exit code
is then that of the failure, which happened before the stop took effect.

### ServiceManager

The variables of `ServiceHandler` and, beside them, the manager's: `entry` (absent,
registered, marked for deletion), `recovery`, `source`, `handles` (how many are
open), `due` (a recovery action is about to fire); `helpers`, the payload trees
of this and of a former process; `at[a]`, the place of administrator a's command,
`how[a]`, what its `stopAndWait` found, `answer[a]`, what its removal said.
`restarted` and `botched` are history, for the properties.

| Action | Code |
|---|---|
| `Manage`, `Command`, `Refused` | `dispatch` and `ensureAdmin` of `example/agent`; `Status` as the answer it gave; `Connect` or consent that fails |
| `CreateService`, `SetRecoveryActions`, `SetNonCrashFlag`, `InstallAsEventCreate`, `ClearSource`, `Undo` | `Install`, with `fail` |
| `Start`, `StopCommand` | `Start`, `Stop`, through `control` |
| `OpenService`, `DeleteOk`, `DeleteFails`, `RemoveSource` | `Uninstall` |
| `AskStopped`, `AskAccepted`, `AskTooEarly`, `AskFails`, `GiveUp` | `stopAndWait`: one turn of its loop, or its deadline |
| `Execute`, `RunReturns`, `ReportStopped`, `Die`, `Helper` | the service's process (`ServiceHandler`) and its payload |
| `RecoveryFires`, `Forget`, `AdminDies` | the manager; a command that is killed |
| `Settle` | as above |

A step is one call to the manager, so that other administrators, the
service and the recovery action come between any two. Of Windows it takes for granted
that a service marked for deletion disappears when its last handle is closed and
its process has stopped, that it is neither started nor configured meanwhile, that
recovery applies to a process that dies without reporting Stopped and, with the flag
of `SetRecoveryActionsOnNonCrashFailures`, to an exit code other than 0, and
that the handles and jobs of a dead process are closed. Shutdown and
interrogation reach the handler only in `ServiceHandler`'s own run.

### Agent

The variables of both, with one context, and `at` for `Execute`'s place. `exit` of
`Supervisor` is here not a variable but what `runRecovered` handed over (`result.err`).
Run heeds its context, because it is `Supervisor`'s (`obeys`), and failures never cease
(`calm` stays FALSE), which leaves more behaviours than a calm system has.

| Action | Code |
|---|---|
| `Execute`, `Send` | `ServiceHandler`'s; a step that makes the context done is `Supervisor`'s `Stop` |
| `RunStep` | a step of `Supervisor.Run`; its last one is `ServiceHandler`'s `RunReturns` with the same error |
| `Manager` | requests, the last report, the start of the next process |
| `Die` | the process ends or is killed; its payload goes with its job |
| `World` | the payload and the people |

The context is `context.WithCancel`'s: a step of `Run` sees it done from the moment
`Execute` cancels it. A `Run` that panics is not part of it: `ServiceHandler`
and `ServiceManager` have that case.

### Launch

`at` is the call `LaunchInSession` makes next, `held` its local variables, which hold
handle numbers, `p` the two fields of the `Process`; `ours` and `theirs`
are the numbers open now, of the launch and of the rest of the service;
`jobHandle`, `killOnClose`, `child`, `assigned` and `offspring` are
what Windows knows of the job, the process and its descendants.

| Action | Code |
|---|---|
| `QueryUser`, `Choose`, `GetLinked`, `Duplicate` | `userToken`, its defers included |
| `CreateEnvironment`, `CreateJob`, `SetLimit`, `CreateProcess`, `Assign`, `Resume` | `LaunchInSession`; each may fail, and then `Fail` runs the defers and closes what the branch names |
| `Close` | `Process.Close`, at any time and as often as the caller likes |
| `TheyOpen`, `TheyClose` | the rest of the service, which is given freed numbers |
| `Spawns`, `Ends`, `ServiceDies` | the process and its descendants; the end of the service, upon which Windows closes every handle |

A number is closed for whoever has it by then: that is what makes a second
close visible. `ClosesOnlyOwn` says of every step that the launch or `Close` may take,
and not only of one that nobody else could have taken, that it closes nothing of
the others'. `TerminateProcess` on a process just created is taken to succeed.

## 3. The runs

| Run | Question | Result |
|---|---|---|
| `updater_safety` | one updater, with crashes, stops, locks, damage and releases at any moment: are the record, the verdict, the installed file and the clean-up right, and is every call one that `PayloadSync` allows? | holds |
| `updater_pair` | two updaters on one path: do they spoil each other's files? | holds |
| `updater_liveness` | do calls end, does a calm machine converge, do downloads stop? | holds |
| `updater_lock` | is a moment's lock enough to end without a payload? | violated, see 6 |
| `updater_sweep` | can a sweep cost the payload? | violated, see 6 |
| `supervisor` | payload trees, order of check and launch, rights, elevation that is not forgotten, back-off; does a stop end `Run`, does the payload come up? | holds |
| `agent` | handler and supervisor together: is a clean exit always somebody's stop, is a payload that outlives `Execute` owned up to? | holds |
| `service_manager` | is what is installed complete, is nil said only of a service that stopped, are failures restarted and stops not undone, do commands return and removed services go? | holds |
| `manager_uninstall` | is the helper gone when `Uninstall` returns nil? | violated, see 6 |
| `launch` | whatever fails: does a handle or a process leak, does the payload escape its job, does a second `Close` hit another's handle? | holds |
| `service_handler` | exit code, log, an answer to every stop, no goroutine left hanging | holds |
| `supervisor_giveup` | is a launch given up for good only when no launch could succeed? | violated, see 6 |

Every property of a passing run has a mutant: a definition of the module with a
plausible slip in it (a fixed name for downloads, a limit that reads no byte
beyond, a back-off doubled before it is compared, ...), under which TLC finds the
property violated in that same run. The mutants stand next to the definitions
they alter.

### Bounds

Every counter in the code is bounded by the code, so no bound cuts a behaviour
short; what is small is the data.

* *Bodies.* Sizes 0, 1, the limit, and one more than the limit: the cases that
  `fetch` tells apart. One body more, `partial`, is any cut-short file.
  With two distinct good releases the server can change, and change back.
* *Downloads.* Two names: one in use and one left over, or one for each of two
  updaters. With both taken `CreateTemp` fails, which is `GetRefused`.
* *Attempts.* 2 or 3 in place of 3 and of `installAttempts`: first, middle and last
  are there. With two updaters there is one attempt at each: a second
  download works on a fresh file as the first did, and the pause touches no file.
* *Integers.* `MaxInt64` is 7, and 3 in `updater_liveness`, where `MaxBytes`
  equals it: that is the boundary at which limit + 1 wraps.
* *Durations.* `MaxDuration` is 63, so that 2, 30 and 60 seconds fit and the double of
  40 does not.
* *Deployments.* Six: the defaults; elevated, with the back-off bounds the wrong way
  round; no updates, elevation refused and a back-off near the largest duration; another
  platform; no payload name; an account other than LocalSystem, which may not ask
  for users' tokens. *Users:* a standard user, an administrator under
  UAC, the built-in administrator: the three kinds of token. *Sessions:* the
  console and one other.

`ServiceHandler` is finite as it stands: any number of requests, one at a
time. Its run covers a Service that heeds its context and one that does not. Its type
invariant is part of that of `ServiceManager`, whose run checks it.

* *Agent.* One session, a standard user and an administrator under UAC, and three
  deployments: one that runs, one on another platform (where `Run` ends with an
  error of its own, whatever the context) and one that is refused at once. What
  users and deployments do to `Run` is asked in `supervisor`; here it is
  how `Run`'s ends meet `Execute`'s.

* *Administrators.* One: a second one multiplies the states of the liveness checks
  beyond use. What two do to each other is a question of safety, and the
  theorems of section 4 hold for any number. One administrator already meets
  the service, its recovery action, its own killed commands and what they left.
  The Service of this run does not heed its context, so that it may end at any time
  or never, with or without a stop. A double-click whose `Status` another
  administrator has made stale is in the theorems only.
* *Handles.* Six: a launch has up to four open at once (token, job, process, thread),
  and the rest of the service takes what is free. With none free a call fails.

`updater_pair` declares the updaters and the download names symmetric: no
definition tells them apart, and it checks no liveness.

### Fairness

`Updater` assumes weak fairness of each updater's own steps and of the
clock: a goroutine that can run does, a request ends one way or the other (a
stopped context ends it at once), and `updateBeforeLaunch` calls
`EnsureLatest` again after each error while its context is alive. `Supervisor`
assumes weak fairness of `Run`'s own steps, its timers included. `ServiceHandler`
assumes it of `Execute` with its timer, of the goroutine's send and of svc.Run's
last report, and that a Service that heeds its context returns once that is done.
`ServiceManager` assumes it of a command that has been consented to (it goes on to
its next call, and so ends), of `Execute` and svc.Run, and of the
manager where it acts by itself (recovery actions, removal of marked services); the
deadline of `stopWait` is fair only while the system is not calm, because in a calm
one the service may well stop before. `Launch` is checked for safety only.
Nothing is assumed
of the server, of people, of the payload or of the SCM: what a property needs
of them it says, by `calm` and by "or the service is stopped".

## 4. The proofs

The `*Proofs` modules and `UpdaterRefinement` show, for all values of the constants
that meet the modules' assumptions, that the safety properties below
hold of every behaviour of `Spec`. They state every invariant and action property
of the runs, and for most liveness properties the part of it that is safety (below).

* **Updater.** `TypeOK`, `RecordIsServedPair`, `VerdictIsSound`, `InstallIsSound`,
  `SweepSparesFresh` and `NoLeakWhenCalm`, for any number of updaters, releases, bodies
  and attempts. None is inductive. That the record is a served pair rests on what the call that writes
  it holds, which rests on what was in the file it summed, which must
  not have been touched by anybody else. Hence `IInv`: `CallOK` says what a call
  knows at each point (from `Get` on it owns a name; once the copy has succeeded the
  file of that name holds the release's whole body unless a sweep took it; once
  summed, the pair is the release's), and `OneOwner` that no two calls own one name.
  The step from p's view to q's is `Aside`: what p does leaves q's
  locals alone and can only remove, never alter, q's closed file. `ReceivedWhole`
  is the lemma behind `ReadLimit`: reading up to one byte beyond the limit
  tells a whole body from a cut one, without overflow. The last two follow from the
  same invariant (`DownloadProofs`): `Tidy` says that a call, past its sweep, touches no
  download but its own, and gives up the name of its own only with the file.
* **Supervisor.** `TypeOK`, `OnePayload`, `NeverLaunchUnchecked`,
  `ElevationIsAuthorised`, `RightsSuffice`, `ExitIsHonest` (`Run` returns nil only when it
  was stopped), `BackoffInBounds` and `BackoffShrinksOnlyWhenHealthy`. `IInv` adds what they lean on: `elevate` is only
  raised with leave, `sid` is a session from the lookup on, the check has passed
  wherever the supervising loop runs. `GrowBounded` shows that `grow` neither
  overshoots nor wraps, for any width. Two more say when `Run` gives up:
  `RaisedOnce` (a property of the run, too), that elevation once raised stays raised until `Run` ends, and then no launch
  is refused for want of it; and `GivesUpOnlyOnElevation`, that on Windows an unstopped
  `Run` that supervises ends only at a launch for a user who has no rights to give (or
  may not be asked for them) while they are demanded, so not for a crash, a failed launch,
  a broken wait or a sign-out, however often they come.
* **ServiceHandler.** `TypeOK`, `FailedExitIsOwnFailure`, `FailureIsLogged` and
  `StopEndsClean` (only a theorem: a stop that was announced never ends in a failed
  exit, though `Run` failed before it was taken). `IInv` ties the three parties together: `GoroutineOK`
  (the context is done exactly from the stop or the return on, and a result that
  was there before says so), `ExecuteOK` (a call that returned without the
  goroutine's end has written a warning), `StatusOK` (what the manager was told
  goes with the place `Execute` is at) and `RequestOK` (a stop is only on its way to
  an `Execute` that said it runs).

* **Updater implements PayloadSync** (`UpdaterRefinement`, theorem `Refinement`).
  Every step of `Updater` maps to a step of `PayloadSync` or to a stutter: `Head` and `Get` to
  `Ask`, `Compare`'s verdict to `Confirm`, the removal and the rename of `install` to
  `MakeRoom` and `Deliver`, the two halves of `saveState` to `Forget` and `Note`. It rests on the
  invariant of `UpdaterProofs`: `Deliver` needs that the file renamed is the whole body of
  the release answered, `Note` that the pair written is that release's.
* **ServiceManager.** `ServiceIsHandler`: the composition's behaviours are behaviours of
  `ServiceHandler`, whose theorems therefore hold here, and whose lemmas the
  invariant uses. `TypeOK`, `InstalledIsComplete`, `StoppedHelperIsLogged`, `NilMeansItStopped` and
  `StopIsNotUndone`, for any number of administrators. `IInv` adds: `handles` is
  the number of commands at a place where they hold one (so that no close comes
  twice); `EntryOK`, that a held service does not disappear, so there is one
  installer at a time and nobody installs while another is between the deletion
  and the removal of the event source; `HelperOK`, that a helper outlives `Run` only when
  `Run` panicked; `StopOK`, that a service found stopped still is, or somebody started
  it again. `NilMeansItStopped` therefore leaves room for just one kind of nil over a
  service that runs, that of a start between the sighting and the deletion, and
  `manager_uninstall` shows that it happens; of a service that stands still
  `StoppedHelperIsLogged` says that its helper is gone or in the log.
* **Agent.** `AgentIsHandler` and `AgentIsSupervisor`: the process implements both
  modules it is made of. Every step of it is one of `ServiceHandler`'s or leaves its
  variables alone, and one of `Supervisor`'s likewise; for the second, `Execute`'s own
  steps have to be shown to cancel at most (`ExecuteCancels`), and the end of the
  process to be a restart. All theorems of the two therefore hold of the process,
  and two that neither can state: `CleanExitWasAsked` and `ReturnedPayloadIsLogged`. The
  invariant adds `RunOK`: the goroutine runs exactly while `Run` is on its way, a
  result is there exactly when `Run` has returned, and it is `Run`'s. The first then
  follows from `ExitIsHonest` (nil only for a stop) and `GoroutineOK` (a
  result that was there before the context was done is not a stopped one); the second
  from `OnePayload` and `ExecuteOK`.
* **Launch.** `TypeOK`, `NothingLeaks`, `NothingEscapes` and `ClosesOnlyOwn`, for any number of
  handles. `HandlesOK` says which variables hold a handle at each call, that no two
  hold the same, and that together they are all that is open; `ChildOK` that the
  process is suspended until it is in a job that ends it.

TLC found each `IInv`, and each property that only a theorem states, to hold on the
instances of the safety runs as well; those of `ServiceManager` with two
administrators.

What is safety in the liveness properties is proved, mostly as a count of the steps
that are left, which no step of anybody else raises:

| Property, by TLC | Its safety part, proved | Which says |
|---|---|---|
| `EveryCallReturns` | `CallsAreBounded` | a call of `EnsureLatest` takes at most `CallBound` steps, a function of the two numbers of attempts |
| `ConvergesOnceCalm` | `CalmCallsDeliver` | with one updater on the path, a call begun in a calm system, with a release that can be installed and a free name, fails only by a stop: it confirms or installs the release, and recording it settles the machine |
| `DownloadsStop` | `NoMoreDownloads` | once the release is in place, recorded, and no call is under way with anything else, nobody downloads again |
| `StopIsHonoured` | `StopIsPrompt` (in `Agent` too: `StopHeeded`) | a stopped `Run` takes at most four more steps |
| `PayloadComesUp` | `ComesUpSoon` | in a calm system, for a service that runs as LocalSystem, at most nine steps of `Run` lie before the next payload, or `Run`'s end |
| `StopIsAnswered` | `StopIsTaken` | from a stop's arrival `Execute` takes at most four steps |
| `GoroutineEnds` | `SendHasRoom` | the send of `Run`'s goroutine never waits |
| `FailureIsRestarted` | `RestartIsNotLost` | a failure arms the recovery action, which is lost only to a start or a removal |
| `CommandReturns` | `CommandsAdvance` | no call of a command repeats, but the asking of `stopAndWait` |
| `RemovalCompletes` | `HandlesAreHeld` | no handle is open once the commands are over |

Left to fairness is that the steps are taken, and, for `ComesUpSoon`, that a payload's
end or a session comes.

Model-checked only: the liveness properties as such (`EveryCallReturns`, `ConvergesOnceCalm`,
`DownloadsStop`, `StopIsHonoured`, `PayloadComesUp`, `StopIsAnswered`, `GoroutineEnds`,
`FailureIsRestarted`, `StopGetsThrough`, `CommandReturns`, `RemovalCompletes`), which
rest on fairness and so are out of the prover's reach.

## 5. What is not modelled

* `Elevate` beyond its outcome: the wait for the consent dialog and the exit code of
  the elevated process, whose command is that of the model. `Status` beyond what
  `manage` decides on it. The conversion of paths and arguments in `LaunchInSession`.
* A reboot, and service dependencies: a stop that is refused is `AskFails`.
* `svc.Run`, the SCM and Windows' handles and jobs, except as the code uses them.
* The event log: `truncate` and `eventText` shape the text of a record, and the slog
  handler picks its level; neither keeps state. The message box and the choice of
  a logger in the example are wiring, and the helper waits.
* HTTP itself, JSON and the CRC: a request succeeds or fails, a state file decodes
  or is empty, a checksum is a function of the body.

## 6. Where the code and its documentation differ

* `updater_lock`. `README.md:127` says that the swap retries "so a scanner holding
  a transient lock cannot leave the machine with no payload at all". `install` has
  removed the payload by then, and a stop during the pause between
  two attempts gives up at once (`update.go:380`). The next start downloads
  again, if there is a network.
* `updater_sweep`. `update.go:46` says that a sweep that lost a race costs "never
  the payload itself". If it takes a download after `install` has removed the
  payload, nothing is left. It takes two updaters on a path and a download of an
  hour's age, for instance over a suspend.
* `supervisor_giveup`. `supervisor.go:215` says that retrying a launch refused for
  want of rights "can only fail the same way forever", because neither manifest
  nor configuration changes. The user may: with `DisableAutoElevate`, a
  standard user's failed launch ends `Run`, although the built-in administrator
  could sign in next.
* `manager_uninstall`. `manager_windows.go:128-131` says that `Uninstall` waits for the
  service to reach Stopped, so "by the time this returns the old helper is gone and
  its file unlocked". What `stopAndWait` saw is not looked at again, and `Delete` is
  a call of its own: in the run the service's process dies, `stopAndWait` sees it
  stopped, the recovery action starts it again, `Delete` marks it, the new process
  launches a helper and `Uninstall` returns nil. A reinstall is then refused until that
  process exits, which lines 143-145 say has to be said. Any start at that point
  does it, and nothing else makes nil wrong about the service
  (`NilMeansItStopped`). There is one more way to a helper that lives on, without
  a start: a `Run` that panicked, or was not waited for, leaves it to the end of the
  process, which may be later than Stopped. That much is in the log
  (`StoppedHelperIsLogged`), but not in what `Uninstall` returns.

Not runs, but worth knowing:

* `manager_windows.go:110-113` says that the removal happens even when the service
  cannot be stopped, and that "the returned error then says so". When the event
  source cannot be removed either, `Uninstall` returns at line 141 with that error
  alone, before it comes to what it knows of the stop: in `RemoveSource` the answer
  is then "noSource", whatever `how[a]` is.
* A service that is killed between `CreateProcessAsUser` and `AssignProcessToJobObject`
  leaves its payload behind, suspended and in no job. `NothingEscapes` shows that it
  never runs.

## 7. Plan

Done, in this order: `Updater`, `Supervisor` over `Backoff` and `Elevation`,
`ServiceHandler`, `PayloadSync` and the refinement, `ServiceManager` over `ServiceHandler`,
`Launch`, `Agent` over `ServiceHandler` and `Supervisor`, each with its proofs.

What could follow: `PayloadSync` as the updater inside `Agent`; a proof that `Supervisor`'s
launch and close are what `Launch` does; the safety part of
`StopGetsThrough`; `Elevate`.
