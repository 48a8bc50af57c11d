-------------------------- MODULE DownloadProofs --------------------------
(* Proofs about Updater's downloads: who may delete one, who leaves one      *)
(* behind, how many steps a call takes, when there are no more of them, and  *)
(* when a call succeeds.                                                     *)
EXTENDS UpdaterProofs

-----------------------------------------------------------------------------
\* What a call of p does to the downloads once its sweep is over: it leaves
\* those it does not own alone, creates only one it then owns, and keeps its own
\* until it gives up the name; it then deletes the file, if that works.
Tidy(p) ==
    /\ \A t \in Temp \ {job[p].tmp} : temps[t].is # "free" => temps'[t] = temps[t]
    /\ \A t \in Temp : temps[t].is = "free" /\ temps'[t].is # "free" => t \in Names'
    /\ job[p].tmp \in Temp =>
          \/ /\ job'[p].tmp = job[p].tmp
             /\ temps[job[p].tmp].is # "free" => temps'[job[p].tmp].is # "free"
          \/ /\ job'[p].tmp = NoTemp
             /\ calm => temps'[job[p].tmp].is = "free"

\* A step that touches no download and owns none, or keeps the one it owns.
LEMMA IdleTidy ==
    ASSUME IInv, NEW p \in Updaters, UNCHANGED temps,
           job[p].tmp \in Temp => job'[p].tmp = job[p].tmp
    PROVE  Tidy(p)
  BY DEF Tidy

\* The error paths.
LEMMA FailTidy ==
    ASSUME IInv, NEW p \in Updaters, Fail(p)
    PROVE  Tidy(p)
  <1>1. TypeOK /\ job'[p] = NoJob
    BY ReturnAside DEF IInv, Fail
  <1>2. QED
    BY <1>1 DEF Fail, Discard, Tidy, NoJob, NoFile, TypeOK

LEMMA CallTidy ==
    ASSUME IInv, NEW p \in Updaters, Fetch(p) \/ Install(p)
    PROVE  Tidy(p)
  <1>0. /\ TypeOK /\ CallOK(p)
        /\ job[p].tmp \in Temp <=> pc[p] \in Owning
    BY DEF IInv, CallOK
  <1>1. CASE LoadState(p) \/ Head(p) \/ Compare(p) \/ GetRefused(p) \/ GetFails(p)
             \/ Truncate(p) \/ WriteRecord(p)
    <2>1. UNCHANGED temps
      BY <1>1 DEF LoadState, Head, Compare, GetRefused, GetFails, RequestFails, Truncate,
                  WriteRecord
    <2>2. pc[p] \notin Owning
      BY <1>1 DEF LoadState, Head, Compare, GetRefused, GetFails, Truncate, WriteRecord, Owning
    <2>3. QED
      BY <1>0, <2>1, <2>2, IdleTidy
  <1>2. CASE SumOk(p) \/ RemoveOld(p) \/ RenameAgain(p) \/ PauseOver(p)
    <2>1. UNCHANGED temps
      BY <1>2 DEF SumOk, RemoveOld, RenameAgain, PauseOver
    <2>2. job[p] \in Job /\ p \in DOMAIN job
      BY <1>0 DEF TypeOK
    <2>3. CASE SumOk(p)
      BY <2>1, <2>2, <2>3, IdleTidy DEF SumOk, Job
    <2>4. CASE PauseOver(p)
      BY <2>1, <2>2, <2>4, IdleTidy DEF PauseOver, Job
    <2>5. CASE RemoveOld(p) \/ RenameAgain(p)
      BY <2>1, <2>5, IdleTidy DEF RemoveOld, RenameAgain
    <2>6. QED
      BY <1>2, <2>3, <2>4, <2>5
  <1>3. CASE Get(p)
    <2>1. job[p].tmp \notin Temp
      BY <1>0, <1>3 DEF Get, Owning
    <2>2. PICK t \in Temp \ Names :
             /\ temps[t].is = "free"
             /\ temps' = [temps EXCEPT ![t] = [is |-> "open", stale |-> FALSE, body |-> Partial]]
             /\ job' = [job EXCEPT ![p].tmp = t, ![p].got = [etag |-> release, crc |-> 0]]
      BY <1>3 DEF Get
    <2>3. job'[p].tmp = t
      BY <1>0, <2>2 DEF TypeOK
    <2>4. \A u \in Temp \ {t} : temps'[u] = temps[u]
      BY <1>0, <2>2 DEF TypeOK
    <2>5. QED
      BY <2>1, <2>2, <2>3, <2>4 DEF Tidy, Names
  <1>4. CASE CopyOk(p)
    <2>1. /\ job[p].tmp \in Temp /\ temps[job[p].tmp].is = "open"
          /\ UNCHANGED job
      BY <1>0, <1>4 DEF CopyOk, Owning, CallOK
    <2>2. /\ temps'[job[p].tmp].is = "closed"
          /\ \A t \in Temp \ {job[p].tmp} : temps'[t] = temps[t]
      BY <1>0, <1>4, <2>1 DEF CopyOk, TypeOK
    <2>3. QED
      BY <2>1, <2>2 DEF Tidy
  <1>5. CASE CopyFails(p)
    <2>1. /\ job[p].tmp \in Temp /\ temps[job[p].tmp].is = "open"
          /\ job'[p] = NoJob
      BY <1>0, <1>5, ReturnAside DEF CopyFails, Owning, CallOK
    <2>2. /\ calm => temps'[job[p].tmp].is = "free"
          /\ \A t \in Temp \ {job[p].tmp} : temps'[t] = temps[t]
      BY <1>0, <1>5, <2>1 DEF CopyFails, TypeOK, NoFile
    <2>3. QED
      BY <2>1, <2>2 DEF Tidy, NoJob
  <1>6. CASE SumMismatch(p)
    <2>1. job[p].tmp \in Temp /\ job'[p].tmp = NoTemp
      BY <1>0, <1>6 DEF SumMismatch, Owning, TypeOK
    <2>2. QED
      BY <1>0, <1>6, <2>1 DEF SumMismatch, Discard, Tidy, NoFile, TypeOK
  <1>7. CASE RenameOk(p)
    <2>1. job[p].tmp \in Temp /\ job'[p].tmp = NoTemp
      BY <1>0, <1>7 DEF RenameOk, Owning, TypeOK
    <2>2. QED
      BY <1>0, <1>7, <2>1 DEF RenameOk, Tidy, NoFile, TypeOK
  <1>8. CASE SumFails(p) \/ RenameGivesUp(p) \/ PauseStopped(p)
    BY <1>8, FailTidy DEF SumFails, RenameGivesUp, PauseStopped
  <1>9. QED
    BY <1>1, <1>2, <1>3, <1>4, <1>5, <1>6, <1>7, <1>8 DEF Fetch, Install

\* The sweep at the head of a call touches only what is Sweepable.
LEMMA SweepTidy ==
    ASSUME IInv, NEW p \in Updaters, EnsureLatest(p), NEW t \in Temp
    PROVE  /\ temps'[t] = temps[t] \/ (temps'[t].is = "free" /\ t \in Sweepable)
           /\ UNCHANGED job
  BY DEF EnsureLatest, NoFile

\* Outside the calls nothing is deleted or created, and a name is given up by
\* no process that dies between calls.
LEMMA EnvironmentTidy ==
    ASSUME IInv, Environment
    PROVE  /\ \A t \in Temp : temps'[t].is = "free" <=> temps[t].is = "free"
           /\ calm => Names' \cap Temp = Names \cap Temp
  <1>1. TypeOK
    BY DEF IInv
  <1>2. ASSUME NEW p \in Updaters, Restart(p)
        PROVE  /\ \A t \in Temp : temps'[t].is = "free" <=> temps[t].is = "free"
               /\ calm => Names' \cap Temp = Names \cap Temp
    <2>1. \A t \in Temp : temps'[t].is = "free" <=> temps[t].is = "free"
      BY <1>1, <1>2 DEF Restart, TypeOK, File
    <2>2. \A q \in Updaters \ {p} : job'[q] = job[q]
      BY <1>1, <1>2, ReturnAside DEF Restart
    <2>3. job'[p].tmp \notin Temp
      BY <1>1, <1>2, ReturnAside, ContentAssumption DEF Restart, NoJob
    <2>4. calm => job[p].tmp \notin Temp
      BY <1>2 DEF Restart, IInv, CallOK, Owning, Idle
    <2>5. QED
      BY <2>1, <2>2, <2>3, <2>4 DEF Names
  <1>3. ASSUME NEW t \in Temp, Age(t)
        PROVE  \A u \in Temp : temps'[u].is = "free" <=> temps[u].is = "free"
    BY <1>1, <1>3 DEF Age, TypeOK, File
  <1>4. (\E p \in Updaters : Restart(p)) \/ UNCHANGED job
    BY DEF Environment, Cancel, Publish, Damage, Settle, Age
  <1>5. (\E p \in Updaters : Restart(p)) \/ (\E t \in Temp : Age(t)) \/ UNCHANGED temps
    BY DEF Environment, Cancel, Publish, Damage, Settle
  <1>6. QED
    BY <1>2, <1>3, <1>4, <1>5 DEF Names

-----------------------------------------------------------------------------
\* A download is taken from under its updater only by the sweep of another one.
LEMMA SpareStep ==
    ASSUME IInv, [Next]_vars, NEW p \in Updaters, pc[p] \in Owning, UNCHANGED job[p],
           temps[job[p].tmp].is # "free", temps'[job[p].tmp].is = "free"
    PROVE  temps[job[p].tmp].stale /\ temps[job[p].tmp].is = "closed"
  <1>1. job[p].tmp \in Temp
    BY DEF IInv, CallOK
  <1>2. PICK q \in Updaters : Step(q)
    BY <1>1, EnvironmentTidy DEF Next, vars
  <1>3. ~(Fetch(q) \/ Install(q))
    <2>1. SUFFICES ASSUME Fetch(q) \/ Install(q) PROVE FALSE
      OBVIOUS
    <2>2. Tidy(q)
      BY <2>1, CallTidy
    <2>3. q = p
      BY <1>1, <2>2 DEF Tidy, IInv, OneOwner
    <2>4. QED
      BY <1>1, <2>2, <2>3, ContentAssumption DEF Tidy
  <1>4. EnsureLatest(q)
    BY <1>2, <1>3 DEF Step
  <1>5. QED
    BY <1>1, <1>4, SweepTidy DEF Sweepable

\* Once removals work and processes die only between calls, a step turns no
\* download into one that nobody owns.
LEMMA LeakStep ==
    ASSUME IInv, [Next]_vars, calm
    PROVE  Orphans' \subseteq Orphans
  <1>1. ASSUME NEW t \in Temp, temps'[t].is # "free", t \notin Names'
        PROVE  temps[t].is # "free" /\ t \notin Names
    <2>1. CASE UNCHANGED vars
      BY <1>1, <2>1 DEF vars, Names
    <2>2. CASE Environment
      BY <1>1, <2>2, EnvironmentTidy
    <2>3. ASSUME NEW q \in Updaters, EnsureLatest(q)
          PROVE  temps[t].is # "free" /\ t \notin Names
      BY <1>1, <2>3, SweepTidy DEF Names
    <2>4. ASSUME NEW q \in Updaters, Fetch(q) \/ Install(q)
          PROVE  temps[t].is # "free" /\ t \notin Names
      <3>1. Tidy(q)
        BY <2>4, CallTidy
      <3>2. t # job[q].tmp
        BY <1>1, <3>1 DEF Tidy, Names
      <3>3. \A r \in Updaters \ {q} : job'[r] = job[r]
        BY <2>4, StepAside DEF IInv, Aside, Step
      <3>4. QED
        BY <1>1, <3>1, <3>2, <3>3 DEF Tidy, Names
    <2>5. QED
      BY <2>1, <2>2, <2>3, <2>4 DEF Next, Step
  <1>2. QED
    BY <1>1 DEF Orphans

\* A sweep never deletes a download that is fresh or still being written, so an
\* updater loses one only when it sat still for staleTempAge.
THEOREM SweepSpares == Spec => SweepSparesFresh
  <1>1. IInv /\ [Next]_vars =>
          [\A p \in Updaters :
              pc[p] \in {"copy", "sum", "remove", "rename", "pause"} /\ UNCHANGED job[p]
              /\ temps[job[p].tmp].is # "free" /\ temps'[job[p].tmp].is = "free" =>
                  temps[job[p].tmp].stale /\ temps[job[p].tmp].is = "closed"]_vars
    BY SpareStep DEF Owning
  <1>2. QED
    BY <1>1, Invariant, PTL DEF Spec, SweepSparesFresh

\* Every error path of fetch, download and install takes its download with it.
THEOREM NoLeak == Spec => NoLeakWhenCalm
  <1>1. IInv /\ [Next]_vars => [calm => Orphans' \subseteq Orphans]_vars
    BY LeakStep
  <1>2. QED
    BY <1>1, Invariant, PTL DEF Spec, NoLeakWhenCalm

-----------------------------------------------------------------------------
(* How long a call is.                                                      *)

\* The attempts of download, and then those of install, are counted from one up.
AttemptsIn(place, tries) ==
    /\ place \in {"get", "copy", "sum"} => tries \in 1..DownloadAttempts
    /\ place = "remove" => tries = 1
    /\ place = "rename" => tries \in 1..InstallAttempts
    /\ place = "pause" => tries \in 1..(InstallAttempts - 1)

AttemptsOK(p) == AttemptsIn(pc[p], job[p].tries)

AInv == IInv /\ \A p \in Updaters : AttemptsOK(p)

\* How many steps a call can take from where it is, at most.
CallBound == 3 * DownloadAttempts + 2 * InstallAttempts + 5

StepsFrom(place, tries) ==
    LET downloads == 3 * (DownloadAttempts - tries) + 2 * InstallAttempts + 2
        installs == 2 * (InstallAttempts - tries)
    IN  CASE place = "load" -> CallBound
          [] place = "head" -> CallBound - 1
          [] place = "compare" -> CallBound - 2
          [] place = "get" -> downloads + 3
          [] place = "copy" -> downloads + 2
          [] place = "sum" -> downloads + 1
          [] place = "remove" -> installs + 4
          [] place = "rename" -> installs + 3
          [] place = "pause" -> installs + 2
          [] place = "truncate" -> 2
          [] place = "write" -> 1
          [] OTHER -> 0

StepsLeft(p) == StepsFrom(pc[p], job[p].tries)

\* A call that is over takes no more steps, one that is not takes at least one.
LEMMA StepsCounted ==
    ASSUME NEW place \in Idle \cup Busy, NEW tries, AttemptsIn(place, tries)
    PROVE  /\ StepsFrom(place, tries) \in 0..CallBound
           /\ StepsFrom(place, tries) = 0 <=> place \in Idle
  <1> DEFINE left == StepsFrom(place, tries)
  <1>1. DownloadAttempts \in Nat \ {0} /\ InstallAttempts \in Nat \ {0}
    BY AttemptsAssumption
  <1>2. ASSUME left \in 1..CallBound, place \notin Idle
        PROVE  left \in 0..CallBound /\ (left = 0 <=> place \in Idle)
    BY <1>1, <1>2 DEF CallBound
  <1>3. CASE place \in {"load", "head", "compare", "truncate", "write"}
    <2>1. left \in {CallBound, CallBound - 1, CallBound - 2, 1, 2}
      BY <1>3 DEF StepsFrom
    <2>2. left \in 1..CallBound
      BY <1>1, <2>1 DEF CallBound
    <2>3. QED
      BY <1>2, <1>3, <2>2 DEF Idle
  <1>4. CASE place \in {"get", "copy", "sum"}
    <2>1. PICK n \in 1..3 :
             left = 3 * (DownloadAttempts - tries) + 2 * InstallAttempts + 2 + n
      BY <1>4 DEF StepsFrom
    <2>2. left \in 1..CallBound
      BY <1>1, <1>4, <2>1 DEF AttemptsIn, CallBound
    <2>3. QED
      BY <1>2, <1>4, <2>2 DEF Idle
  <1>5. CASE place \in {"remove", "rename", "pause"}
    <2>1. PICK n \in 2..4 : left = 2 * (InstallAttempts - tries) + n
      BY <1>5 DEF StepsFrom
    <2>2. left \in 1..CallBound
      BY <1>1, <1>5, <2>1 DEF AttemptsIn, CallBound
    <2>3. QED
      BY <1>2, <1>5, <2>2 DEF Idle
  <1>6. CASE place \in Idle
    <2>1. left = 0
      BY <1>6 DEF StepsFrom, Idle
    <2>2. QED
      BY <1>1, <1>6, <2>1 DEF CallBound
  <1>7. QED
    BY <1>3, <1>4, <1>5, <1>6 DEF Busy

\* So a call that is not over yet has a step left.
LEMMA PositiveWhileBusy ==
    ASSUME AInv, NEW p \in Updaters, pc[p] \in Busy
    PROVE  StepsLeft(p) \in 1..CallBound
  <1>1. pc[p] \notin Idle /\ CallBound \in Nat
    BY AttemptsAssumption DEF Idle, Busy, CallBound
  <1>2. QED
    BY <1>1, StepsCounted DEF AInv, AttemptsOK, StepsLeft

\* The end of a call.
LEMMA ReturnEnds ==
    ASSUME TypeOK, NEW p \in Updaters, NEW result \in Idle, Return(p, result)
    PROVE  AttemptsOK(p)' /\ StepsLeft(p)' = 0
  <1>1. pc'[p] = result
    BY ReturnAside
  <1>2. QED
    BY <1>1 DEF AttemptsOK, AttemptsIn, StepsLeft, StepsFrom, Idle

\* Every step of a call brings its end nearer, whatever fails and however often
\* the release changes.
LEMMA FetchCounts ==
    ASSUME AInv, NEW p \in Updaters, Fetch(p)
    PROVE  AttemptsOK(p)' /\ StepsLeft(p)' < StepsLeft(p)
  <1>0. /\ TypeOK /\ AttemptsOK(p)
        /\ p \in DOMAIN pc /\ p \in DOMAIN job /\ job[p] \in Job
        /\ job[p].tries \in Nat
        /\ DownloadAttempts \in Nat \ {0} /\ InstallAttempts \in Nat \ {0}
    BY AttemptsAssumption DEF AInv, IInv, TypeOK, Job
  <1>1. ASSUME NEW result \in {"ok", "err"}, Return(p, result), pc[p] \in Busy
        PROVE  AttemptsOK(p)' /\ StepsLeft(p)' < StepsLeft(p)
    <2>1. result \in Idle /\ pc[p] \notin Idle
      BY <1>1 DEF Idle, Busy
    <2>2. QED
      BY <1>0, <1>1, <2>1, ReturnEnds, PositiveWhileBusy
  <1>2. CASE LoadState(p)
    <2>1. pc[p] = "load" /\ pc'[p] = "head"
      BY <1>0, <1>2 DEF LoadState, Goto
    <2>2. QED
      BY <1>0, <2>1 DEF AttemptsOK, AttemptsIn, StepsLeft, StepsFrom, CallBound
  <1>3. CASE Head(p)
    <2>1. CASE RequestFails(p)
      BY <1>1, <1>3, <2>1 DEF Head, RequestFails, Busy
    <2>2. CASE ~RequestFails(p)
      <3>1. pc[p] = "head" /\ pc'[p] = "compare"
        BY <1>0, <1>3, <2>2 DEF Head, Goto
      <3>2. QED
        BY <1>0, <3>1 DEF AttemptsOK, AttemptsIn, StepsLeft, StepsFrom, CallBound
    <2>3. QED
      BY <2>1, <2>2
  <1>4. CASE Compare(p)
    <2>1. CASE Return(p, "ok")
      BY <1>1, <1>4, <2>1 DEF Compare, Busy
    <2>2. CASE ~Return(p, "ok")
      <3>1. pc[p] = "compare" /\ pc'[p] = "get" /\ job'[p].tries = 1
        BY <1>0, <1>4, <2>2 DEF Compare, Goto, Job
      <3>2. QED
        BY <1>0, <3>1 DEF AttemptsOK, AttemptsIn, StepsLeft, StepsFrom, CallBound
    <2>3. QED
      BY <2>1, <2>2
  <1>5. CASE GetRefused(p)
    BY <1>1, <1>5 DEF GetRefused, Busy
  <1>6. CASE Get(p)
    <2>1. PICK t \in Temp :
             job' = [job EXCEPT ![p].tmp = t, ![p].got = [etag |-> release, crc |-> 0]]
      BY <1>6 DEF Get
    <2>2. pc[p] = "get" /\ pc'[p] = "copy" /\ job'[p].tries = job[p].tries
      BY <1>0, <1>6, <2>1 DEF Get, Goto, Job
    <2>3. QED
      BY <1>0, <2>2 DEF AttemptsOK, AttemptsIn, StepsLeft, StepsFrom
  <1>7. CASE GetFails(p)
    BY <1>1, <1>7 DEF GetFails, RequestFails, Busy
  <1>8. CASE CopyOk(p)
    <2>1. pc[p] = "copy" /\ pc'[p] = "sum" /\ job'[p].tries = job[p].tries
      BY <1>0, <1>8 DEF CopyOk, Goto
    <2>2. QED
      BY <1>0, <2>1 DEF AttemptsOK, AttemptsIn, StepsLeft, StepsFrom
  <1>9. CASE CopyFails(p)
    BY <1>1, <1>9 DEF CopyFails, Busy
  <1>10. CASE SumOk(p)
    <2>1. pc[p] = "sum" /\ pc'[p] = "remove" /\ job'[p].tries = 1
      BY <1>0, <1>10 DEF SumOk, Goto, Job
    <2>2. QED
      BY <1>0, <2>1 DEF AttemptsOK, AttemptsIn, StepsLeft, StepsFrom
  <1>11. CASE SumMismatch(p)
    <2>1. /\ pc[p] = "sum" /\ pc'[p] = "get"
          /\ job[p].tries < DownloadAttempts /\ job'[p].tries = job[p].tries + 1
      BY <1>0, <1>11 DEF SumMismatch, Goto, Job
    <2>2. QED
      BY <1>0, <2>1 DEF AttemptsOK, AttemptsIn, StepsLeft, StepsFrom
  <1>12. CASE SumFails(p)
    BY <1>1, <1>12 DEF SumFails, Fail, Busy
  <1>13. QED
    BY <1>2, <1>3, <1>4, <1>5, <1>6, <1>7, <1>8, <1>9, <1>10, <1>11, <1>12 DEF Fetch

LEMMA InstallCounts ==
    ASSUME AInv, NEW p \in Updaters, Install(p)
    PROVE  AttemptsOK(p)' /\ StepsLeft(p)' < StepsLeft(p)
  <1>0. /\ TypeOK /\ AttemptsOK(p)
        /\ p \in DOMAIN pc /\ p \in DOMAIN job /\ job[p] \in Job
        /\ job[p].tries \in Nat
        /\ InstallAttempts \in Nat \ {0}
    BY AttemptsAssumption DEF AInv, IInv, TypeOK, Job
  <1>1. ASSUME NEW result \in {"ok", "err"}, Return(p, result), pc[p] \in Busy
        PROVE  AttemptsOK(p)' /\ StepsLeft(p)' < StepsLeft(p)
    <2>1. result \in Idle /\ pc[p] \notin Idle
      BY <1>1 DEF Idle, Busy
    <2>2. QED
      BY <1>0, <1>1, <2>1, ReturnEnds, PositiveWhileBusy
  <1>2. CASE RemoveOld(p)
    <2>1. pc[p] = "remove" /\ pc'[p] = "rename" /\ job'[p].tries = job[p].tries
      BY <1>0, <1>2 DEF RemoveOld, Goto
    <2>2. QED
      BY <1>0, <2>1 DEF AttemptsOK, AttemptsIn, StepsLeft, StepsFrom
  <1>3. CASE RenameOk(p)
    <2>1. pc[p] = "rename" /\ pc'[p] = "truncate"
      BY <1>0, <1>3 DEF RenameOk, Goto
    <2>2. QED
      BY <1>0, <2>1 DEF AttemptsOK, AttemptsIn, StepsLeft, StepsFrom
  <1>4. CASE RenameAgain(p)
    <2>1. /\ pc[p] = "rename" /\ pc'[p] = "pause"
          /\ job[p].tries < InstallAttempts /\ job'[p].tries = job[p].tries
      BY <1>0, <1>4 DEF RenameAgain, RenameBlocked, Goto
    <2>2. QED
      BY <1>0, <2>1 DEF AttemptsOK, AttemptsIn, StepsLeft, StepsFrom
  <1>5. CASE RenameGivesUp(p)
    BY <1>1, <1>5 DEF RenameGivesUp, RenameBlocked, Fail, Busy
  <1>6. CASE PauseOver(p)
    <2>1. pc[p] = "pause" /\ pc'[p] = "rename" /\ job'[p].tries = job[p].tries + 1
      BY <1>0, <1>6 DEF PauseOver, Goto, Job
    <2>2. QED
      BY <1>0, <2>1 DEF AttemptsOK, AttemptsIn, StepsLeft, StepsFrom
  <1>7. CASE PauseStopped(p)
    BY <1>1, <1>7 DEF PauseStopped, Fail, Busy
  <1>8. CASE Truncate(p)
    <2>1. CASE Return(p, "ok")
      BY <1>1, <1>8, <2>1 DEF Truncate, Busy
    <2>2. CASE Goto(p, "write")
      <3>1. pc[p] = "truncate" /\ pc'[p] = "write"
        BY <1>0, <1>8, <2>2 DEF Truncate, Goto
      <3>2. QED
        BY <1>0, <3>1 DEF AttemptsOK, AttemptsIn, StepsLeft, StepsFrom
    <2>3. QED
      BY <1>8, <2>1, <2>2 DEF Truncate
  <1>9. CASE WriteRecord(p)
    BY <1>1, <1>9 DEF WriteRecord, Busy
  <1>10. QED
    BY <1>2, <1>3, <1>4, <1>5, <1>6, <1>7, <1>8, <1>9 DEF Install

\* Nothing outside a call makes it longer.
LEMMA OthersCount ==
    ASSUME AInv, NEW p \in Updaters, pc'[p] = pc[p], job'[p] = job[p]
    PROVE  AttemptsOK(p)' /\ StepsLeft(p)' = StepsLeft(p)
  BY DEF AInv, AttemptsOK, StepsLeft

\* A call that begins, and one whose process dies.
LEMMA EndsCount ==
    ASSUME AInv, NEW p \in Updaters, EnsureLatest(p) \/ Restart(p)
    PROVE  /\ AttemptsOK(p)'
           /\ pc[p] \in Busy => StepsLeft(p)' = 0
  <1>1. CASE EnsureLatest(p)
    <2>1. pc'[p] = "load" /\ pc[p] \notin Busy
      BY <1>1 DEF EnsureLatest, Goto, AInv, IInv, TypeOK, Busy
    <2>2. QED
      BY <2>1 DEF AttemptsOK, AttemptsIn
  <1>2. CASE Restart(p)
    BY <1>2, ReturnEnds DEF Restart, Idle, AInv, IInv
  <1>3. QED
    BY <1>1, <1>2

\* Which step a step is to one call.
LEMMA StepOf ==
    ASSUME AInv, [Next]_vars, NEW p \in Updaters
    PROVE  \/ Fetch(p) \/ Install(p) \/ EnsureLatest(p) \/ Restart(p)
           \/ pc'[p] = pc[p] /\ job'[p] = job[p]
  <1>1. ASSUME NEW q \in Updaters, Step(q) \/ Restart(q), q # p
        PROVE  pc'[p] = pc[p] /\ job'[p] = job[p]
    BY <1>1, StepAside DEF AInv, IInv, Aside
  <1>2. QED
    BY <1>1 DEF Next, Step, Environment, Cancel, Publish, Damage, Settle, Age, vars

LEMMA AttemptsInvariant ==
    ASSUME AInv, [Next]_vars
    PROVE  AInv'
  BY StepOf, FetchCounts, InstallCounts, OthersCount, EndsCount, NextInvariant DEF AInv

THEOREM Attempts == Spec => []AInv
  <1>1. Init => AInv
    BY InitInvariant DEF AInv, AttemptsOK, AttemptsIn, Init
  <1>2. QED
    BY <1>1, AttemptsInvariant, PTL DEF Spec

\* A call of EnsureLatest is over after CallBound steps of its own at the most,
\* however the server, the disk, the payload's users and other updaters behave: each
\* step leaves fewer, no step of anybody else leaves more, and none are
\* left only when the call has returned.
CallsAreBounded ==
    [][\A p \in Updaters : pc[p] \in Busy =>
          /\ StepsLeft(p) \in 1..CallBound
          /\ StepsLeft(p)' <= StepsLeft(p)
          /\ Fetch(p) \/ Install(p) => StepsLeft(p)' < StepsLeft(p)
          /\ StepsLeft(p)' = 0 <=> pc'[p] \in Idle]_vars

THEOREM CallsBounded == Spec => CallsAreBounded
  <1>1. ASSUME AInv, AInv', [Next]_vars, NEW p \in Updaters, pc[p] \in Busy
        PROVE  /\ StepsLeft(p) \in 1..CallBound
               /\ StepsLeft(p)' <= StepsLeft(p)
               /\ Fetch(p) \/ Install(p) => StepsLeft(p)' < StepsLeft(p)
               /\ StepsLeft(p)' = 0 <=> pc'[p] \in Idle
    <2>1. CallBound \in Nat
      BY AttemptsAssumption DEF CallBound
    <2>2. StepsLeft(p) \in 1..CallBound
      BY <1>1, PositiveWhileBusy
    <2>3. StepsLeft(p)' \in 0..CallBound /\ (StepsLeft(p)' = 0 <=> pc'[p] \in Idle)
      <3>1. pc'[p] \in Idle \cup Busy /\ AttemptsOK(p)'
        BY <1>1 DEF AInv, IInv, TypeOK
      <3>2. QED
        BY <3>1, StepsCounted DEF AttemptsOK, StepsLeft
    <2>4. Fetch(p) \/ Install(p) => StepsLeft(p)' < StepsLeft(p)
      BY <1>1, FetchCounts, InstallCounts
    <2>5. StepsLeft(p)' <= StepsLeft(p)
      BY <1>1, <2>1, <2>2, <2>3, <2>4, StepOf, OthersCount, EndsCount
    <2>6. QED
      BY <2>2, <2>3, <2>4, <2>5
  <1>2. AInv /\ AInv' /\ [Next]_vars =>
          [\A p \in Updaters : pc[p] \in Busy =>
              /\ StepsLeft(p) \in 1..CallBound
              /\ StepsLeft(p)' <= StepsLeft(p)
              /\ Fetch(p) \/ Install(p) => StepsLeft(p)' < StepsLeft(p)
              /\ StepsLeft(p)' = 0 <=> pc'[p] \in Idle]_vars
    BY <1>1
  <1>3. QED
    BY <1>2, Attempts, PTL DEF Spec, CallsAreBounded

-----------------------------------------------------------------------------
(* When the downloads are over.                                             *)

\* The current release is in place and recorded, nothing misbehaves, and no call
\* is past its comparison or compares with anything else.
Settled ==
    /\ calm
    /\ record = [etag |-> release, crc |-> Crc[Content[release]]]
    /\ payload # Absent /\ Size[payload] > 0
    /\ Crc[payload] = Crc[Content[release]]
    /\ \A p \in Updaters :
          /\ pc[p] \in Idle \cup {"load", "head", "compare"}
          /\ pc[p] \in {"head", "compare"} => job[p].cur = record
          /\ pc[p] = "compare" => job[p].want = release

\* From then on all updaters agree that it is up to date: none downloads again,
\* touches the payload or the state file, however often its process restarts.
LEMMA SettledKept ==
    ASSUME TypeOK, Settled, [Next]_vars
    PROVE  Settled'
  <1>1. CASE UNCHANGED vars
    BY <1>1 DEF vars, Settled
  <1>2. ASSUME NEW p \in Updaters, Step(p) \/ Restart(p)
        PROVE  Settled'
    <2>1. Aside(p)
      BY <1>2, StepAside
    <2>2. EnsureLatest(p) \/ LoadState(p) \/ Head(p) \/ Compare(p) \/ Restart(p)
      BY <1>2 DEF Settled, Idle, Step, Fetch, Install, GetRefused, Get, GetFails, CopyOk,
                  CopyFails, SumOk, SumMismatch, SumFails, RemoveOld, RenameOk, RenameAgain,
                  RenameBlocked, RenameGivesUp, PauseOver, PauseStopped, Truncate, WriteRecord
    <2>3. UNCHANGED <<payload, record, release, calm>>
      BY <2>2 DEF EnsureLatest, LoadState, Head, RequestFails, Compare, Restart
    <2>4. /\ pc'[p] \in Idle \cup {"load", "head", "compare"}
          /\ pc'[p] \in {"head", "compare"} => job'[p].cur = record
          /\ pc'[p] = "compare" => job'[p].want = release
      <3>0. p \in DOMAIN pc /\ p \in DOMAIN job /\ job[p] \in Job
        BY DEF TypeOK
      <3>1. CASE EnsureLatest(p)
        BY <3>0, <3>1 DEF EnsureLatest, Goto, Idle
      <3>2. CASE LoadState(p)
        BY <3>0, <3>2 DEF LoadState, Goto, Idle, Job
      <3>3. ASSUME NEW result \in Idle, Return(p, result)
            PROVE  pc'[p] \in Idle
        BY <3>3, ReturnAside
      <3>4. CASE Head(p)
        <4>1. CASE RequestFails(p)
          BY <3>3, <4>1 DEF RequestFails, Idle
        <4>2. CASE ~RequestFails(p)
          <5>1. /\ pc[p] = "head" /\ pc'[p] = "compare"
                /\ job'[p].want = release /\ job'[p].cur = job[p].cur
            BY <3>0, <3>4, <4>2 DEF Head, Goto, Job
          <5>2. QED
            BY <5>1 DEF Settled
        <4>3. QED
          BY <4>1, <4>2
      <3>5. CASE Compare(p)
        <4>1. UpToDate(p)
          BY <3>5 DEF Compare, Settled, UpToDate, MatchesInstalled
        <4>2. Return(p, "ok")
          BY <3>5, <4>1 DEF Compare, Settled
        <4>3. QED
          BY <3>3, <4>2 DEF Idle
      <3>6. CASE Restart(p)
        BY <3>3, <3>6 DEF Restart, Idle
      <3>7. QED
        BY <2>2, <3>1, <3>2, <3>4, <3>5, <3>6
    <2>5. QED
      BY <2>1, <2>3, <2>4 DEF Aside, Settled
  <1>3. CASE Environment /\ ~\E p \in Updaters : Restart(p)
    BY <1>3 DEF Environment, Cancel, Publish, Damage, Settle, Age, Settled
  <1>4. QED
    BY <1>1, <1>2, <1>3 DEF Next

\* Once settled, nobody ever downloads or installs anything again.
NoMoreDownloads == [](Settled => [](\A p \in Updaters : pc[p] \in Idle \cup {"load", "head", "compare"}))

\* Downloads stop for good: what EnsureLatest's comparison with the record is for
\* (update.go:182-187).  Whether a machine settles at all is ConvergesOnceCalm.
THEOREM DownloadsOver == Spec => NoMoreDownloads
  <1>1. TypeOK /\ Settled /\ [Next]_vars => Settled'
    BY SettledKept
  <1>2. Settled => \A p \in Updaters : pc[p] \in Idle \cup {"load", "head", "compare"}
    BY DEF Settled
  <1>3. QED
    BY <1>1, <1>2, TypeCorrect, PTL DEF Spec, NoMoreDownloads
-----------------------------------------------------------------------------
(* When a call succeeds.                                                    *)

\* os.CreateTemp finds a name; it has 2^32 of them to draw from.
Room == \E t \in Temp \ Names : temps[t].is = "free"

\* A call of p that nothing is in the way of any more: the environment is calm, the
\* release can be installed, and what the call has learned of it is true.
OnCourse(p) ==
    /\ calm /\ Installable(release) /\ p \notin cancelled
    /\ pc[p] \in Busy
    /\ pc[p] \in {"load", "head", "compare", "get"} => Room
    /\ pc[p] \notin {"load", "head"} => job[p].want = release
    /\ pc[p] \in Owning \cup Summed => job[p].got.etag = release
    /\ pc[p] \in Complete => temps[job[p].tmp].is = "closed"
    /\ pc[p] \in {"truncate", "write"} => payload = Content[release]

\* The call has returned nil, and the payload is the current release.
Delivered(p) ==
    /\ pc[p] = "ok"
    /\ payload # Absent /\ Crc[payload] = Crc[Content[release]]

\* With one updater on the path, as staleTempAge assumes (update.go:38-48), a call
\* that begins in a calm system fails only by a stop: it confirms the release or
\* installs it, whatever was on disk, and after it has recorded the release
\* nothing is downloaded again (update.go:125-298).
CalmCallsDeliver ==
    [][\A p \in Updaters : Updaters = {p} =>
          /\ EnsureLatest(p) /\ calm /\ Installable(release) /\ Room => OnCourse(p)'
          /\ OnCourse(p) => OnCourse(p)' \/ Delivered(p)' \/ p \in cancelled'
          /\ OnCourse(p) /\ pc[p] = "write" /\ pc'[p] = "ok" => Settled']_vars

\* An installable body comes through the limit reader whole.
LEMMA ReceivesAll ==
    ASSUME NEW b \in Body, Size[b] \in 1..Limit
    PROVE  BytesRead(b) = Size[b] /\ Received(b) = b
  <1>1. Limit \in 1..MaxInt64 /\ Size[b] \in 0..MaxInt64
    BY LimitAssumption, ChecksumAssumption DEF Limit
  <1>2. BytesRead(b) = Size[b]
    BY <1>1, LimitAssumption DEF BytesRead, ReadLimit
  <1>3. QED
    BY <1>2 DEF Received

LEMMA RoomKept ==
    ASSUME NEW p \in Updaters, Updaters = {p}, Room, UNCHANGED temps, job'[p].tmp = job[p].tmp
    PROVE  Room'
  <1>1. Names = {job[p].tmp} /\ Names' = {job'[p].tmp}
    BY DEF Names
  <1>2. QED
    BY <1>1 DEF Room

\* The steps of a call on course, up to the GET: the comparison may end it.
LEMMA AskOnCourse ==
    ASSUME IInv, NEW p \in Updaters, Updaters = {p}, OnCourse(p),
           LoadState(p) \/ Head(p) \/ Compare(p)
    PROVE  OnCourse(p)' \/ Delivered(p)'
  <1>0. /\ TypeOK /\ CallOK(p) /\ job[p] \in Job /\ p \in DOMAIN pc /\ p \in DOMAIN job
        /\ calm /\ Installable(release) /\ p \notin cancelled
        /\ ~RequestFails(p)
    BY DEF IInv, TypeOK, OnCourse, RequestFails
  <1>1. UNCHANGED <<payload, record, temps, release, calm, cancelled>>
    BY <1>0 DEF LoadState, Head, Compare
  <1>2. CASE LoadState(p)
    <2>1. pc[p] = "load" /\ pc'[p] = "head" /\ job'[p].tmp = job[p].tmp
      BY <1>0, <1>2 DEF LoadState, Goto, Job
    <2>2. Room'
      BY <1>1, <2>1, RoomKept DEF OnCourse
    <2>3. QED
      BY <1>0, <1>1, <2>1, <2>2 DEF OnCourse, Installable, Busy, Owning, Summed, Complete
  <1>3. CASE Head(p)
    <2>1. /\ pc[p] = "head" /\ pc'[p] = "compare"
          /\ job'[p].tmp = job[p].tmp /\ job'[p].want = release
      BY <1>0, <1>3 DEF Head, Goto, Job
    <2>2. Room'
      BY <1>1, <2>1, RoomKept DEF OnCourse
    <2>3. QED
      BY <1>0, <1>1, <2>1, <2>2 DEF OnCourse, Installable, Busy, Owning, Summed, Complete
  <1>4. CASE Compare(p) /\ ~UpToDate(p)
    <2>1. /\ pc[p] = "compare" /\ pc'[p] = "get"
          /\ job'[p].tmp = job[p].tmp /\ job'[p].want = job[p].want
      BY <1>0, <1>4 DEF Compare, Goto, Job
    <2>2. Room'
      BY <1>1, <2>1, RoomKept DEF OnCourse
    <2>3. QED
      BY <1>0, <1>1, <2>1, <2>2 DEF OnCourse, Installable, Busy, Owning, Summed, Complete
  <1>5. CASE Compare(p) /\ UpToDate(p)
    <2>1. pc[p] = "compare" /\ job[p].want = release /\ Return(p, "ok")
      BY <1>0, <1>5 DEF Compare, OnCourse
    <2>2. payload \in Body /\ Size[payload] > 0 /\ Crc[payload] = job[p].cur.crc
      BY <1>0, <1>5 DEF UpToDate, MatchesInstalled, TypeOK
    <2>3. Crc[payload] # 0
      BY <2>2, ChecksumAssumption
    <2>4. job[p].cur.etag = release /\ release \in ETag /\ Served(job[p].cur)
      BY <1>0, <1>5, <2>1 DEF UpToDate, CallOK, TypeOK
    <2>5. Crc[payload] = Crc[Content[release]] /\ payload # Absent
      BY <2>2, <2>3, <2>4, ContentAssumption DEF Served
    <2>6. QED
      BY <1>0, <1>1, <2>1, <2>5 DEF Delivered, Return, Goto
  <1>6. QED
    BY <1>2, <1>3, <1>4, <1>5

\* From the GET to the sum of the download.
LEMMA FetchOnCourse ==
    ASSUME IInv, NEW p \in Updaters, Updaters = {p}, OnCourse(p),
           Fetch(p), ~(LoadState(p) \/ Head(p) \/ Compare(p))
    PROVE  OnCourse(p)'
  <1>0. /\ TypeOK /\ CallOK(p) /\ job[p] \in Job /\ p \in DOMAIN pc /\ p \in DOMAIN job
        /\ calm /\ Installable(release) /\ p \notin cancelled
        /\ ~RequestFails(p)
        /\ release \in ETag
    BY DEF IInv, TypeOK, OnCourse, RequestFails
  <1>1. Content[release] \in Body /\ Size[Content[release]] \in 1..Limit
    BY <1>0, ContentAssumption DEF Installable
  <1>2. Get(p) \/ CopyOk(p) \/ SumOk(p)
    <2>1. ~GetRefused(p)
      <3>1. CASE pc[p] = "get"
        <4>1. Room /\ Limit \in 1..MaxInt64 /\ Size[Content[release]] \in Nat
          BY <1>1, <3>1, LimitAssumption, ChecksumAssumption DEF OnCourse, Limit
        <4>2. QED
          BY <1>1, <4>1 DEF GetRefused, Room
      <3>2. QED
        BY <3>1 DEF GetRefused
    <2>2. ~CopyFails(p)
      BY <1>0, <1>1, ReceivesAll DEF CopyFails, OnCourse, Owning
    <2>3. ~SumMismatch(p) /\ ~SumFails(p)
      BY <1>0 DEF SumMismatch, SumFails, Same, OnCourse, Owning, Complete
    <2>4. QED
      BY <1>0, <2>1, <2>2, <2>3 DEF Fetch, GetFails
  <1>3. CASE Get(p)
    <2>1. /\ pc'[p] = "copy" /\ pc[p] = "get"
          /\ UNCHANGED <<payload, release, calm, cancelled>>
      BY <1>0, <1>3 DEF Get, Goto
    <2>3. PICK t \in Temp :
            job' = [job EXCEPT ![p].tmp = t, ![p].got = [etag |-> release, crc |-> 0]]
      BY <1>3 DEF Get
    <2>4. job'[p].want = job[p].want /\ job'[p].got = [etag |-> release, crc |-> 0]
      BY <1>0, <2>3 DEF Job
    <2>5. job'[p].got.etag = release
      BY <2>4
    <2>6. QED
      BY <1>0, <2>1, <2>4, <2>5 DEF OnCourse, Installable, Busy, Owning, Summed, Complete
  <1>4. CASE CopyOk(p)
    <2>1. /\ pc'[p] = "sum" /\ pc[p] = "copy" /\ job[p].tmp \in Temp
          /\ temps'[job[p].tmp].is = "closed"
          /\ UNCHANGED <<payload, release, calm, cancelled, job>>
      BY <1>0, <1>4 DEF CopyOk, Goto, CallOK, Owning, TypeOK
    <2>2. QED
      BY <1>0, <2>1 DEF OnCourse, Installable, Busy, Owning, Summed, Complete
  <1>5. CASE SumOk(p)
    <2>1. /\ pc'[p] = "remove" /\ pc[p] = "sum"
          /\ job'[p].want = job[p].want /\ job'[p].tmp = job[p].tmp
          /\ job'[p].got.etag = job[p].got.etag
          /\ UNCHANGED <<payload, temps, release, calm, cancelled>>
      BY <1>0, <1>5 DEF SumOk, Goto, Job, Info
    <2>2. QED
      BY <1>0, <2>1 DEF OnCourse, Installable, Busy, Owning, Summed, Complete
  <1>6. QED
    BY <1>2, <1>3, <1>4, <1>5

\* From the swap to the record, which settles the machine.
LEMMA InstallOnCourse ==
    ASSUME IInv, NEW p \in Updaters, Updaters = {p}, OnCourse(p), Install(p)
    PROVE  OnCourse(p)' \/ (Delivered(p)' /\ Settled')
  <1>0. /\ TypeOK /\ CallOK(p) /\ job[p] \in Job /\ p \in DOMAIN pc /\ p \in DOMAIN job
        /\ calm /\ Installable(release) /\ p \notin cancelled
        /\ release \in ETag
    BY DEF IInv, TypeOK, OnCourse
  <1>1. CASE RemoveOld(p)
    <2>1. /\ pc'[p] = "rename" /\ pc[p] = "remove"
          /\ UNCHANGED <<temps, release, calm, cancelled, job>>
      BY <1>0, <1>1 DEF RemoveOld, Goto
    <2>2. QED
      BY <1>0, <2>1 DEF OnCourse, Installable, Busy, Owning, Summed, Complete
  <1>2. CASE RenameOk(p)
    <2>1. /\ pc'[p] = "truncate" /\ pc[p] = "rename"
          /\ job'[p].want = job[p].want /\ job'[p].got = job[p].got
          /\ payload' = temps[job[p].tmp].body
          /\ UNCHANGED <<release, calm, cancelled>>
      BY <1>0, <1>2 DEF RenameOk, Goto, Job
    <2>2. payload' = Content[release]
      BY <1>0, <1>2, <2>1 DEF RenameOk, CallOK, Complete, OnCourse, Owning
    <2>3. QED
      BY <1>0, <2>1, <2>2 DEF OnCourse, Installable, Busy, Owning, Summed, Complete
  <1>3. CASE RenameAgain(p) \/ RenameGivesUp(p)
    BY <1>0, <1>3 DEF RenameAgain, RenameGivesUp, RenameBlocked, OnCourse, Complete
  <1>4. CASE PauseOver(p)
    <2>1. /\ pc'[p] = "rename" /\ pc[p] = "pause"
          /\ job'[p].want = job[p].want /\ job'[p].tmp = job[p].tmp /\ job'[p].got = job[p].got
          /\ UNCHANGED <<payload, temps, release, calm, cancelled>>
      BY <1>0, <1>4 DEF PauseOver, Goto, Job
    <2>2. QED
      BY <1>0, <2>1 DEF OnCourse, Installable, Busy, Owning, Summed, Complete
  <1>5. CASE PauseStopped(p)
    BY <1>0, <1>5 DEF PauseStopped
  <1>6. CASE Truncate(p)
    <2>1. /\ pc'[p] = "write" /\ pc[p] = "truncate"
          /\ UNCHANGED <<payload, temps, release, calm, cancelled, job>>
      BY <1>0, <1>6 DEF Truncate, Goto
    <2>2. QED
      BY <1>0, <2>1 DEF OnCourse, Installable, Busy, Owning, Summed, Complete
  <1>7. CASE WriteRecord(p)
    <2>1. /\ pc[p] = "write" /\ record' = job[p].got /\ Return(p, "ok")
          /\ UNCHANGED <<payload, temps, release, calm, cancelled>>
      BY <1>0, <1>7 DEF WriteRecord
    <2>2. payload = Content[release] /\ payload \in Body /\ payload # Absent
          /\ Size[payload] > 0
      <3>1. payload = Content[release]
        BY <2>1 DEF OnCourse
      <3>2. Content[release] \in Body
        BY <1>0, ContentAssumption
      <3>3. Size[Content[release]] \in 1..Limit /\ Limit \in Nat
        BY <1>0, LimitAssumption DEF Installable, Limit
      <3>4. QED
        BY <3>1, <3>2, <3>3, ContentAssumption
    <2>3. record' = [etag |-> release, crc |-> Crc[Content[release]]]
      <3>1. job[p].got \in Info /\ job[p].got.etag = release
            /\ job[p].got.crc = Crc[Content[release]]
        BY <1>0, <2>1 DEF OnCourse, CallOK, Summed, Job
      <3>2. QED
        BY <2>1, <3>1 DEF Info
    <2>4. pc'[p] = "ok"
      BY <1>0, <2>1 DEF Return, Goto
    <2>5. QED
      BY <1>0, <2>1, <2>2, <2>3, <2>4 DEF Delivered, Settled, Idle
  <1>8. QED
    BY <1>1, <1>2, <1>3, <1>4, <1>5, <1>6, <1>7 DEF Install

\* Nobody else's step leads a call astray; only a stop does.
LEMMA OthersOnCourse ==
    ASSUME IInv, NEW p \in Updaters, Updaters = {p}, OnCourse(p),
           Environment \/ UNCHANGED vars
    PROVE  OnCourse(p)' \/ p \in cancelled'
  <1>0. TypeOK /\ calm /\ pc[p] \in Busy /\ p \notin cancelled
    BY DEF IInv, OnCourse
  <1>1. CASE UNCHANGED vars
    BY <1>1 DEF vars, OnCourse, Installable, Room, Names
  <1>2. CASE \E q \in Updaters : Restart(q) \/ Cancel(q)
    BY <1>0, <1>2 DEF Restart, Cancel, Idle, Busy
  <1>3. CASE Publish \/ Damage \/ Settle
    BY <1>0, <1>3 DEF Publish, Damage, Settle
  <1>4. ASSUME NEW t \in Temp, Age(t)
        PROVE  OnCourse(p)'
    <2>1. \A u \in Temp : temps'[u].is = temps[u].is
      BY <1>0, <1>4 DEF Age, TypeOK, File
    <2>2. UNCHANGED <<payload, record, release, calm, cancelled, pc, job>>
      BY <1>4 DEF Age
    <2>3. Room => Room'
      BY <2>1, <2>2 DEF Room, Names
    <2>4. pc[p] \in Complete => job[p].tmp \in Temp
      BY DEF IInv, CallOK, Complete, Owning
    <2>5. QED
      BY <2>1, <2>2, <2>3, <2>4 DEF OnCourse, Installable
  <1>5. QED
    BY <1>1, <1>2, <1>3, <1>4 DEF Environment

\* A call sets out on course.
LEMMA BeginsOnCourse ==
    ASSUME IInv, NEW p \in Updaters, Updaters = {p},
           EnsureLatest(p), calm, Installable(release), Room
    PROVE  OnCourse(p)'
  <1>0. TypeOK /\ p \in DOMAIN pc
    BY DEF IInv, TypeOK
  <1>1. /\ pc'[p] = "load" /\ p \notin cancelled
        /\ UNCHANGED <<payload, record, release, calm, cancelled, job>>
    BY <1>0 DEF EnsureLatest, Goto
  <1>2. \A t \in Temp : temps[t].is = "free" => temps'[t].is = "free"
    BY <1>0 DEF EnsureLatest, NoFile
  <1>3. Room'
    BY <1>1, <1>2 DEF Room, Names
  <1>4. QED
    BY <1>1, <1>3 DEF OnCourse, Installable, Busy, Owning, Summed, Complete

\* One updater on a path that behaves: the safety half of ConvergesOnceCalm.
THEOREM CallsDeliver == Spec => CalmCallsDeliver
  <1>1. ASSUME IInv, [Next]_vars, NEW q \in Updaters, Updaters = {q}
        PROVE  /\ EnsureLatest(q) /\ calm /\ Installable(release) /\ Room => OnCourse(q)'
               /\ OnCourse(q) => OnCourse(q)' \/ Delivered(q)' \/ q \in cancelled'
               /\ OnCourse(q) /\ pc[q] = "write" /\ pc'[q] = "ok" => Settled'
    <2>0. Updaters = {q}
      BY <1>1
    <2>1. Step(q) \/ Environment \/ UNCHANGED vars
      BY <1>1, <2>0 DEF Next
    <2>2. ASSUME OnCourse(q) PROVE OnCourse(q)' \/ Delivered(q)' \/ q \in cancelled'
      <3>1. ~EnsureLatest(q)
        BY <2>2 DEF OnCourse, EnsureLatest, Busy
      <3>2. QED
        BY <1>1, <2>0, <2>1, <2>2, <3>1, AskOnCourse, FetchOnCourse, InstallOnCourse,
           OthersOnCourse DEF Step
    <2>3. ASSUME OnCourse(q), pc[q] = "write", pc'[q] = "ok" PROVE Settled'
      <3>1. ~OnCourse(q)'
        BY <2>3 DEF OnCourse, Busy
      <3>2. ~EnsureLatest(q) /\ ~Fetch(q)
        BY <2>3 DEF EnsureLatest, Fetch, LoadState, Head, Compare, GetRefused, Get, GetFails,
                    CopyOk, CopyFails, SumOk, SumMismatch, SumFails
      <3>3. ~Environment /\ ~UNCHANGED vars
        <4>1. TypeOK /\ calm
          BY <1>1, <2>3 DEF IInv, OnCourse
        <4>2. QED
          BY <2>0, <2>3, <4>1 DEF Environment, Restart, Cancel, Publish, Damage, Settle, Age, vars, Idle
      <3>4. QED
        BY <1>1, <2>0, <2>1, <2>3, <3>1, <3>2, <3>3, InstallOnCourse DEF Step
    <2>4. QED
      BY <1>1, <2>0, <2>2, <2>3, BeginsOnCourse
  <1>2. IInv /\ [Next]_vars =>
          [\A p \in Updaters : Updaters = {p} =>
              /\ EnsureLatest(p) /\ calm /\ Installable(release) /\ Room => OnCourse(p)'
              /\ OnCourse(p) => OnCourse(p)' \/ Delivered(p)' \/ p \in cancelled'
              /\ OnCourse(p) /\ pc[p] = "write" /\ pc'[p] = "ok" => Settled']_vars
    BY <1>1
  <1>3. QED
    BY <1>2, Invariant, PTL DEF Spec, CalmCallsDeliver
=============================================================================
