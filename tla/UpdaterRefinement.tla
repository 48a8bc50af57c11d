------------------------- MODULE UpdaterRefinement -------------------------
(* Updater implements PayloadSync, for any set of updaters and releases.     *)
EXTENDS UpdaterProofs

-----------------------------------------------------------------------------
(* The refinement mapping as a pair of functions.                           *)

CallView == [p \in Updaters |-> CallState(p)]
AskedView == [p \in Updaters |-> Answered(p)]

\* A step of p changes p's part of the abstract state only.
LEMMA ViewsChange ==
    ASSUME NEW p \in Updaters,
           \A q \in Updaters \ {p} : pc'[q] = pc[q] /\ job'[q] = job[q]
    PROVE  /\ CallView' = [CallView EXCEPT ![p] = CallState(p)']
           /\ AskedView' = [AskedView EXCEPT ![p] = Answered(p)']
  <1>1. \A q \in Updaters \ {p} : CallState(q)' = CallState(q) /\ Answered(q)' = Answered(q)
    BY DEF CallState, Answered
  <1>2. QED
    BY <1>1 DEF CallView, AskedView

\* No part of the abstract call state changes when pc and job do not.
LEMMA ViewsKept ==
    ASSUME UNCHANGED <<pc, job>>
    PROVE  CallView' = CallView /\ AskedView' = AskedView
  BY DEF CallView, AskedView, CallState, Answered

\* The end of a call, as PayloadSync sees it.
LEMMA ReturnMaps ==
    ASSUME TypeOK, NEW p \in Updaters, NEW result \in Idle, Return(p, result)
    PROVE  /\ CallView' = [CallView EXCEPT ![p] = result]
           /\ AskedView' = [AskedView EXCEPT ![p] = NoETag]
  <1>1. /\ \A q \in Updaters \ {p} : pc'[q] = pc[q] /\ job'[q] = job[q]
        /\ pc'[p] = result /\ job'[p] = NoJob
    BY ReturnAside
  <1>2. CallState(p)' = result /\ Answered(p)' = NoETag
    BY <1>1 DEF CallState, Answered, Idle, NoJob
  <1>3. QED
    BY <1>1, <1>2, ViewsChange

-----------------------------------------------------------------------------
(* The steps of a call.                                                     *)

\* A call that ends with an error before it has delivered.
LEMMA RefuseMaps ==
    ASSUME IInv, NEW p \in Updaters, Return(p, "err"), UNCHANGED <<payload, record, release>>,
           pc[p] \in Busy \ {"truncate", "write"}
    PROVE  Sync!Next
  <1>1. CallView[p] = "busy"
    BY DEF CallView, CallState, Busy, Idle
  <1>2. Sync!Refuse(p)
    BY <1>1, ReturnMaps DEF IInv, Idle, CallView, AskedView,
       Sync!Refuse, Sync!End, Sync!Become, Sync!files
  <1>3. QED
    BY <1>2 DEF Sync!Next

\* A step that shows neither in the files nor in p's abstract state.
LEMMA StutterMaps ==
    ASSUME NEW p \in Updaters, Aside(p), UNCHANGED <<payload, record, release>>,
           CallState(p)' = CallState(p), Answered(p)' = Answered(p)
    PROVE  UNCHANGED Sync!vars
  <1>1. CallView' = CallView /\ AskedView' = AskedView
    BY ViewsChange DEF Aside, CallView, AskedView
  <1>2. QED
    BY <1>1 DEF CallView, AskedView, Sync!vars

\* The server's answer.
LEMMA AskMaps ==
    ASSUME NEW p \in Updaters, Aside(p), UNCHANGED <<payload, record, release>>,
           CallState(p) = "busy", CallState(p)' = "busy", Answered(p)' = release
    PROVE  Sync!Next
  <1>1. CallView' = CallView /\ AskedView' = [AskedView EXCEPT ![p] = release]
    BY ViewsChange DEF Aside, CallView
  <1>2. Sync!Ask(p)
    BY <1>1 DEF CallView, AskedView, Sync!Ask, Sync!files
  <1>3. QED
    BY <1>2 DEF Sync!Next

LEMMA FetchMaps ==
    ASSUME IInv, NEW p \in Updaters, EnsureLatest(p) \/ Fetch(p)
    PROVE  [Sync!Next]_(Sync!vars)
  <1>0. /\ TypeOK /\ Aside(p) /\ CallOK(p)
        /\ p \in DOMAIN pc /\ p \in DOMAIN job /\ job[p] \in Job
    BY StepAside DEF IInv, TypeOK, Step
  <1>1. CASE EnsureLatest(p)
    <2>1. pc'[p] = "load" /\ job'[p] = job[p]
      BY <1>0, <1>1 DEF EnsureLatest, Goto
    <2>2. /\ CallState(p) = pc[p] /\ CallState(p)' = "busy"
          /\ Answered(p)' = Answered(p)
      BY <1>1, <2>1 DEF EnsureLatest, CallState, Answered, Idle
    <2>3. CallView' = [CallView EXCEPT ![p] = "busy"] /\ AskedView' = AskedView
      BY <1>0, <2>2, ViewsChange DEF Aside, AskedView
    <2>4. Sync!Call(p)
      BY <1>1, <2>2, <2>3 DEF EnsureLatest, CallView, AskedView, Sync!Call, Sync!Become, Sync!files
    <2>5. QED
      BY <2>4 DEF Sync!Next
  <1>2. CASE LoadState(p)
    <2>1. pc'[p] = "head" /\ job'[p] = [job[p] EXCEPT !.cur = record]
      BY <1>0, <1>2 DEF LoadState, Goto
    <2>2. CallState(p)' = CallState(p) /\ Answered(p)' = Answered(p)
      BY <1>0, <1>2, <2>1 DEF LoadState, CallState, Answered, Idle, Job
    <2>3. QED
      BY <1>0, <1>2, <2>2, StutterMaps DEF LoadState
  <1>3. CASE Head(p)
    <2>1. CASE RequestFails(p)
      BY <1>0, <1>3, <2>1, RefuseMaps DEF Head, RequestFails, Busy
    <2>2. CASE ~RequestFails(p)
      <3>1. pc'[p] = "compare" /\ job'[p] = [job[p] EXCEPT !.want = release]
        BY <1>0, <1>3, <2>2 DEF Head, Goto
      <3>2. /\ CallState(p) = "busy" /\ CallState(p)' = "busy"
            /\ Answered(p)' = release
        BY <1>0, <1>3, <3>1 DEF Head, CallState, Answered, Idle, Job
      <3>3. QED
        BY <1>0, <1>3, <2>2, <3>2, AskMaps DEF Head
    <2>3. QED
      BY <2>1, <2>2
  <1>4. CASE Compare(p)
    <2>1. CASE UpToDate(p) /\ Return(p, "ok")
      <3>1. job[p].want \in ETag /\ Served(job[p].cur)
        BY <1>0, <1>4 DEF CallOK, Compare
      <3>2. payload \in Body /\ Size[payload] > 0 /\ Crc[payload] # 0
        BY <1>0, <2>1, ChecksumAssumption DEF TypeOK, UpToDate, MatchesInstalled
      <3>3. Crc[payload] = Crc[Content[job[p].want]]
        BY <2>1, <3>1, <3>2 DEF UpToDate, MatchesInstalled, Served
      <3>4. CallView[p] = "busy" /\ AskedView[p] = job[p].want
        BY <1>4 DEF Compare, CallView, AskedView, CallState, Answered, Idle
      <3>5. /\ CallView' = [CallView EXCEPT ![p] = "ok"]
            /\ AskedView' = [AskedView EXCEPT ![p] = NoETag]
        BY <1>0, <2>1, ReturnMaps DEF Idle
      <3>6. payload # Absent
        BY <3>2, ContentAssumption
      <3>7. Sync!Confirm(p)
        BY <1>4, <3>1, <3>2, <3>3, <3>4, <3>5, <3>6
        DEF Compare, CallView, AskedView, Sync!Confirm, Sync!End, Sync!Become, Sync!files
      <3>8. QED
        BY <3>7 DEF Sync!Next
    <2>2. CASE ~(UpToDate(p) /\ Return(p, "ok"))
      <3>1. pc'[p] = "get" /\ job'[p] = [job[p] EXCEPT !.cur = ZeroInfo, !.tries = 1]
        BY <1>0, <1>4, <2>2 DEF Compare, Goto
      <3>2. CallState(p)' = CallState(p) /\ Answered(p)' = Answered(p)
        BY <1>0, <1>4, <3>1 DEF Compare, CallState, Answered, Idle, Job
      <3>3. QED
        BY <1>0, <1>4, <3>2, StutterMaps DEF Compare
    <2>3. QED
      BY <2>1, <2>2
  <1>5. CASE GetRefused(p)
    BY <1>5, RefuseMaps DEF GetRefused, Busy
  <1>6. CASE Get(p)
    <2>1. PICK t \in Temp :
             job' = [job EXCEPT ![p].tmp = t, ![p].got = [etag |-> release, crc |-> 0]]
      BY <1>6 DEF Get
    <2>2. pc'[p] = "copy" /\ job'[p].got = [etag |-> release, crc |-> 0]
      BY <1>0, <1>6, <2>1 DEF Get, Goto, Job
    <2>3. CallState(p) = "busy" /\ CallState(p)' = "busy" /\ Answered(p)' = release
      BY <1>6, <2>2 DEF Get, CallState, Answered, Idle
    <2>4. QED
      BY <1>0, <1>6, <2>3, AskMaps DEF Get
  <1>7. CASE GetFails(p)
    BY <1>7, RefuseMaps DEF GetFails, RequestFails, Busy
  <1>8. CASE CopyOk(p)
    <2>1. pc'[p] = "sum" /\ job'[p] = job[p]
      BY <1>0, <1>8 DEF CopyOk, Goto
    <2>2. CallState(p)' = CallState(p) /\ Answered(p)' = Answered(p)
      BY <1>8, <2>1 DEF CopyOk, CallState, Answered, Idle
    <2>3. QED
      BY <1>0, <1>8, <2>2, StutterMaps DEF CopyOk
  <1>9. CASE CopyFails(p)
    BY <1>9, RefuseMaps DEF CopyFails, Busy
  <1>10. CASE SumOk(p)
    <2>1. pc'[p] = "remove" /\ job'[p].got.etag = job[p].got.etag
      BY <1>0, <1>10 DEF SumOk, Goto, Job, Info
    <2>2. CallState(p)' = CallState(p) /\ Answered(p)' = Answered(p)
      BY <1>10, <2>1 DEF SumOk, CallState, Answered, Idle
    <2>3. QED
      BY <1>0, <1>10, <2>2, StutterMaps DEF SumOk
  <1>11. CASE SumMismatch(p)
    <2>1. pc'[p] = "get" /\ job'[p].want = job[p].got.etag
      BY <1>0, <1>11 DEF SumMismatch, Goto, Job
    <2>2. CallState(p)' = CallState(p) /\ Answered(p)' = Answered(p)
      BY <1>11, <2>1 DEF SumMismatch, CallState, Answered, Idle
    <2>3. QED
      BY <1>0, <1>11, <2>2, StutterMaps DEF SumMismatch
  <1>12. CASE SumFails(p)
    BY <1>12, RefuseMaps DEF SumFails, Fail, Busy
  <1>13. QED
    BY <1>1, <1>2, <1>3, <1>4, <1>5, <1>6, <1>7, <1>8, <1>9, <1>10, <1>11, <1>12 DEF Fetch

LEMMA InstallMaps ==
    ASSUME IInv, NEW p \in Updaters, Install(p)
    PROVE  [Sync!Next]_(Sync!vars)
  <1>0. /\ TypeOK /\ Aside(p) /\ CallOK(p)
        /\ p \in DOMAIN pc /\ p \in DOMAIN job /\ job[p] \in Job
    BY StepAside DEF IInv, TypeOK, Step
  <1>1. CASE RemoveOld(p)
    <2>1. pc'[p] = "rename" /\ job'[p] = job[p]
      BY <1>0, <1>1 DEF RemoveOld, Goto
    <2>2. CallState(p)' = CallState(p) /\ Answered(p)' = Answered(p)
      BY <1>1, <2>1 DEF RemoveOld, CallState, Answered, Idle
    <2>3. CASE UNCHANGED payload
      BY <1>0, <1>1, <2>2, <2>3, StutterMaps DEF RemoveOld
    <2>4. CASE payload' = Absent
      <3>1. CallView' = CallView /\ AskedView' = AskedView
        BY <1>0, <2>2, ViewsChange DEF Aside, CallView, AskedView
      <3>2. /\ CallView[p] = "busy"
            /\ AskedView[p] = job[p].got.etag
            /\ job[p].got.etag \in ETag /\ Sync!Installable(job[p].got.etag)
        BY <1>0, <1>1 DEF RemoveOld, CallView, AskedView, CallState, Answered, Idle,
           CallOK, Owning, Complete, Sync!Installable
      <3>3. Sync!MakeRoom(p)
        BY <1>1, <2>4, <3>1, <3>2 DEF RemoveOld, CallView, AskedView, Sync!MakeRoom
      <3>4. QED
        BY <3>3 DEF Sync!Next
    <2>5. QED
      BY <1>1, <2>3, <2>4 DEF RemoveOld
  <1>2. CASE RenameOk(p)
    <2>1. /\ job[p].got.etag \in ETag /\ Sync!Installable(job[p].got.etag)
          /\ payload' = Content[job[p].got.etag]
      BY <1>0, <1>2 DEF RenameOk, CallOK, Owning, Complete, Sync!Installable
    <2>2. pc'[p] = "truncate" /\ job'[p].got = job[p].got
      BY <1>0, <1>2 DEF RenameOk, Goto, Job
    <2>3. /\ CallState(p) = "busy" /\ CallState(p)' = "delivered"
          /\ Answered(p) = job[p].got.etag /\ Answered(p)' = Answered(p)
      BY <1>2, <2>2 DEF RenameOk, CallState, Answered, Idle
    <2>4. /\ CallView[p] = "busy" /\ AskedView[p] = job[p].got.etag
          /\ CallView' = [CallView EXCEPT ![p] = "delivered"] /\ AskedView' = AskedView
      BY <1>0, <2>3, ViewsChange DEF Aside, CallView, AskedView
    <2>5. Sync!Deliver(p)
      BY <1>2, <2>1, <2>4 DEF RenameOk, CallView, AskedView, Sync!Deliver, Sync!Become
    <2>6. QED
      BY <2>5 DEF Sync!Next
  <1>3. CASE RenameAgain(p)
    <2>1. pc'[p] = "pause" /\ job'[p] = job[p] /\ pc[p] = "rename"
      BY <1>0, <1>3 DEF RenameAgain, RenameBlocked, Goto
    <2>2. CallState(p)' = CallState(p) /\ Answered(p)' = Answered(p)
      BY <2>1 DEF CallState, Answered, Idle
    <2>3. QED
      BY <1>0, <1>3, <2>2, StutterMaps DEF RenameAgain
  <1>4. CASE RenameGivesUp(p)
    BY <1>4, RefuseMaps DEF RenameGivesUp, RenameBlocked, Fail, Busy
  <1>5. CASE PauseOver(p)
    <2>1. pc'[p] = "rename" /\ job'[p].got = job[p].got
      BY <1>0, <1>5 DEF PauseOver, Goto, Job
    <2>2. CallState(p)' = CallState(p) /\ Answered(p)' = Answered(p)
      BY <1>5, <2>1 DEF PauseOver, CallState, Answered, Idle
    <2>3. QED
      BY <1>0, <1>5, <2>2, StutterMaps DEF PauseOver
  <1>6. CASE PauseStopped(p)
    BY <1>6, RefuseMaps DEF PauseStopped, Fail, Busy
  <1>7. CASE Truncate(p)
    <2>1. CallView[p] = "delivered"
      BY <1>7 DEF Truncate, CallView, CallState, Idle
    <2>2. CASE Return(p, "ok") /\ UNCHANGED record
      <3>1. Sync!Note(p)
        BY <1>0, <1>7, <2>1, <2>2, ReturnMaps
        DEF Truncate, Idle, CallView, AskedView, Sync!Note, Sync!End, Sync!Become
      <3>2. QED
        BY <3>1 DEF Sync!Next
    <2>3. CASE record' = ZeroInfo /\ Goto(p, "write") /\ UNCHANGED job
      <3>1. pc'[p] = "write" /\ job'[p] = job[p]
        BY <1>0, <2>3 DEF Goto
      <3>2. CallState(p)' = CallState(p) /\ Answered(p)' = Answered(p)
        BY <1>7, <3>1 DEF Truncate, CallState, Answered, Idle
      <3>3. CallView' = CallView /\ AskedView' = AskedView
        BY <1>0, <3>2, ViewsChange DEF Aside, CallView, AskedView
      <3>4. Sync!Forget(p)
        BY <1>7, <2>1, <2>3, <3>3
        DEF Truncate, CallView, AskedView, ZeroInfo, Sync!Forget, Sync!ZeroInfo
      <3>5. QED
        BY <3>4 DEF Sync!Next
    <2>4. QED
      BY <1>7, <2>2, <2>3 DEF Truncate
  <1>8. CASE WriteRecord(p)
    <2>1. job[p].got = [etag |-> job[p].got.etag, crc |-> Crc[Content[job[p].got.etag]]]
      BY <1>0, <1>8 DEF WriteRecord, CallOK, Summed, Job, Info
    <2>2. CallView[p] = "delivered" /\ AskedView[p] = job[p].got.etag
      BY <1>8 DEF WriteRecord, CallView, AskedView, CallState, Answered, Idle
    <2>3. /\ CallView' = [CallView EXCEPT ![p] = "ok"]
          /\ AskedView' = [AskedView EXCEPT ![p] = NoETag]
      BY <1>0, <1>8, ReturnMaps DEF WriteRecord, Idle
    <2>4. Sync!Note(p)
      BY <1>8, <2>1, <2>2, <2>3
      DEF WriteRecord, CallView, AskedView, Sync!Note, Sync!End, Sync!Become
    <2>5. QED
      BY <2>4 DEF Sync!Next
  <1>9. QED
    BY <1>1, <1>2, <1>3, <1>4, <1>5, <1>6, <1>7, <1>8 DEF Install

-----------------------------------------------------------------------------
(* The environment, the initial states, the theorem.                        *)

LEMMA EnvironmentMaps ==
    ASSUME IInv, Environment
    PROVE  [Sync!Next]_(Sync!vars)
  <1>1. ASSUME NEW p \in Updaters, Restart(p) PROVE Sync!Next
    <2>1. Sync!Restart(p)
      BY <1>1, ReturnMaps DEF IInv, Restart, Idle, CallView, AskedView,
         Sync!Restart, Sync!End, Sync!Become, Sync!files
    <2>2. QED
      BY <2>1 DEF Sync!Next
  <1>2. ASSUME UNCHANGED <<payload, record, release, pc, job>> PROVE UNCHANGED Sync!vars
    BY <1>2, ViewsKept DEF CallView, AskedView, Sync!vars
  <1>3. ASSUME NEW p \in Updaters, Cancel(p) PROVE UNCHANGED Sync!vars
    BY <1>2, <1>3 DEF Cancel
  <1>4. CASE Publish
    <2>1. Sync!Publish
      BY <1>4, ViewsKept DEF Publish, CallView, AskedView, Sync!Publish, Sync!files
    <2>2. QED
      BY <2>1 DEF Sync!Next
  <1>5. CASE Damage
    <2>1. Sync!Damage
      BY <1>5, ViewsKept DEF Damage, CallView, AskedView, ZeroInfo, Sync!Damage, Sync!ZeroInfo
    <2>2. QED
      BY <2>1 DEF Sync!Next
  <1>6. CASE Settle
    BY <1>2, <1>6 DEF Settle
  <1>7. ASSUME NEW t \in Temp, Age(t) PROVE UNCHANGED Sync!vars
    BY <1>2, <1>7 DEF Age
  <1>8. QED
    BY <1>1, <1>3, <1>4, <1>5, <1>6, <1>7 DEF Environment

LEMMA InitMaps ==
    ASSUME Init
    PROVE  Sync!Init
  <1>1. \A p \in Updaters : CallState(p) = "new" /\ Answered(p) = NoETag
    BY DEF Init, CallState, Answered, Idle, NoJob
  <1>2. /\ CallView = [p \in Updaters |-> "new"]
        /\ AskedView = [p \in Updaters |-> NoETag]
    BY <1>1 DEF CallView, AskedView
  <1>3. record \in {Sync!ZeroInfo} \cup [etag : ETag, crc : {0} \cup {Crc[Content[e]] : e \in ETag}]
    BY DEF Init, ZeroInfo, Sync!ZeroInfo
  <1>4. QED
    BY <1>2, <1>3 DEF Init, CallView, AskedView, Sync!Init

\* Whatever requests, locks, crashes and other updaters do, a call of EnsureLatest
\* is one of PayloadSync's: it delivers or confirms what the server said during
\* that call, and cannot fail after the payload was swapped.
THEOREM Refinement == Spec => ImplementsPayloadSync
  <1>1. ASSUME IInv, [Next]_vars PROVE [Sync!Next]_(Sync!vars)
    <2>1. CASE UNCHANGED vars
      BY <2>1, ViewsKept DEF vars, CallView, AskedView, Sync!vars
    <2>2. CASE Next
      BY <1>1, <2>2, FetchMaps, InstallMaps, EnvironmentMaps DEF Next, Step
    <2>3. QED
      BY <1>1, <2>1, <2>2
  <1>2. QED
    BY <1>1, InitMaps, Invariant, PTL DEF Spec, ImplementsPayloadSync, Sync!Spec
=============================================================================
