--------------------------- MODULE UpdaterProofs ---------------------------
(* Proofs about Updater, for any set of updaters, releases, bodies, limits   *)
(* and numbers of attempts.                                                  *)
EXTENDS Updater, TLAPS

-----------------------------------------------------------------------------
\* What a call knows at each point.  A call owns a name from Get to the end of
\* its download; the file of that name holds the release's whole body, or a
\* sweep has taken it; after SumOk, the pair about to be recorded is the
\* release's own.
Owning == {"copy", "sum", "remove", "rename", "pause"}
Complete == {"sum", "remove", "rename", "pause"}
Summed == {"remove", "rename", "pause", "truncate", "write"}

CallOK(p) ==
    /\ Served(job[p].cur)
    /\ pc[p] = "compare" => job[p].want \in ETag
    /\ pc[p] \in Owning <=> job[p].tmp \in Temp
    /\ pc[p] \in Owning \cup Summed => job[p].got.etag \in ETag
    /\ pc[p] \in Summed => job[p].got.crc = Crc[Content[job[p].got.etag]]
    /\ pc[p] = "copy" => temps[job[p].tmp].is = "open"
    /\ pc[p] \in Complete => /\ Size[Content[job[p].got.etag]] \in 1..Limit
                             /\ temps[job[p].tmp].is # "open"
                             /\ temps[job[p].tmp].is = "closed" =>
                                   temps[job[p].tmp].body = Content[job[p].got.etag]

OneOwner == \A p, q \in Updaters :
               p # q /\ job[p].tmp \in Temp => job[q].tmp # job[p].tmp

IInv == TypeOK /\ RecordIsServedPair /\ OneOwner /\ \A p \in Updaters : CallOK(p)

-----------------------------------------------------------------------------
(* Typing.                                                                  *)

LEMMA ZeroTyped ==
    /\ ZeroInfo \in Info
    /\ NoFile \in File
    /\ NoJob \in Job
  BY ContentAssumption DEF ZeroInfo, Info, NoFile, File, NoJob, Job

\* The parts of a step: the program counter, the locals, the downloads.
LEMMA GotoTyped ==
    ASSUME TypeOK, NEW p \in Updaters, NEW label \in Idle \cup Busy, Goto(p, label)
    PROVE  pc' \in [Updaters -> Idle \cup Busy]
  BY DEF TypeOK, Goto

LEMMA JobTyped ==
    ASSUME TypeOK, NEW p \in Updaters, NEW j \in Job, job' = [job EXCEPT ![p] = j]
    PROVE  job' \in [Updaters -> Job]
  BY DEF TypeOK

LEMMA ReturnTyped ==
    ASSUME TypeOK, NEW p \in Updaters, NEW result \in Idle, Return(p, result)
    PROVE  /\ pc' \in [Updaters -> Idle \cup Busy]
           /\ job' \in [Updaters -> Job]
  BY GotoTyped, JobTyped, ZeroTyped DEF Return

LEMMA TempsTyped ==
    ASSUME TypeOK, NEW t, NEW f \in File, temps' = [temps EXCEPT ![t] = f]
    PROVE  temps' \in [Temp -> File]
  BY DEF TypeOK

LEMMA DiscardTyped ==
    ASSUME TypeOK, NEW t, Discard(t)
    PROVE  temps' \in [Temp -> File]
  <1>1. CASE temps' = [temps EXCEPT ![t] = NoFile]
    BY <1>1, TempsTyped, ZeroTyped
  <1>2. CASE UNCHANGED temps
    BY <1>2 DEF TypeOK
  <1>3. QED
    BY <1>1, <1>2 DEF Discard

LEMMA FailTyped ==
    ASSUME TypeOK, NEW p \in Updaters, Fail(p)
    PROVE  TypeOK'
  BY DiscardTyped, ReturnTyped DEF Fail, TypeOK, Idle

LEMMA RequestFailsTyped ==
    ASSUME TypeOK, NEW p \in Updaters, RequestFails(p)
    PROVE  TypeOK'
  BY ReturnTyped DEF RequestFails, TypeOK, Idle

\* One step of a call keeps the types.
LEMMA FetchTyped ==
    ASSUME IInv, NEW p \in Updaters, EnsureLatest(p) \/ Fetch(p)
    PROVE  TypeOK'
  <1>0. /\ TypeOK
        /\ job[p] \in Job
        /\ {"load", "head", "compare", "get", "copy", "sum", "remove"} \subseteq Busy
        /\ {"ok", "err"} \subseteq Idle
        /\ record \in Info /\ release \in ETag /\ ZeroInfo \in Info
    BY ZeroTyped DEF IInv, TypeOK, Busy, Idle
  <1>1. CASE EnsureLatest(p)
    <2>0. PICK gone : temps' = [t \in Temp |-> IF t \in gone THEN NoFile ELSE temps[t]]
      BY <1>1 DEF EnsureLatest
    <2>1. temps' \in [Temp -> File]
      BY <1>0, <2>0, ZeroTyped DEF TypeOK
    <2>2. QED
      BY <1>0, <1>1, <2>1, GotoTyped DEF EnsureLatest, TypeOK
  <1>2. CASE LoadState(p)
    <2>1. [job[p] EXCEPT !.cur = record] \in Job
      BY <1>0 DEF Job
    <2>2. job' = [job EXCEPT ![p] = [job[p] EXCEPT !.cur = record]]
      BY <1>2 DEF LoadState
    <2>3. QED
      BY <1>0, <1>2, <2>1, <2>2, GotoTyped, JobTyped DEF LoadState, TypeOK
  <1>3. CASE Head(p)
    <2>1. CASE RequestFails(p)
      BY <1>0, <2>1, RequestFailsTyped
    <2>2. CASE ~RequestFails(p)
      <3>1. [job[p] EXCEPT !.want = release] \in Job
        BY <1>0 DEF Job
      <3>2. job' = [job EXCEPT ![p] = [job[p] EXCEPT !.want = release]]
        BY <1>3, <2>2 DEF Head
      <3>3. QED
        BY <1>0, <1>3, <2>2, <3>1, <3>2, GotoTyped, JobTyped DEF Head, TypeOK
    <2>3. QED
      BY <2>1, <2>2
  <1>4. CASE Compare(p)
    <2>1. CASE Return(p, "ok")
      BY <1>0, <1>4, <2>1, ReturnTyped DEF Compare, TypeOK
    <2>2. CASE ~Return(p, "ok")
      <3>1. [job[p] EXCEPT !.cur = ZeroInfo, !.tries = 1] \in Job
        BY <1>0 DEF Job
      <3>2. job' = [job EXCEPT ![p] = [job[p] EXCEPT !.cur = ZeroInfo, !.tries = 1]]
        BY <1>4, <2>2 DEF Compare, TypeOK
      <3>3. QED
        BY <1>0, <1>4, <2>2, <3>1, <3>2, GotoTyped, JobTyped DEF Compare, TypeOK
    <2>3. QED
      BY <2>1, <2>2
  <1>5. CASE GetRefused(p)
    BY <1>0, <1>5, ReturnTyped DEF GetRefused, TypeOK
  <1>6. CASE Get(p)
    <2>1. PICK t \in Temp :
             /\ temps' = [temps EXCEPT ![t] = [is |-> "open", stale |-> FALSE, body |-> Partial]]
             /\ job' = [job EXCEPT ![p].tmp = t, ![p].got = [etag |-> release, crc |-> 0]]
      BY <1>6 DEF Get
    <2>2. [is |-> "open", stale |-> FALSE, body |-> Partial] \in File
      BY ContentAssumption DEF File
    <2>3. [job[p] EXCEPT !.tmp = t, !.got = [etag |-> release, crc |-> 0]] \in Job
      BY <1>0 DEF Job, Info
    <2>4. job' = [job EXCEPT ![p] = [job[p] EXCEPT !.tmp = t, !.got = [etag |-> release, crc |-> 0]]]
      BY <2>1 DEF TypeOK
    <2>5. QED
      BY <1>0, <1>6, <2>1, <2>2, <2>3, <2>4, GotoTyped, JobTyped, TempsTyped DEF Get, TypeOK
  <1>7. CASE GetFails(p)
    BY <1>0, <1>7, RequestFailsTyped DEF GetFails
  <1>8. CASE CopyOk(p)
    <2>1. /\ pc[p] = "copy"
          /\ temps' = [temps EXCEPT ![job[p].tmp] =
                         [is |-> "closed", stale |-> FALSE,
                          body |-> Received(Content[job[p].got.etag])]]
      BY <1>8 DEF CopyOk
    <2>2. Received(Content[job[p].got.etag]) \in Body
      BY <2>1, ContentAssumption DEF IInv, CallOK, Owning, Received
    <2>3. [is |-> "closed", stale |-> FALSE,
           body |-> Received(Content[job[p].got.etag])] \in File
      BY <2>2 DEF File
    <2>4. temps' \in [Temp -> File]
      BY <1>0, <2>1, <2>3, TempsTyped
    <2>5. QED
      BY <1>0, <1>8, <2>4, GotoTyped DEF CopyOk, TypeOK
  <1>9. CASE CopyFails(p)
    <2>1. CASE temps' = [temps EXCEPT ![job[p].tmp] = NoFile]
      BY <1>0, <1>9, <2>1, TempsTyped, ReturnTyped, ZeroTyped DEF CopyFails, TypeOK
    <2>2. CASE temps' = [temps EXCEPT ![job[p].tmp].is = "closed"]
      <3>1. temps' \in [Temp -> File]
        BY <1>0, <2>2 DEF TypeOK, File
      <3>2. QED
        BY <1>0, <1>9, <3>1, ReturnTyped DEF CopyFails, TypeOK
    <2>3. QED
      BY <1>9, <2>1, <2>2 DEF CopyFails
  <1>10. CASE SumOk(p)
    <2>1. temps[job[p].tmp] \in File
      BY <1>10 DEF IInv, CallOK, Owning, SumOk, TypeOK
    <2>2. Crc[temps[job[p].tmp].body] \in Nat
      BY <2>1, ChecksumAssumption DEF File
    <2>3. [job[p] EXCEPT !.got.crc = Crc[temps[job[p].tmp].body], !.tries = 1] \in Job
      BY <1>0, <2>2 DEF Job, Info
    <2>4. job' = [job EXCEPT ![p] =
                    [job[p] EXCEPT !.got.crc = Crc[temps[job[p].tmp].body], !.tries = 1]]
      BY <1>0, <1>10 DEF SumOk, TypeOK
    <2>5. QED
      BY <1>0, <1>10, <2>3, <2>4, GotoTyped, JobTyped DEF SumOk, TypeOK
  <1>11. CASE SumMismatch(p)
    <2>0. job[p].got.etag \in ETag \cup {NoETag} /\ job[p].tries + 1 \in Nat
      BY <1>0 DEF Job, Info
    <2>1. [job[p] EXCEPT !.want = job[p].got.etag, !.got = ZeroInfo,
                         !.tmp = NoTemp, !.tries = job[p].tries + 1] \in Job
      BY <1>0, <2>0 DEF Job
    <2>2. job' = [job EXCEPT ![p] =
                    [job[p] EXCEPT !.want = job[p].got.etag, !.got = ZeroInfo,
                                   !.tmp = NoTemp, !.tries = job[p].tries + 1]]
      BY <1>0, <1>11 DEF SumMismatch, TypeOK
    <2>3. QED
      BY <1>0, <1>11, <2>1, <2>2, GotoTyped, JobTyped, DiscardTyped DEF SumMismatch, TypeOK
  <1>12. CASE SumFails(p)
    BY <1>0, <1>12, FailTyped DEF SumFails
  <1>13. QED
    BY <1>1, <1>2, <1>3, <1>4, <1>5, <1>6, <1>7, <1>8, <1>9, <1>10, <1>11, <1>12 DEF Fetch

LEMMA InstallTyped ==
    ASSUME IInv, NEW p \in Updaters, Install(p)
    PROVE  TypeOK'
  <1>0. /\ TypeOK
        /\ job[p] \in Job
        /\ {"remove", "rename", "pause", "truncate", "write"} \subseteq Busy
        /\ {"ok", "err"} \subseteq Idle
        /\ ZeroInfo \in Info
    BY ZeroTyped DEF IInv, TypeOK, Busy, Idle
  <1>1. CASE RemoveOld(p)
    BY <1>0, <1>1, GotoTyped DEF RemoveOld, TypeOK
  <1>2. CASE RenameOk(p)
    <2>1. temps[job[p].tmp] \in File
      BY <1>2 DEF IInv, CallOK, Owning, RenameOk, TypeOK
    <2>2. [job[p] EXCEPT !.tmp = NoTemp] \in Job
      BY <1>0 DEF Job
    <2>3. job' = [job EXCEPT ![p] = [job[p] EXCEPT !.tmp = NoTemp]]
      BY <1>2 DEF RenameOk
    <2>4. payload' \in Body
      BY <1>2, <2>1 DEF RenameOk, File
    <2>5. temps' \in [Temp -> File]
      BY <1>0, <1>2, TempsTyped, ZeroTyped DEF RenameOk
    <2>6. QED
      BY <1>0, <1>2, <2>2, <2>3, <2>4, <2>5, GotoTyped, JobTyped DEF RenameOk, TypeOK
  <1>3. CASE RenameAgain(p)
    BY <1>0, <1>3, GotoTyped DEF RenameAgain, TypeOK
  <1>4. CASE RenameGivesUp(p)
    BY <1>0, <1>4, FailTyped DEF RenameGivesUp
  <1>5. CASE PauseOver(p)
    <2>1. [job[p] EXCEPT !.tries = job[p].tries + 1] \in Job
      BY <1>0 DEF Job
    <2>2. job' = [job EXCEPT ![p] = [job[p] EXCEPT !.tries = job[p].tries + 1]]
      BY <1>5 DEF PauseOver
    <2>3. QED
      BY <1>0, <1>5, <2>1, <2>2, GotoTyped, JobTyped DEF PauseOver, TypeOK
  <1>6. CASE PauseStopped(p)
    BY <1>0, <1>6, FailTyped DEF PauseStopped
  <1>7. CASE Truncate(p)
    BY <1>0, <1>7, GotoTyped, ReturnTyped DEF Truncate, TypeOK
  <1>8. CASE WriteRecord(p)
    <2>1. job[p].got \in Info
      BY <1>0 DEF Job
    <2>2. QED
      BY <1>0, <1>8, <2>1, ReturnTyped DEF WriteRecord, TypeOK
  <1>9. QED
    BY <1>1, <1>2, <1>3, <1>4, <1>5, <1>6, <1>7, <1>8 DEF Install

LEMMA EnvironmentTyped ==
    ASSUME TypeOK, Environment
    PROVE  TypeOK'
  <1> USE ContentAssumption, ZeroTyped DEF TypeOK, Goto, Return, Idle, Busy
  <1>1. ASSUME NEW p \in Updaters, Restart(p) PROVE TypeOK'
    BY <1>1 DEF Restart, File
  <1>2. ASSUME NEW p \in Updaters, Cancel(p) PROVE TypeOK'
    BY <1>2 DEF Cancel
  <1>3. CASE Publish
    BY <1>3 DEF Publish
  <1>4. CASE Damage
    BY <1>4 DEF Damage
  <1>5. ASSUME NEW t \in Temp, Age(t) PROVE TypeOK'
    BY <1>5 DEF Age, File
  <1>6. CASE Settle
    BY <1>6 DEF Settle
  <1>7. QED
    BY <1>1, <1>2, <1>3, <1>4, <1>5, <1>6 DEF Environment

LEMMA InitTyped ==
    ASSUME Init
    PROVE  TypeOK
  <1>1. record \in Info
    <2>1. \A e \in ETag : Crc[Content[e]] \in Nat
      BY ContentAssumption, ChecksumAssumption
    <2>2. QED
      BY <2>1, ZeroTyped DEF Init, Info
  <1>2. "new" \in Idle
    BY DEF Idle
  <1>3. QED
    BY <1>1, <1>2, ZeroTyped DEF Init, TypeOK


-----------------------------------------------------------------------------
(* The invariant.                                                           *)

\* A body that was read without passing the limit was read whole: the byte
\* beyond the limit is what tells.
LEMMA ReceivedWhole ==
    ASSUME NEW b \in Body, BytesRead(b) \in 1..Limit
    PROVE  Received(b) = b /\ Size[b] \in 1..Limit
  <1>1. /\ Limit \in 1..MaxInt64
        /\ Size[b] \in 0..MaxInt64
    BY LimitAssumption, ChecksumAssumption DEF Limit
  <1>2. BytesRead(b) = Size[b]
    BY <1>1, LimitAssumption DEF BytesRead, ReadLimit
  <1>3. QED
    BY <1>2 DEF Received

LEMMA InitInvariant ==
    ASSUME Init
    PROVE  IInv
  <1>1. RecordIsServedPair
    BY ContentAssumption DEF Init, RecordIsServedPair, Served, ZeroInfo
  <1>2. OneOwner
    BY ContentAssumption DEF Init, OneOwner, NoJob
  <1>3. ASSUME NEW p \in Updaters PROVE CallOK(p)
    BY ContentAssumption
    DEF Init, CallOK, NoJob, ZeroInfo, Served, Owning, Complete, Summed
  <1>4. QED
    BY <1>1, <1>2, <1>3, InitTyped DEF IInv

\* What a step of p does to the others: it leaves their locals alone, draws no
\* name of theirs, and takes a download of theirs only when nobody writes it.
Aside(p) ==
    /\ \A q \in Updaters \ {p} : pc'[q] = pc[q] /\ job'[q] = job[q]
    /\ job'[p].tmp \in {job[p].tmp, NoTemp} \cup (Temp \ Names)
    /\ \A t \in Temp : t \in Names /\ t # job[p].tmp =>
          temps'[t] = temps[t] \/ (temps[t].is = "closed" /\ temps'[t] = NoFile)

LEMMA DiscardAside ==
    ASSUME TypeOK, NEW p \in Updaters, Discard(job[p].tmp), NEW t \in Temp, t # job[p].tmp
    PROVE  temps'[t] = temps[t]
  BY DEF TypeOK, Discard

LEMMA ReturnAside ==
    ASSUME TypeOK, NEW p \in Updaters, NEW result, Return(p, result)
    PROVE  /\ \A q \in Updaters \ {p} : pc'[q] = pc[q] /\ job'[q] = job[q]
           /\ pc'[p] = result /\ job'[p] = NoJob
  BY DEF TypeOK, Return, Goto

LEMMA FailAside ==
    ASSUME TypeOK, NEW p \in Updaters, Fail(p)
    PROVE  Aside(p)
  BY ReturnAside, DiscardAside DEF Fail, Aside, NoJob

LEMMA RequestFailsAside ==
    ASSUME TypeOK, NEW p \in Updaters, RequestFails(p)
    PROVE  Aside(p)
  BY ReturnAside DEF RequestFails, Aside, NoJob

LEMMA StepAside ==
    ASSUME TypeOK, NEW p \in Updaters, Step(p) \/ Restart(p)
    PROVE  Aside(p)
  <1> USE DEF TypeOK
  <1>1. CASE EnsureLatest(p)
    <2>1. PICK gone \in SUBSET Sweepable :
             temps' = [t \in Temp |-> IF t \in gone THEN NoFile ELSE temps[t]]
      BY <1>1 DEF EnsureLatest
    <2>2. QED
      BY <1>1, <2>1 DEF EnsureLatest, Sweepable, Goto, Aside
  <1>2. CASE LoadState(p)
    BY <1>2 DEF LoadState, Goto, Aside
  <1>3. CASE Head(p)
    <2>1. CASE RequestFails(p)
      BY <2>1, RequestFailsAside
    <2>2. CASE ~RequestFails(p)
      <3>1. /\ pc' = [pc EXCEPT ![p] = "compare"]
            /\ job' = [job EXCEPT ![p].want = release]
            /\ UNCHANGED temps
        BY <1>3, <2>2 DEF Head, Goto
      <3>2. QED
        BY <3>1 DEF Aside
    <2>3. QED
      BY <2>1, <2>2
  <1>4. CASE Compare(p)
    <2>1. CASE Return(p, "ok")
      BY <1>4, <2>1, ReturnAside DEF Compare, Aside, NoJob
    <2>2. CASE ~Return(p, "ok")
      <3>1. /\ pc' = [pc EXCEPT ![p] = "get"]
            /\ job' = [job EXCEPT ![p].cur = ZeroInfo, ![p].tries = 1]
            /\ UNCHANGED temps
        BY <1>4, <2>2 DEF Compare, Goto
      <3>2. QED
        BY <3>1 DEF Aside
    <2>3. QED
      BY <2>1, <2>2
  <1>5. CASE GetRefused(p)
    BY <1>5, ReturnAside DEF GetRefused, Aside, NoJob
  <1>6. CASE Get(p)
    BY <1>6 DEF Get, Goto, Aside
  <1>7. CASE GetFails(p)
    BY <1>7, RequestFailsAside DEF GetFails
  <1>8. CASE CopyOk(p)
    BY <1>8 DEF CopyOk, Goto, Aside
  <1>9. CASE CopyFails(p)
    BY <1>9, ReturnAside DEF CopyFails, Aside, NoJob
  <1>10. CASE SumOk(p)
    BY <1>10 DEF SumOk, Goto, Aside
  <1>11. CASE SumMismatch(p)
    BY <1>11, DiscardAside DEF SumMismatch, Goto, Aside
  <1>12. CASE SumFails(p)
    BY <1>12, FailAside DEF SumFails
  <1>13. CASE RemoveOld(p)
    BY <1>13 DEF RemoveOld, Goto, Aside
  <1>14. CASE RenameOk(p)
    BY <1>14 DEF RenameOk, Goto, Aside
  <1>15. CASE RenameAgain(p)
    BY <1>15 DEF RenameAgain, Goto, Aside
  <1>16. CASE RenameGivesUp(p)
    BY <1>16, FailAside DEF RenameGivesUp
  <1>17. CASE PauseOver(p)
    BY <1>17 DEF PauseOver, Goto, Aside
  <1>18. CASE PauseStopped(p)
    BY <1>18, FailAside DEF PauseStopped
  <1>19. CASE Truncate(p)
    BY <1>19, ReturnAside DEF Truncate, Goto, Aside, NoJob
  <1>20. CASE WriteRecord(p)
    BY <1>20, ReturnAside DEF WriteRecord, Aside, NoJob
  <1>21. CASE Restart(p)
    BY <1>21, ReturnAside DEF Restart, Aside, NoJob
  <1>22. QED
    BY <1>1, <1>2, <1>3, <1>4, <1>5, <1>6, <1>7, <1>8, <1>9, <1>10, <1>11, <1>12,
       <1>13, <1>14, <1>15, <1>16, <1>17, <1>18, <1>19, <1>20, <1>21
    DEF Step, Fetch, Install

\* Hence the others' calls stay in order, and names stay apart.
LEMMA OthersKept ==
    ASSUME IInv, NEW p \in Updaters, Aside(p), NEW q \in Updaters, q # p
    PROVE  CallOK(q)'
  <1>1. CallOK(q) /\ pc'[q] = pc[q] /\ job'[q] = job[q]
    BY DEF IInv, Aside
  <1>2. ASSUME job[q].tmp \in Temp
        PROVE  \/ temps'[job[q].tmp] = temps[job[q].tmp]
               \/ temps[job[q].tmp].is = "closed" /\ temps'[job[q].tmp].is = "free"
    BY <1>2 DEF IInv, OneOwner, Aside, Names, NoFile
  <1>3. QED
    BY <1>1, <1>2 DEF CallOK, Owning, Complete, Served

LEMMA NamesKept ==
    ASSUME IInv, NEW p \in Updaters, Aside(p)
    PROVE  OneOwner'
  BY ContentAssumption DEF IInv, OneOwner, Aside, Names

\* A call that returned holds nothing.
LEMMA ReturnKept ==
    ASSUME TypeOK, NEW p \in Updaters, NEW result \in Idle, Return(p, result)
    PROVE  CallOK(p)'
  <1>1. pc'[p] = result /\ job'[p] = NoJob
    BY ReturnAside
  <1>2. QED
    BY <1>1, ContentAssumption
    DEF CallOK, NoJob, ZeroInfo, Served, Owning, Complete, Summed, Idle

\* Each step of a call leaves its own locals and the state file in order.
LEMMA FetchKept ==
    ASSUME IInv, NEW p \in Updaters, EnsureLatest(p) \/ Fetch(p)
    PROVE  CallOK(p)' /\ RecordIsServedPair'
  <1>0. /\ TypeOK /\ CallOK(p) /\ RecordIsServedPair
        /\ {"ok", "err"} \subseteq Idle
    BY DEF IInv, Idle
  <1>1. RecordIsServedPair'
    <2>1. UNCHANGED record
      BY DEF EnsureLatest, Fetch, LoadState, Head, RequestFails, Compare, GetRefused, Get,
             GetFails, CopyOk, CopyFails, SumOk, SumMismatch, SumFails, Fail
    <2>2. QED
      BY <1>0, <2>1 DEF RecordIsServedPair, Served
  <1>2. CASE EnsureLatest(p)
    BY <1>0, <1>1, <1>2 DEF EnsureLatest, CallOK, Served,
        TypeOK, Goto, Owning, Complete, Summed
  <1>3. CASE LoadState(p)
    BY <1>0, <1>1, <1>3 DEF LoadState, CallOK, Served, RecordIsServedPair, Job,
        TypeOK, Goto, Owning, Complete, Summed
  <1>4. CASE Head(p)
    <2>1. CASE RequestFails(p)
      BY <1>0, <1>1, <2>1, ReturnKept DEF RequestFails
    <2>2. CASE ~RequestFails(p)
      BY <1>0, <1>1, <1>4, <2>2 DEF Head, CallOK, Served, Job,
        TypeOK, Goto, Owning, Complete, Summed
    <2>3. QED
      BY <2>1, <2>2
  <1>5. CASE Compare(p)
    <2>1. CASE Return(p, "ok")
      BY <1>0, <1>1, <2>1, ReturnKept
    <2>2. CASE ~Return(p, "ok")
      BY <1>0, <1>1, <1>5, <2>2, ContentAssumption DEF Compare, CallOK, Served, ZeroInfo, Job,
        TypeOK, Goto, Owning, Complete, Summed
    <2>3. QED
      BY <2>1, <2>2
  <1>6. CASE GetRefused(p)
    BY <1>0, <1>1, <1>6, ReturnKept DEF GetRefused
  <1>7. CASE Get(p)
    BY <1>0, <1>1, <1>7 DEF Get, CallOK, Served, Job,
        TypeOK, Goto, Owning, Complete, Summed
  <1>8. CASE GetFails(p)
    BY <1>0, <1>1, <1>8, ReturnKept DEF GetFails, RequestFails
  <1>9. CASE CopyOk(p)
    <2>1. Content[job[p].got.etag] \in Body
      BY <1>0, <1>1, <1>9, ContentAssumption DEF CopyOk, CallOK,
        TypeOK, Goto, Owning, Complete, Summed
    <2>2. /\ Received(Content[job[p].got.etag]) = Content[job[p].got.etag]
          /\ Size[Content[job[p].got.etag]] \in 1..Limit
      BY <1>9, <2>1, ReceivedWhole DEF CopyOk
    <2>3. QED
      BY <1>0, <1>1, <1>9, <2>2 DEF CopyOk, CallOK, Served,
        TypeOK, Goto, Owning, Complete, Summed
  <1>10. CASE CopyFails(p)
    BY <1>0, <1>1, <1>10, ReturnKept DEF CopyFails
  <1>11. CASE SumOk(p)
    BY <1>0, <1>1, <1>11 DEF SumOk, CallOK, Served, Job, Info,
        TypeOK, Goto, Owning, Complete, Summed
  <1>12. CASE SumMismatch(p)
    BY <1>0, <1>1, <1>12, ContentAssumption DEF SumMismatch, CallOK, Served, Job,
        TypeOK, Goto, Owning, Complete, Summed
  <1>13. CASE SumFails(p)
    BY <1>0, <1>1, <1>13, ReturnKept DEF SumFails, Fail
  <1>14. QED
    BY <1>1, <1>2, <1>3, <1>4, <1>5, <1>6, <1>7, <1>8, <1>9, <1>10, <1>11, <1>12, <1>13
    DEF Fetch

LEMMA InstallKept ==
    ASSUME IInv, NEW p \in Updaters, Install(p)
    PROVE  CallOK(p)' /\ RecordIsServedPair'
  <1>0. /\ TypeOK /\ CallOK(p) /\ RecordIsServedPair
        /\ {"ok", "err"} \subseteq Idle
    BY DEF IInv, Idle
  <1>1. CASE RemoveOld(p)
    BY <1>0, <1>1 DEF RemoveOld, CallOK, Served, RecordIsServedPair,
                      TypeOK, Goto, Owning, Complete, Summed
  <1>2. CASE RenameOk(p)
    BY <1>0, <1>2, ContentAssumption
    DEF RenameOk, CallOK, Served, RecordIsServedPair, Job, TypeOK, Goto, Owning, Complete, Summed
  <1>3. CASE RenameAgain(p)
    BY <1>0, <1>3 DEF RenameAgain, RenameBlocked, CallOK, Served, RecordIsServedPair,
                      TypeOK, Goto, Owning, Complete, Summed
  <1>4. CASE RenameGivesUp(p)
    BY <1>0, <1>4, ReturnKept DEF RenameGivesUp, Fail, RecordIsServedPair, Served
  <1>5. CASE PauseOver(p)
    BY <1>0, <1>5 DEF PauseOver, CallOK, Served, RecordIsServedPair, Job,
                      TypeOK, Goto, Owning, Complete, Summed
  <1>6. CASE PauseStopped(p)
    BY <1>0, <1>6, ReturnKept DEF PauseStopped, Fail, RecordIsServedPair, Served
  <1>7. CASE Truncate(p)
    <2>1. CASE Return(p, "ok")
      BY <1>0, <1>7, <2>1, ReturnKept, ContentAssumption
      DEF Truncate, RecordIsServedPair, Served, ZeroInfo
    <2>2. CASE ~Return(p, "ok")
      BY <1>0, <1>7, <2>2, ContentAssumption
      DEF Truncate, CallOK, Served, RecordIsServedPair, ZeroInfo,
          TypeOK, Goto, Owning, Complete, Summed
    <2>3. QED
      BY <2>1, <2>2
  <1>8. CASE WriteRecord(p)
    <2>1. Served(job[p].got)
      BY <1>0, <1>8, ContentAssumption DEF WriteRecord, CallOK, Served, Summed
    <2>2. QED
      BY <1>0, <1>8, <2>1, ReturnKept DEF WriteRecord, RecordIsServedPair, Served
  <1>9. QED
    BY <1>1, <1>2, <1>3, <1>4, <1>5, <1>6, <1>7, <1>8 DEF Install

LEMMA StepInvariant ==
    ASSUME IInv, NEW p \in Updaters, Step(p)
    PROVE  IInv'
  <1>1. TypeOK'
    BY FetchTyped, InstallTyped DEF Step
  <1>2. CallOK(p)' /\ RecordIsServedPair'
    BY FetchKept, InstallKept DEF Step
  <1>3. Aside(p)
    BY StepAside DEF IInv
  <1>4. QED
    BY <1>1, <1>2, <1>3, OthersKept, NamesKept DEF IInv

LEMMA EnvironmentInvariant ==
    ASSUME IInv, Environment
    PROVE  IInv'
  <1>1. TypeOK'
    BY EnvironmentTyped DEF IInv
  <1>2. ASSUME NEW p \in Updaters, Restart(p) PROVE IInv'
    <2>1. Aside(p) /\ CallOK(p)'
      BY <1>2, StepAside, ReturnKept DEF IInv, Restart, Idle
    <2>2. RecordIsServedPair'
      BY <1>2 DEF Restart, IInv, RecordIsServedPair, Served
    <2>3. QED
      BY <1>1, <2>1, <2>2, OthersKept, NamesKept DEF IInv
  <1>3. ASSUME UNCHANGED <<pc, job, temps>>, RecordIsServedPair' PROVE IInv'
    BY <1>1, <1>3 DEF IInv, OneOwner, CallOK, Served
  <1>4. ASSUME NEW p \in Updaters, Cancel(p) PROVE IInv'
    BY <1>3, <1>4 DEF Cancel, IInv, RecordIsServedPair, Served
  <1>5. CASE Publish \/ Settle
    BY <1>3, <1>5 DEF Publish, Settle, IInv, RecordIsServedPair, Served
  <1>6. CASE Damage
    BY <1>3, <1>6, ContentAssumption DEF Damage, IInv, RecordIsServedPair, Served, ZeroInfo
  <1>7. ASSUME NEW t \in Temp, Age(t) PROVE IInv'
    <2>1. /\ UNCHANGED <<record, pc, job>>
          /\ \A u \in Temp : temps'[u].is = temps[u].is /\ temps'[u].body = temps[u].body
      BY <1>7 DEF Age, IInv, TypeOK, File
    <2>2. RecordIsServedPair' /\ OneOwner'
      BY <2>1 DEF IInv, RecordIsServedPair, Served, OneOwner
    <2>3. ASSUME NEW p \in Updaters PROVE CallOK(p)'
      <3>1. CallOK(p)
        BY DEF IInv
      <3>2. QED
        BY <2>1, <3>1 DEF CallOK, Served, Owning, Complete
    <2>4. QED
      BY <1>1, <2>2, <2>3 DEF IInv
  <1>8. QED
    BY <1>2, <1>4, <1>5, <1>6, <1>7 DEF Environment

LEMMA NextInvariant == IInv /\ [Next]_vars => IInv'
  <1>1. ASSUME IInv, UNCHANGED vars PROVE IInv'
    BY <1>1 DEF vars, IInv, TypeOK, RecordIsServedPair, OneOwner, CallOK, Served
  <1>2. QED
    BY <1>1, StepInvariant, EnvironmentInvariant DEF Next

THEOREM Invariant == Spec => []IInv
  BY InitInvariant, NextInvariant, PTL DEF Spec

-----------------------------------------------------------------------------
(* The theorems.                                                            *)

\* Every variable keeps to its type.
THEOREM TypeCorrect == Spec => []TypeOK
  <1>1. IInv => TypeOK
    BY DEF IInv
  <1>2. QED
    BY <1>1, Invariant, PTL

\* The state file never pairs one release with another's checksum.
THEOREM RecordServed == Spec => []RecordIsServedPair
  <1>1. IInv => RecordIsServedPair
    BY DEF IInv
  <1>2. QED
    BY <1>1, Invariant, PTL

\* A call ends well from "compare" only through UpToDate, and enters "truncate"
\* only through RenameOk: no other step has these labels.
LEMMA VerdictStep ==
    ASSUME IInv, [Next]_vars, NEW p \in Updaters, pc[p] = "compare", pc'[p] = "ok"
    PROVE  UpToDate(p)
  <1>1. p \in DOMAIN pc
    BY DEF IInv, TypeOK
  <1>2. ASSUME NEW q \in Updaters, q # p PROVE ~Step(q) /\ ~Restart(q)
    BY <1>2, StepAside DEF IInv, Aside
  <1>3. ~Restart(p)
    BY <1>1 DEF Restart, Return, Goto
  <1>4. Step(p)
    BY <1>2, <1>3 DEF Next, Environment, Cancel, Publish, Damage, Settle, Age, vars
  <1>5. Compare(p)
    BY <1>4 DEF Step, EnsureLatest, Fetch, LoadState, Head, GetRefused, Get, GetFails, CopyOk,
                CopyFails, SumOk, SumMismatch, SumFails, Install, RemoveOld, RenameOk, RenameAgain,
                RenameBlocked, RenameGivesUp, PauseOver, PauseStopped, Truncate, WriteRecord
  <1>6. QED
    BY <1>1, <1>5 DEF Compare, Goto

LEMMA InstallStep ==
    ASSUME IInv, [Next]_vars, NEW p \in Updaters, pc[p] = "rename", pc'[p] = "truncate"
    PROVE  RenameOk(p)
  <1>1. p \in DOMAIN pc
    BY DEF IInv, TypeOK
  <1>2. ASSUME NEW q \in Updaters, q # p PROVE ~Step(q) /\ ~Restart(q)
    BY <1>2, StepAside DEF IInv, Aside
  <1>3. ~Restart(p)
    BY <1>1 DEF Restart, Return, Goto
  <1>4. Step(p)
    BY <1>2, <1>3 DEF Next, Environment, Cancel, Publish, Damage, Settle, Age, vars
  <1>5. RenameOk(p) \/ RenameAgain(p) \/ RenameGivesUp(p)
    BY <1>4 DEF Step, EnsureLatest, Fetch, LoadState, Head, Compare, GetRefused, Get, GetFails,
                CopyOk, CopyFails, SumOk, SumMismatch, SumFails, Install, RemoveOld,
                PauseOver, PauseStopped, Truncate, WriteRecord
  <1>6. QED
    BY <1>1, <1>5 DEF RenameAgain, RenameGivesUp, Fail, Return, Goto

\* "Up to date" is said only of a payload that is there, is not empty and has
\* the checksum of the release the server reported.
THEOREM VerdictSound == Spec => VerdictIsSound
  <1>1. ASSUME IInv, [Next]_vars, NEW p \in Updaters, pc[p] = "compare", pc'[p] = "ok"
        PROVE  /\ payload # Absent
               /\ Size[payload] > 0
               /\ Crc[payload] = Crc[Content[job[p].want]]
    <2>1. UpToDate(p)
      BY <1>1, VerdictStep
    <2>2. /\ Served(job[p].cur)
          /\ job[p].want \in ETag
      BY <1>1 DEF IInv, CallOK
    <2>3. payload \in Body /\ Size[payload] > 0
      BY <1>1, <2>1 DEF UpToDate, MatchesInstalled, IInv, TypeOK
    <2>4. Crc[payload] # 0
      BY <2>3, ChecksumAssumption
    <2>5. QED
      BY <2>1, <2>2, <2>3, <2>4 DEF UpToDate, MatchesInstalled, Served
  <1>2. IInv /\ [Next]_vars =>
          [\A p \in Updaters : pc[p] = "compare" /\ pc'[p] = "ok" =>
              /\ payload # Absent
              /\ Size[payload] > 0
              /\ Crc[payload] = Crc[Content[job[p].want]]]_vars
    BY <1>1
  <1>3. QED
    BY <1>2, Invariant, PTL DEF Spec, VerdictIsSound

\* What is put in place is the whole body of the release it is recorded as.
THEOREM InstallSound == Spec => InstallIsSound
  <1>1. ASSUME IInv, [Next]_vars, NEW p \in Updaters, pc[p] = "rename", pc'[p] = "truncate"
        PROVE  /\ payload' = Content[job[p].got.etag]
               /\ Size[payload'] \in 1..Limit
    <2>1. RenameOk(p)
      BY <1>1, InstallStep
    <2>2. QED
      BY <1>1, <2>1 DEF RenameOk, IInv, CallOK, Complete
  <1>2. IInv /\ [Next]_vars =>
          [\A p \in Updaters : pc[p] = "rename" /\ pc'[p] = "truncate" =>
              /\ payload' = Content[job[p].got.etag]
              /\ Size[payload'] \in 1..Limit]_vars
    BY <1>1
  <1>3. QED
    BY <1>2, Invariant, PTL DEF Spec, InstallIsSound
=============================================================================
