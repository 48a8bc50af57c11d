------------------------------ MODULE Updater ------------------------------
(***************************************************************************)
(* The updater of update.go: one call of EnsureLatest keeps the payload     *)
(* file in step with the release a server publishes, in the presence of     *)
(* failed requests, locked files, crashes, stops and damaged files.         *)
(*                                                                          *)
(* Files are the unit of the model.  `payload` is u.Path, `record` is the   *)
(* state file as loadState decodes it (a missing or torn file decodes to    *)
(* ZeroInfo), `temps` are the download files beside the payload.  A body    *)
(* is an abstract value with a size and a checksum; an ETag identifies a    *)
(* body, which is what the README asks of the server.                       *)
(*                                                                          *)
(* `calm` is FALSE while the environment may misbehave.  Once it is TRUE    *)
(* requests succeed, nothing locks or damages a file, nothing is published  *)
(* and no process dies in the middle of a call.                             *)
(***************************************************************************)
EXTENDS Integers, FiniteSets

CONSTANTS
    Updaters,         \* processes that run EnsureLatest on one payload path
    ETag, NoETag,     \* what a server may call a release; the empty string
    Body,             \* file contents
    Partial,          \* the content of a file that was cut short
    Absent,           \* no payload file
    Content,          \* ETag -> Body: the bytes a release stands for
    Size, Crc,        \* Body -> Nat: length and CRC-64
    MaxBytes,         \* Updater.MaxBytes; 0 asks for the default
    DefaultMaxBytes,
    MaxInt64,         \* a small stand-in for math.MaxInt64
    Temp, NoTemp,     \* names os.CreateTemp can produce; the empty name
    InstallAttempts, DownloadAttempts

ASSUME ContentAssumption ==
    /\ Content \in [ETag -> Body]
    /\ Partial \in Body
    /\ Absent \notin Body
    /\ NoETag \notin ETag
    /\ NoTemp \notin Temp

\* The CRC-64 of no bytes is zero.  A non-empty body has a zero checksum once
\* in 2^64 bodies; the model leaves that out.
ASSUME ChecksumAssumption ==
    /\ Size \in [Body -> Nat]
    /\ Crc \in [Body -> Nat]
    /\ \A b \in Body : Crc[b] = 0 <=> Size[b] = 0

ASSUME LimitAssumption ==
    /\ MaxInt64 \in Nat \ {0}
    /\ MaxBytes \in 0..MaxInt64
    /\ DefaultMaxBytes \in 1..MaxInt64
    /\ \A b \in Body : Size[b] <= MaxInt64

ASSUME AttemptsAssumption ==
    /\ InstallAttempts \in Nat \ {0}
    /\ DownloadAttempts \in Nat \ {0}

VARIABLES
    payload,     \* what is at u.Path: a body, or Absent
    record,      \* the state file, decoded
    temps,       \* the download files
    release,     \* the ETag the server answers with now
    calm,        \* the environment has stopped misbehaving
    cancelled,   \* updaters whose context is done
    pc, job      \* where each updater is, and the locals of its call

vars == <<payload, record, temps, release, calm, cancelled, pc, job>>

-----------------------------------------------------------------------------
Info == [etag : ETag \cup {NoETag}, crc : Nat]
ZeroInfo == [etag |-> NoETag, crc |-> 0]

\* "open" is a file some updater is writing: Go opens it without
\* FILE_SHARE_DELETE, so nothing can remove it.
File == [is : {"free", "open", "closed"}, stale : BOOLEAN, body : Body]
NoFile == [is |-> "free", stale |-> FALSE, body |-> Partial]

Job == [cur : Info, want : ETag \cup {NoETag}, got : Info,
        tmp : Temp \cup {NoTemp}, tries : Nat]
NoJob == [cur |-> ZeroInfo, want |-> NoETag, got |-> ZeroInfo,
          tmp |-> NoTemp, tries |-> 0]

Idle == {"new", "ok", "err"}
Busy == {"load", "head", "compare", "get", "copy", "sum", "remove",
         "rename", "pause", "truncate", "write"}

Limit == IF MaxBytes > 0 THEN MaxBytes ELSE DefaultMaxBytes

\* Mutants (a mutant is a plausible slip; the runs show that it is caught): no
\* byte read past the limit; the addition that wraps to a negative count.
ReadLimitExact == Limit
ReadLimitWrapped == IF Limit + 1 > MaxInt64 THEN -MaxInt64 - 1 ELSE Limit + 1

\* Read one byte past the limit, so that a body that is too long shows.
ReadLimit == IF Limit < MaxInt64 THEN Limit + 1 ELSE Limit

\* How many bytes of b an io.LimitReader of ReadLimit lets through.
BytesRead(b) ==
    IF ReadLimit <= 0 THEN 0 ELSE IF Size[b] < ReadLimit THEN Size[b] ELSE ReadLimit

\* What ends up in the temporary file.
Received(b) == IF BytesRead(b) = Size[b] THEN b ELSE Partial

\* Mutant: an empty file may match a record without a checksum.
MatchesChecksumOnly(sum) == payload # Absent /\ Crc[payload] = sum

\* matchesInstalled; an unreadable file is a disjunct of Compare.
MatchesInstalled(sum) ==
    /\ payload # Absent
    /\ Size[payload] > 0
    /\ Crc[payload] = sum

-----------------------------------------------------------------------------
Goto(p, label) == pc' = [pc EXCEPT ![p] = label]

\* EnsureLatest returns; its locals are gone.
Return(p, result) ==
    /\ Goto(p, result)
    /\ job' = [job EXCEPT ![p] = NoJob]

Names == {job[q].tmp : q \in Updaters}

\* os.Remove of a download; its failure is ignored.
Discard(t) ==
    \/ temps' = [temps EXCEPT ![t] = NoFile]
    \/ ~calm /\ UNCHANGED temps

\* An error path: discard the download and return the error.
Fail(p) ==
    /\ Discard(job[p].tmp)
    /\ Return(p, "err")
    /\ UNCHANGED <<payload, record, release, calm, cancelled>>

\* Mutant: the sweep takes downloads of any age.
SweepableAnyAge == {t \in Temp : temps[t].is = "closed"}

\* Files a sweep takes: old enough, and not held open by anyone.
Sweepable == {t \in Temp : temps[t].is = "closed" /\ temps[t].stale}

\* What a stopped context, or a network that misbehaves, does to a request.
RequestFails(p) ==
    /\ p \in cancelled \/ ~calm
    /\ Return(p, "err")
    /\ UNCHANGED <<payload, record, temps, release, calm, cancelled>>

-----------------------------------------------------------------------------
\* Called as updateBeforeLaunch does: first, and after every error, while the
\* context is alive.  The sweep may fail on any file.
EnsureLatest(p) ==
    /\ pc[p] \in {"new", "err"}
    /\ p \notin cancelled
    /\ \E gone \in SUBSET Sweepable :
          /\ calm => gone = Sweepable
          /\ temps' = [t \in Temp |-> IF t \in gone THEN NoFile ELSE temps[t]]
    /\ Goto(p, "load")
    /\ UNCHANGED <<payload, record, release, calm, cancelled, job>>

LoadState(p) ==
    /\ pc[p] = "load"
    /\ job' = [job EXCEPT ![p].cur = record]
    /\ Goto(p, "head")
    /\ UNCHANGED <<payload, record, temps, release, calm, cancelled>>

Head(p) ==
    /\ pc[p] = "head"
    /\ \/ RequestFails(p)
       \/ /\ p \notin cancelled
          /\ job' = [job EXCEPT ![p].want = release]
          /\ Goto(p, "compare")
          /\ UNCHANGED <<payload, record, temps, release, calm, cancelled>>

UpToDate(p) ==
    /\ job[p].want = job[p].cur.etag
    /\ MatchesInstalled(job[p].cur.crc)

\* A payload that cannot be read just now counts as changed.
Compare(p) ==
    /\ pc[p] = "compare"
    /\ \/ UpToDate(p) /\ Return(p, "ok")
       \/ /\ ~UpToDate(p) \/ ~calm
          /\ job' = [job EXCEPT ![p].cur = ZeroInfo, ![p].tries = 1]
          /\ Goto(p, "get")
    /\ UNCHANGED <<payload, record, temps, release, calm, cancelled>>

\* The body is declared too long, or no temporary file can be created.
GetRefused(p) ==
    /\ pc[p] = "get"
    /\ \/ Size[Content[release]] > Limit
       \/ \A t \in Temp : temps[t].is # "free" \/ t \in Names
    /\ Return(p, "err")
    /\ UNCHANGED <<payload, record, temps, release, calm, cancelled>>

\* Mutant: a fixed name, opened with O_TRUNC, instead of os.CreateTemp.
GetFixedName(p) ==
    /\ pc[p] = "get"
    /\ p \notin cancelled
    /\ \E t \in Temp :
          /\ temps[t].is # "open"
          /\ temps' = [temps EXCEPT ![t] = [is |-> "open", stale |-> FALSE, body |-> Partial]]
          /\ job' = [job EXCEPT ![p].tmp = t, ![p].got = [etag |-> release, crc |-> 0]]
    /\ Goto(p, "copy")
    /\ UNCHANGED <<payload, record, release, calm, cancelled>>

\* The answer to the GET carries the ETag of the release of that moment.  A
\* server need not declare a length, so an oversized body may be let in here.
\* A name in use by a call is not drawn again (it is one of 2^32).
Get(p) ==
    /\ pc[p] = "get"
    /\ p \notin cancelled
    /\ \E t \in Temp \ Names :
          /\ temps[t].is = "free"
          /\ temps' = [temps EXCEPT ![t] = [is |-> "open", stale |-> FALSE, body |-> Partial]]
          /\ job' = [job EXCEPT ![p].tmp = t, ![p].got = [etag |-> release, crc |-> 0]]
    /\ Goto(p, "copy")
    /\ UNCHANGED <<payload, record, release, calm, cancelled>>

GetFails(p) == pc[p] = "get" /\ RequestFails(p)

CopyOk(p) ==
    LET b == Content[job[p].got.etag]
    IN  /\ pc[p] = "copy"
        /\ BytesRead(b) \in 1..Limit
        /\ temps' = [temps EXCEPT ![job[p].tmp] =
                        [is |-> "closed", stale |-> FALSE, body |-> Received(b)]]
        /\ Goto(p, "sum")
        /\ UNCHANGED <<payload, record, release, calm, cancelled, job>>

\* The transfer broke off, the body is longer than the limit, or it is empty.
\* The file is closed, so a removal that fails leaves an abandoned download.
CopyFails(p) ==
    LET t == job[p].tmp
        b == Content[job[p].got.etag]
    IN  /\ pc[p] = "copy"
        /\ p \in cancelled \/ ~calm \/ BytesRead(b) \notin 1..Limit
        /\ \/ temps' = [temps EXCEPT ![t] = NoFile]
           \/ ~calm /\ temps' = [temps EXCEPT ![t].is = "closed"]
        /\ Return(p, "err")
        /\ UNCHANGED <<payload, record, release, calm, cancelled>>

Same(p) == job[p].got.etag = job[p].want

\* Mutant: the validator recorded is the HEAD's.
SumTrustsHead(p) ==
    LET t == job[p].tmp
    IN  /\ pc[p] = "sum"
        /\ temps[t].is = "closed"
        /\ job' = [job EXCEPT ![p].got = [etag |-> job[p].want, crc |-> Crc[temps[t].body]],
                              ![p].tries = 1]
        /\ Goto(p, "remove")
        /\ UNCHANGED <<payload, record, temps, release, calm, cancelled>>

\* fileCRC64 of the download, and the comparison of the two ETags.
SumOk(p) ==
    LET t == job[p].tmp
    IN  /\ pc[p] = "sum"
        /\ temps[t].is = "closed"
        /\ Same(p)
        /\ job' = [job EXCEPT ![p].got.crc = Crc[temps[t].body], ![p].tries = 1]
        /\ Goto(p, "remove")
        /\ UNCHANGED <<payload, record, temps, release, calm, cancelled>>

\* Mutant: the download of a mismatched release stays on disk.
SumMismatchKeepsFile(p) ==
    /\ pc[p] = "sum"
    /\ temps[job[p].tmp].is = "closed"
    /\ ~Same(p)
    /\ job[p].tries < DownloadAttempts
    /\ job' = [job EXCEPT ![p].want = job[p].got.etag, ![p].got = ZeroInfo,
                          ![p].tmp = NoTemp, ![p].tries = @ + 1]
    /\ Goto(p, "get")
    /\ UNCHANGED <<payload, record, temps, release, calm, cancelled>>

\* A release landed between HEAD and GET: read again, against the new ETag.
SumMismatch(p) ==
    /\ pc[p] = "sum"
    /\ temps[job[p].tmp].is = "closed"
    /\ ~Same(p)
    /\ job[p].tries < DownloadAttempts
    /\ Discard(job[p].tmp)
    /\ job' = [job EXCEPT ![p].want = job[p].got.etag, ![p].got = ZeroInfo,
                          ![p].tmp = NoTemp, ![p].tries = @ + 1]
    /\ Goto(p, "get")
    /\ UNCHANGED <<payload, record, release, calm, cancelled>>

\* The download cannot be read back, or the release changed on every read.
SumFails(p) ==
    /\ pc[p] = "sum"
    /\ \/ ~calm
       \/ temps[job[p].tmp].is = "free"
       \/ ~Same(p) /\ job[p].tries = DownloadAttempts
    /\ Fail(p)

\* install: the payload in the way is removed first, as far as that works.
RemoveOld(p) ==
    /\ pc[p] = "remove"
    /\ \/ payload' = Absent
       \/ ~calm /\ UNCHANGED payload
    /\ Goto(p, "rename")
    /\ UNCHANGED <<record, temps, release, calm, cancelled, job>>

RenameOk(p) ==
    LET t == job[p].tmp
    IN  /\ pc[p] = "rename"
        /\ temps[t].is = "closed"
        /\ payload' = temps[t].body
        /\ temps' = [temps EXCEPT ![t] = NoFile]
        /\ job' = [job EXCEPT ![p].tmp = NoTemp]
        /\ Goto(p, "truncate")
        /\ UNCHANGED <<record, release, calm, cancelled>>

RenameBlocked(p) ==
    /\ pc[p] = "rename"
    /\ ~calm \/ temps[job[p].tmp].is = "free"

RenameAgain(p) ==
    /\ RenameBlocked(p)
    /\ job[p].tries < InstallAttempts
    /\ Goto(p, "pause")
    /\ UNCHANGED <<payload, record, temps, release, calm, cancelled, job>>

RenameGivesUp(p) ==
    /\ RenameBlocked(p)
    /\ job[p].tries = InstallAttempts
    /\ Fail(p)

\* Mutants: the attempts are not counted, or counted down past zero.
PauseNotCounted(p) ==
    /\ pc[p] = "pause"
    /\ Goto(p, "rename")
    /\ UNCHANGED <<payload, record, temps, release, calm, cancelled, job>>

PauseCountsDown(p) ==
    /\ pc[p] = "pause"
    /\ job' = [job EXCEPT ![p].tries = @ - 1]
    /\ Goto(p, "rename")
    /\ UNCHANGED <<payload, record, temps, release, calm, cancelled>>

\* sleep(ctx, installRetryDelay).  When the timer and the stop are both due the
\* select may take either.
PauseOver(p) ==
    /\ pc[p] = "pause"
    /\ job' = [job EXCEPT ![p].tries = @ + 1]
    /\ Goto(p, "rename")
    /\ UNCHANGED <<payload, record, temps, release, calm, cancelled>>

PauseStopped(p) ==
    /\ pc[p] = "pause"
    /\ p \in cancelled
    /\ Fail(p)

\* Mutant: a state file that cannot be written fails the call.
TruncateFailsCall(p) ==
    /\ pc[p] = "truncate"
    /\ \/ record' = ZeroInfo /\ Goto(p, "write") /\ UNCHANGED job
       \/ ~calm /\ Return(p, "err") /\ UNCHANGED record
    /\ UNCHANGED <<payload, temps, release, calm, cancelled>>

\* saveState: os.WriteFile truncates the file, then writes it.  Either may
\* fail, which is logged and costs another download; the call succeeds.
Truncate(p) ==
    /\ pc[p] = "truncate"
    /\ \/ record' = ZeroInfo /\ Goto(p, "write") /\ UNCHANGED job
       \/ ~calm /\ Return(p, "ok") /\ UNCHANGED record
    /\ UNCHANGED <<payload, temps, release, calm, cancelled>>

\* Mutant: the ETag is recorded without the checksum.
WriteEtagOnly(p) ==
    /\ pc[p] = "write"
    /\ record' = [job[p].got EXCEPT !.crc = 0]
    /\ Return(p, "ok")
    /\ UNCHANGED <<payload, temps, release, calm, cancelled>>

WriteRecord(p) ==
    /\ pc[p] = "write"
    /\ \/ record' = job[p].got
       \/ ~calm /\ UNCHANGED record
    /\ Return(p, "ok")
    /\ UNCHANGED <<payload, temps, release, calm, cancelled>>

-----------------------------------------------------------------------------
\* The process dies and starts again, with a new context.  Its open download
\* is closed and stays behind.
Restart(p) ==
    LET t == job[p].tmp
    IN  /\ pc[p] # "new" \/ p \in cancelled
        /\ calm => pc[p] \in Idle
        /\ temps' = IF t \in Temp /\ temps[t].is = "open"
                    THEN [temps EXCEPT ![t].is = "closed"] ELSE temps
        /\ Return(p, "new")
        /\ cancelled' = cancelled \ {p}
        /\ UNCHANGED <<payload, record, release, calm>>

Cancel(p) ==
    /\ p \notin cancelled
    /\ cancelled' = cancelled \cup {p}
    /\ UNCHANGED <<payload, record, temps, release, calm, pc, job>>

Publish ==
    /\ ~calm
    /\ \E e \in ETag \ {release} : release' = e
    /\ UNCHANGED <<payload, record, temps, calm, cancelled, pc, job>>

\* A user, a scanner or the disk changes the payload or ruins the state file.
\* A power cut that loses unsynced writes looks the same.
Damage ==
    /\ ~calm
    /\ \/ payload' \in (Body \cup {Absent}) \ {payload} /\ UNCHANGED record
       \/ record' = ZeroInfo /\ UNCHANGED payload
    /\ UNCHANGED <<temps, release, calm, cancelled, pc, job>>

\* staleTempAge has passed since the file was last written.
Age(t) ==
    /\ temps[t].is = "closed" /\ ~temps[t].stale
    /\ temps' = [temps EXCEPT ![t].stale = TRUE]
    /\ UNCHANGED <<payload, record, release, calm, cancelled, pc, job>>

Settle ==
    /\ ~calm
    /\ calm' = TRUE
    /\ UNCHANGED <<payload, record, temps, release, cancelled, pc, job>>

-----------------------------------------------------------------------------
\* The states a machine can be found in: any payload, and a state file that is
\* missing, or names a release with its checksum or, when an earlier version
\* wrote it, with none.
Init ==
    /\ payload \in Body \cup {Absent}
    /\ record \in {ZeroInfo} \cup {[etag |-> e, crc |-> 0] : e \in ETag}
                  \cup {[etag |-> e, crc |-> Crc[Content[e]]] : e \in ETag}
    /\ temps = [t \in Temp |-> NoFile]
    /\ release \in ETag
    /\ calm = FALSE
    /\ cancelled = {}
    /\ pc = [p \in Updaters |-> "new"]
    /\ job = [p \in Updaters |-> NoJob]

Fetch(p) == LoadState(p) \/ Head(p) \/ Compare(p) \/ GetRefused(p) \/ Get(p)
            \/ GetFails(p) \/ CopyOk(p) \/ CopyFails(p)
            \/ SumOk(p) \/ SumMismatch(p) \/ SumFails(p)

Install(p) == RemoveOld(p) \/ RenameOk(p) \/ RenameAgain(p) \/ RenameGivesUp(p)
              \/ PauseOver(p) \/ PauseStopped(p) \/ Truncate(p) \/ WriteRecord(p)

Step(p) == EnsureLatest(p) \/ Fetch(p) \/ Install(p)

Environment == \/ \E p \in Updaters : Restart(p) \/ Cancel(p)
               \/ Publish \/ Damage \/ Settle
               \/ \E t \in Temp : Age(t)

Next == (\E p \in Updaters : Step(p)) \/ Environment

Spec == Init /\ [][Next]_vars

\* A call runs on, a failed check is tried again while the service is not
\* stopping, and time passes.  Nothing is assumed of the environment.
FairSpec ==
    /\ Spec
    /\ \A p \in Updaters : WF_vars(Step(p))
    /\ \A t \in Temp : WF_vars(Age(t))

-----------------------------------------------------------------------------
TypeOK ==
    /\ payload \in Body \cup {Absent}
    /\ record \in Info
    /\ temps \in [Temp -> File]
    /\ release \in ETag
    /\ calm \in BOOLEAN
    /\ cancelled \subseteq Updaters
    /\ pc \in [Updaters -> Idle \cup Busy]
    /\ job \in [Updaters -> Job]

\* A pair the server published: an ETag and the checksum of its own bytes.
\* Zero stands for no checksum.
Served(info) ==
    /\ info.etag \in ETag => info.crc \in {0, Crc[Content[info.etag]]}
    /\ info.etag = NoETag => info.crc = 0

\* The state file never pairs one release's ETag with another's bytes, however
\* often releases change between HEAD and GET (download, update.go:272-298).
RecordIsServedPair == Served(record)

\* "Up to date" is only ever said of a payload that is there, is not empty and
\* has the checksum of the release the server reported (check, matchesInstalled).
VerdictIsSound ==
    [][\A p \in Updaters :
          pc[p] = "compare" /\ pc'[p] = "ok" =>
              /\ payload # Absent
              /\ Size[payload] > 0
              /\ Crc[payload] = Crc[Content[job[p].want]]]_vars

\* What is put in place is the whole body of the release it is recorded as,
\* not empty and within the limit (fetch, install).
InstallIsSound ==
    [][\A p \in Updaters :
          pc[p] = "rename" /\ pc'[p] = "truncate" =>
              /\ payload' = Content[job[p].got.etag]
              /\ Size[payload'] \in 1..Limit]_vars

\* Downloads on disk that no running call will install or discard.
Orphans == {t \in Temp : temps[t].is # "free"} \ Names

\* Only a dying process or a file that cannot be removed leaves a download
\* behind: every error path of fetch and download cleans up after itself.
NoLeakWhenCalm == [][calm => Orphans' \subseteq Orphans]_vars

\* A sweep takes a download from under another updater only when it is old and
\* no longer being written (sweepTemps, the invariant of staleTempAge).
SweepSparesFresh ==
    [][\A p \in Updaters :
          pc[p] \in {"copy", "sum", "remove", "rename", "pause"} /\ UNCHANGED job[p]
          /\ temps[job[p].tmp].is # "free" /\ temps'[job[p].tmp].is = "free" =>
              temps[job[p].tmp].stale /\ temps[job[p].tmp].is = "closed"]_vars

\* Every call returns: the retries of download and install are bounded, and so
\* is a call whose context is stopped (the process may also die).
EveryCallReturns == \A p \in Updaters : pc[p] \in Busy ~> pc[p] \in Idle

Installable(e) == Size[Content[e]] \in 1..Limit

\* Once the environment behaves, a service that is not stopped ends up with the
\* current release, whatever was on disk (updateBeforeLaunch retries).
ConvergesOnceCalm ==
    \A p \in Updaters :
       pc[p] = "load" /\ calm /\ Installable(release) ~>
          \/ pc[p] = "ok" /\ payload # Absent /\ Crc[payload] = Crc[Content[release]]
          \/ p \in cancelled

\* Once the environment behaves, a machine that restarts over and over, without
\* stopping a check half-way, downloads an installable release and then
\* no more (what the state file and the recorded checksum are for).
DownloadsStop ==
    \A p \in Updaters :
       <>(calm /\ Installable(release)) /\ <>[](p \notin cancelled)
          => <>[](pc[p] \notin {"copy", "sum"})

-----------------------------------------------------------------------------
\* The abstract state of p's call: a call delivers when the rename succeeds, and
\* what the server said last is the GET's answer once there is one.
CallState(p) ==
    IF pc[p] \in Idle THEN pc[p]
    ELSE IF pc[p] \in {"truncate", "write"} THEN "delivered" ELSE "busy"

Answered(p) ==
    IF pc[p] \in {"copy", "sum", "remove", "rename", "pause", "truncate", "write"}
    THEN job[p].got.etag ELSE job[p].want

Sync == INSTANCE PayloadSync
            WITH call <- [p \in Updaters |-> CallState(p)],
                 asked <- [p \in Updaters |-> Answered(p)]

\* Every call of EnsureLatest, interleaved with other updaters, crashes, locked
\* files and new releases, keeps the promise of PayloadSync: what it puts in place or
\* confirms is what the server said during that call, and after the payload
\* was swapped the call can no longer fail (check, update.go:174-203).
ImplementsPayloadSync == Sync!Spec

-----------------------------------------------------------------------------
\* README.md:127 and update.go:369 promise that retrying keeps a scanner's lock
\* from leaving no payload at all: giving up without a payload would then
\* take every attempt.
TransientLockKeepsPayload ==
    [][\A p \in Updaters :
          pc[p] \in {"rename", "pause"} /\ pc'[p] = "err" /\ payload' = Absent
             => job[p].tries = InstallAttempts]_vars

\* update.go:46: a sweep that lost a race costs one retried download, never the
\* payload itself.
SweepNeverCostsPayload ==
    [][\A p \in Updaters :
          pc[p] \in {"rename", "pause"} /\ pc'[p] = "err"
             /\ temps[job[p].tmp].is = "free" => payload' # Absent]_vars
=============================================================================
