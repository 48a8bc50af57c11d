---------------------------- MODULE PayloadSync ----------------------------
(***************************************************************************)
(* What EnsureLatest promises, whatever it does inside: a call ends with    *)
(* what the server answered during that very call, or with an error and     *)
(* nothing put in place.  There are no downloads, retries or locked files   *)
(* here; Updater is shown to implement this specification.                  *)
(***************************************************************************)
EXTENDS Integers

CONSTANTS Updaters, ETag, NoETag, Body, Absent, Content, Size, Crc, Limit

VARIABLES
    payload,     \* what is at u.Path
    record,      \* the state file, decoded
    release,     \* the ETag the server answers with now
    call,        \* "new", "busy", "delivered" or how the last call ended
    asked        \* the release the server answered with last in this call

vars == <<payload, record, release, call, asked>>
files == <<payload, record>>

ZeroInfo == [etag |-> NoETag, crc |-> 0]
Idle == {"new", "ok", "err"}

Installable(e) == Size[Content[e]] \in 1..Limit

-----------------------------------------------------------------------------
Become(p, state) == call' = [call EXCEPT ![p] = state]

\* The call ends.
End(p, result) ==
    /\ Become(p, result)
    /\ asked' = [asked EXCEPT ![p] = NoETag]

Call(p) ==
    /\ call[p] \in {"new", "err"}
    /\ Become(p, "busy")
    /\ UNCHANGED <<files, release, asked>>

\* The server answers, a HEAD or a GET.
Ask(p) ==
    /\ call[p] = "busy"
    /\ asked' = [asked EXCEPT ![p] = release]
    /\ UNCHANGED <<files, release, call>>

\* The payload has what the server asked for, by its checksum.
Confirm(p) ==
    /\ call[p] = "busy" /\ asked[p] \in ETag
    /\ payload # Absent /\ Size[payload] > 0
    /\ Crc[payload] = Crc[Content[asked[p]]]
    /\ End(p, "ok")
    /\ UNCHANGED <<files, release>>

\* The old payload makes room for a release that can be installed.
MakeRoom(p) ==
    /\ call[p] = "busy" /\ asked[p] \in ETag /\ Installable(asked[p])
    /\ payload' = Absent
    /\ UNCHANGED <<record, release, call, asked>>

Deliver(p) ==
    /\ call[p] = "busy" /\ asked[p] \in ETag /\ Installable(asked[p])
    /\ payload' = Content[asked[p]]
    /\ Become(p, "delivered")
    /\ UNCHANGED <<record, release, asked>>

\* An error comes before the delivery, or not at all.
Refuse(p) ==
    /\ call[p] = "busy"
    /\ End(p, "err")
    /\ UNCHANGED <<files, release>>

\* The record gives way only to that of a delivered release, and the call
\* succeeds whether or not it could be written.
Forget(p) ==
    /\ call[p] = "delivered"
    /\ record' = ZeroInfo
    /\ UNCHANGED <<payload, release, call, asked>>

Note(p) ==
    /\ call[p] = "delivered"
    /\ \/ record' = [etag |-> asked[p], crc |-> Crc[Content[asked[p]]]]
       \/ UNCHANGED record
    /\ End(p, "ok")
    /\ UNCHANGED <<payload, release>>

\* The process is replaced by a new one.
Restart(p) == End(p, "new") /\ UNCHANGED <<files, release>>

Publish ==
    /\ release' \in ETag
    /\ UNCHANGED <<files, call, asked>>

Damage ==
    /\ \/ payload' \in Body \cup {Absent} /\ UNCHANGED record
       \/ record' = ZeroInfo /\ UNCHANGED payload
    /\ UNCHANGED <<release, call, asked>>

-----------------------------------------------------------------------------
Init ==
    /\ payload \in Body \cup {Absent}
    /\ record \in {ZeroInfo} \cup [etag : ETag, crc : {0} \cup {Crc[Content[e]] : e \in ETag}]
    /\ release \in ETag
    /\ call = [p \in Updaters |-> "new"]
    /\ asked = [p \in Updaters |-> NoETag]

Next ==
    \/ \E p \in Updaters :
          Call(p) \/ Ask(p) \/ Confirm(p) \/ MakeRoom(p) \/ Deliver(p) \/ Refuse(p)
          \/ Forget(p) \/ Note(p) \/ Restart(p)
    \/ Publish \/ Damage

Spec == Init /\ [][Next]_vars
=============================================================================
