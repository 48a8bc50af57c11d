---------------------------- MODULE LaunchProofs ----------------------------
(* Proofs about Launch: which handles are open at each call, and where the   *)
(* process is, for any number of handles.                                    *)
EXTENDS Launch, TLAPS

-----------------------------------------------------------------------------
(* The invariant.                                                           *)

AfterEnv == {"job", "limit", "create", "assign", "resume"}

\* What is open at each call.
OpenAt == [idle |-> {}, dead |-> {}, query |-> {}, choose |-> {"user"}, linked |-> {"user"},
           duplicate |-> {"user", "linked"}, environment |-> {"tok"}, job |-> {"tok"},
           limit |-> {"tok", "job"}, create |-> {"tok", "job"},
           assign |-> {"tok", "job", "process", "thread"},
           resume |-> {"tok", "job", "process", "thread"}]

\* Every handle of ours is in one variable, or in one field of the Process, which is
\* open only between launches.
HandlesOK ==
    /\ \A v \in Locals : held[v] # NoHandle => v \in OpenAt[at]
    /\ at \in {"limit", "create", "assign", "resume"} => held["job"] # NoHandle
    /\ at \in {"assign", "resume"} => held["process"] # NoHandle
    /\ \A v, w \in Locals : held[v] = held[w] /\ v # w => held[v] = NoHandle
    /\ p # Closed => at = "idle" /\ p.handle # p.job
    /\ ours = Holds(Locals) \cup ({p.handle, p.job} \ {NoHandle})
    /\ jobHandle = IF at = "idle" THEN p.job ELSE held["job"]
    /\ env <=> at \in AfterEnv

\* The process is created suspended, gets into a job that ends it, and only
\* then runs.
ChildOK ==
    /\ "outside" \notin offspring
    /\ at \in {"query", "choose", "linked", "duplicate", "environment", "job", "limit", "create"}
          => child = "none" /\ ~assigned
    /\ at \in {"create", "assign", "resume"} => killOnClose
    /\ at = "assign" => child \in {"suspended", "ended"} /\ ~assigned
    /\ at = "resume" => child \in {"suspended", "ended"} /\ assigned
    /\ p # Closed => child \in {"running", "ended"} /\ assigned /\ killOnClose
    /\ p = Closed => child # "running" /\ offspring = {}
    /\ at = "idle" /\ p = Closed => child \in {"none", "ended"}

IInv == TypeOK /\ HandlesOK /\ ChildOK

-----------------------------------------------------------------------------
LEMMA InitInvariant == Init => IInv
  <1> SUFFICES ASSUME Init PROVE IInv
    OBVIOUS
  <1>1. Holds(Locals) = {}
    BY DEF Init, Holds, Nothing
  <1>2. TypeOK
    BY DEF Init, TypeOK, Nothing
  <1>3. HandlesOK
    BY <1>1 DEF Init, HandlesOK, Nothing, Closed, AfterEnv
  <1>4. ChildOK
    BY DEF Init, ChildOK
  <1>5. QED
    BY <1>2, <1>3, <1>4 DEF IInv

\* A failure closes everything, when all that has no defer is named, and so is
\* the end of a process that was created.
LEMMA FailInvariant ==
    ASSUME IInv, at \notin {"idle", "dead"},
           NEW names \in SUBSET {"process", "job"}, NEW terminated \in BOOLEAN,
           \A v \in {"process", "job"} \ names : held[v] = NoHandle,
           child = "suspended" => terminated,
           Fail(names, terminated)
    PROVE  IInv'
  <1>0. TypeOK /\ HandlesOK /\ ChildOK
    BY DEF IInv
  <1>1. p = Closed /\ p' = Closed /\ at' = "idle" /\ held' = Nothing /\ env' = FALSE
    BY <1>0 DEF HandlesOK, Fail
  <1>2. Holds(Locals) \subseteq Holds(Deferred \cup names)
    BY DEF Holds, Locals, Deferred
  <1>3. ours' = {}
    BY <1>0, <1>1, <1>2 DEF HandlesOK, Fail, CloseHandles, Closed
  <1>4. theirs' \subseteq theirs
    BY DEF Fail, CloseHandles
  <1>5. jobHandle' = NoHandle
    <2>1. jobHandle \in Holds(Deferred \cup names) \/ jobHandle = NoHandle
      BY <1>0 DEF HandlesOK, Holds, Deferred
    <2>2. QED
      BY <2>1 DEF Fail, CloseHandles
  <1>6. child' \in {"none", "ended"} /\ offspring' = {}
    BY <1>0, <1>1 DEF TypeOK, ChildOK, Fail, CloseHandles, Alive
  <1>7. Holds(Locals)' = {}
    BY <1>1 DEF Holds, Nothing
  <1>8. TypeOK'
    BY <1>0, <1>1, <1>3, <1>4, <1>5, <1>6 DEF TypeOK, Nothing, Fail
  <1>9. HandlesOK'
    BY <1>1, <1>3, <1>5, <1>7 DEF HandlesOK, Nothing, Closed, AfterEnv
  <1>10. ChildOK'
    BY <1>1, <1>6 DEF ChildOK
  <1>11. QED
    BY <1>8, <1>9, <1>10 DEF IInv

\* The calls that open one handle.
LEMMA OpensInvariant ==
    ASSUME TypeOK, HandlesOK, NEW v \in Locals, NEW next, held[v] = NoHandle, Opens(v, next),
           p = Closed, p' = Closed, UNCHANGED theirs
    PROVE  /\ held' \in [Locals -> Handles \cup {NoHandle}]
           /\ \A w \in Locals : held'[w] # NoHandle <=> (w = v \/ held[w] # NoHandle)
           /\ \A w \in Locals \ {v} : held'[w] = held[w]
           /\ \A w, u \in Locals : held'[w] = held'[u] /\ w # u => held'[w] = NoHandle
           /\ ours' = Holds(Locals)'
           /\ ours' \subseteq Handles /\ ours' \cap theirs' = {}
  <1>1. PICK h \in Handles \ (ours \cup theirs) :
            ours' = ours \cup {h} /\ held' = [held EXCEPT ![v] = h]
    BY DEF Opens
  <1>2. h # NoHandle
    BY LaunchAssumption
  <1>3. ours = Holds(Locals)
    BY DEF HandlesOK, Closed
  <1>4. held \in [Locals -> Handles \cup {NoHandle}]
    BY DEF TypeOK
  <1>5. \A w \in Locals : held'[w] = IF w = v THEN h ELSE held[w]
    BY <1>1, <1>4
  <1>6. Holds(Locals)' = Holds(Locals) \cup {h}
    BY <1>2, <1>5 DEF Holds
  <1>7. \A w \in Locals : held[w] # h
    BY <1>2, <1>3, <1>1 DEF Holds
  <1>8. \A w, u \in Locals : held[w] = held[u] /\ w # u => held[w] = NoHandle
    BY DEF HandlesOK
  <1>9. \A w, u \in Locals : held'[w] = held'[u] /\ w # u => held'[w] = NoHandle
    BY <1>5, <1>7, <1>8
  <1>10. QED
    BY <1>1, <1>2, <1>3, <1>4, <1>5, <1>6, <1>9 DEF TypeOK

\* The calls of LaunchInSession that succeed.
LEMMA LaunchInvariant ==
    ASSUME IInv, LaunchInSession
    PROVE  IInv'
  <1>0. TypeOK /\ HandlesOK /\ ChildOK
    BY DEF IInv
  <1>1. CASE Launch
    <2>1. Holds(Locals)' = Holds(Locals)
      BY <1>1 DEF Launch, Holds
    <2>2. TypeOK'
      BY <1>0, <1>1 DEF Launch, TypeOK
    <2>3. HandlesOK'
      <3>1. \A v \in Locals : held[v] = NoHandle
        BY <1>0, <1>1 DEF Launch, HandlesOK, OpenAt
      <3>2. QED
        BY <1>0, <1>1, <2>1, <3>1 DEF Launch, HandlesOK, AfterEnv, Closed, Locals
    <2>4. ChildOK'
      BY <1>0, <1>1 DEF Launch, ChildOK
    <2>5. QED
      BY <2>2, <2>3, <2>4 DEF IInv
  <1>2. ASSUME at \notin {"idle", "dead"}
        PROVE  p = Closed
    BY <1>0, <1>2 DEF HandlesOK
  <1> DEFINE Rest == <<env, p, theirs, jobHandle, killOnClose, child, assigned, offspring>>
  <1>3. CASE QueryUser
    <2>1. CASE Fail({}, FALSE)
      BY <1>0, <1>3, <2>1, FailInvariant DEF QueryUser, HandlesOK, OpenAt, ChildOK, Locals
    <2>2. ASSUME NEW next \in {"choose", "duplicate"}, Opens("user", next), UNCHANGED Rest
          PROVE  IInv'
      <3>1. at = "query" /\ at' = next /\ held["user"] = NoHandle /\ p = Closed /\ p' = Closed
        BY <1>0, <1>2, <1>3, <2>2 DEF QueryUser, Opens, HandlesOK, OpenAt, Locals
      <3>2. TypeOK'
        BY <1>0, <2>2, <3>1, OpensInvariant DEF TypeOK, Locals
      <3>3. HandlesOK'
        BY <1>0, <2>2, <3>1, OpensInvariant DEF HandlesOK, OpenAt, Locals, AfterEnv, Closed
      <3>4. ChildOK'
        BY <1>0, <2>2, <3>1 DEF ChildOK
      <3>5. QED
        BY <3>2, <3>3, <3>4 DEF IInv
    <2>3. QED
      BY <1>3, <2>1, <2>2 DEF QueryUser
  <1>4. CASE Choose
    <2>1. CASE Fail({}, FALSE)
      BY <1>0, <1>4, <2>1, FailInvariant DEF Choose, HandlesOK, OpenAt, ChildOK, Locals
    <2>2. CASE ~Fail({}, FALSE)
      <3>1. /\ at = "choose" /\ at' \in {"linked", "duplicate"}
            /\ UNCHANGED <<held, env, p, windowsVars, killOnClose, assigned>>
        BY <1>4, <2>2 DEF Choose
      <3>2. Holds(Locals)' = Holds(Locals)
        BY <3>1 DEF Holds
      <3>3. TypeOK'
        BY <1>0, <3>1 DEF TypeOK, windowsVars
      <3>4. HandlesOK'
        BY <1>0, <3>1, <3>2 DEF HandlesOK, OpenAt, AfterEnv, windowsVars
      <3>5. ChildOK'
        BY <1>0, <3>1 DEF ChildOK, windowsVars
      <3>6. QED
        BY <3>3, <3>4, <3>5 DEF IInv
    <2>3. QED
      BY <2>1, <2>2
  <1>5. CASE GetLinked
    <2>1. CASE Fail({}, FALSE)
      BY <1>0, <1>5, <2>1, FailInvariant DEF GetLinked, HandlesOK, OpenAt, ChildOK, Locals
    <2>2. CASE Opens("linked", "duplicate") /\ UNCHANGED Rest
      <3>1. /\ at = "linked" /\ at' = "duplicate" /\ held["linked"] = NoHandle
            /\ p = Closed /\ p' = Closed
        BY <1>0, <1>2, <1>5, <2>2 DEF GetLinked, Opens, HandlesOK, OpenAt, Locals
      <3>2. TypeOK'
        BY <1>0, <2>2, <3>1, OpensInvariant DEF TypeOK, Locals
      <3>3. HandlesOK'
        BY <1>0, <2>2, <3>1, OpensInvariant DEF HandlesOK, OpenAt, Locals, AfterEnv, Closed
      <3>4. ChildOK'
        BY <1>0, <2>2, <3>1 DEF ChildOK
      <3>5. QED
        BY <3>2, <3>3, <3>4 DEF IInv
    <2>3. QED
      BY <1>5, <2>1, <2>2 DEF GetLinked
  <1>6. CASE Duplicate
    <2>1. CASE Fail({}, FALSE)
      BY <1>0, <1>6, <2>1, FailInvariant DEF Duplicate, HandlesOK, OpenAt, ChildOK, Locals
    <2>2. CASE ~Fail({}, FALSE)
      <3>1. PICK h \in Handles \ (ours \cup theirs) :
              /\ ours' = (ours \cup {h}) \ Holds({"user", "linked"})
              /\ theirs' = theirs \ Holds({"user", "linked"})
              /\ held' = [Nothing EXCEPT !["tok"] = h]
              /\ at' = "environment"
              /\ UNCHANGED <<env, p, jobHandle, killOnClose, child, assigned, offspring>>
        BY <1>6, <2>2 DEF Duplicate
      <3>2. at = "duplicate" /\ p = Closed /\ ours = Holds(Locals)
        BY <1>0, <1>2, <1>6 DEF Duplicate, HandlesOK, Closed
      <3>3. Holds(Locals) = Holds({"user", "linked"})
        BY <1>0, <3>2 DEF Holds, HandlesOK, OpenAt, Locals
      <3>4. ours' = {h}
        BY <3>1, <3>2, <3>3
      <3>5. /\ held' \in [Locals -> Handles \cup {NoHandle}]
            /\ \A v \in Locals : held'[v] = IF v = "tok" THEN h ELSE NoHandle
        BY <3>1 DEF Nothing, Locals
      <3>6. Holds(Locals)' = {h}
        BY <3>1, <3>5, LaunchAssumption DEF Holds, Locals
      <3>7. TypeOK'
        BY <1>0, <3>1, <3>4, <3>5 DEF TypeOK
      <3>8. HandlesOK'
        BY <1>0, <3>1, <3>2, <3>4, <3>5, <3>6 DEF HandlesOK, OpenAt, AfterEnv, Locals, Closed
      <3>9. ChildOK'
        BY <1>0, <3>1, <3>2 DEF ChildOK
      <3>10. QED
        BY <3>7, <3>8, <3>9 DEF IInv
    <2>3. QED
      BY <2>1, <2>2
  <1>7. CASE CreateEnvironment
    <2>1. CASE Fail({}, FALSE)
      BY <1>0, <1>7, <2>1, FailInvariant DEF CreateEnvironment, HandlesOK, OpenAt, ChildOK, Locals
    <2>2. CASE ~Fail({}, FALSE)
      <3>1. /\ at = "environment" /\ at' = "job" /\ env' = TRUE
            /\ UNCHANGED <<held, p, windowsVars, killOnClose, assigned>>
        BY <1>7, <2>2 DEF CreateEnvironment
      <3>2. Holds(Locals)' = Holds(Locals)
        BY <3>1 DEF Holds
      <3>3. TypeOK'
        BY <1>0, <3>1 DEF TypeOK, windowsVars
      <3>4. HandlesOK'
        BY <1>0, <3>1, <3>2 DEF HandlesOK, OpenAt, AfterEnv, windowsVars
      <3>5. ChildOK'
        BY <1>0, <3>1 DEF ChildOK, windowsVars
      <3>6. QED
        BY <3>3, <3>4, <3>5 DEF IInv
    <2>3. QED
      BY <2>1, <2>2
  <1>8. CASE CreateJob
    <2>1. CASE Fail({}, FALSE)
      BY <1>0, <1>8, <2>1, FailInvariant DEF CreateJob, HandlesOK, OpenAt, ChildOK, Locals
    <2>2. CASE /\ Opens("job", "limit") /\ jobHandle' = held'["job"]
               /\ UNCHANGED <<env, p, theirs, killOnClose, child, assigned, offspring>>
      <3>1. /\ at = "job" /\ at' = "limit" /\ held["job"] = NoHandle
            /\ p = Closed /\ p' = Closed
        BY <1>0, <1>2, <1>8, <2>2 DEF CreateJob, Opens, HandlesOK, OpenAt, Locals
      <3>2. /\ held' \in [Locals -> Handles \cup {NoHandle}]
            /\ \A w \in Locals : held'[w] # NoHandle <=> (w = "job" \/ held[w] # NoHandle)
            /\ \A w, u \in Locals : held'[w] = held'[u] /\ w # u => held'[w] = NoHandle
            /\ ours' = Holds(Locals)'
            /\ ours' \subseteq Handles /\ ours' \cap theirs' = {}
        BY <1>0, <2>2, <3>1, OpensInvariant DEF Locals
      <3>3. TypeOK'
        BY <1>0, <2>2, <3>1, <3>2 DEF TypeOK, Locals
      <3>4. HandlesOK'
        BY <1>0, <2>2, <3>1, <3>2 DEF HandlesOK, OpenAt, Locals, AfterEnv, Closed
      <3>5. ChildOK'
        BY <1>0, <2>2, <3>1 DEF ChildOK
      <3>6. QED
        BY <3>3, <3>4, <3>5 DEF IInv
    <2>3. QED
      BY <1>8, <2>1, <2>2 DEF CreateJob
  <1>9. CASE SetLimit
    <2>1. CASE Fail({"job"}, FALSE)
      BY <1>0, <1>9, <2>1, FailInvariant DEF SetLimit, HandlesOK, OpenAt, ChildOK, Locals
    <2>2. CASE ~Fail({"job"}, FALSE)
      <3>1. /\ at = "limit" /\ at' = "create" /\ killOnClose' = TRUE
            /\ UNCHANGED <<held, env, p, windowsVars, assigned>>
        BY <1>9, <2>2 DEF SetLimit
      <3>2. Holds(Locals)' = Holds(Locals)
        BY <3>1 DEF Holds
      <3>3. TypeOK'
        BY <1>0, <3>1 DEF TypeOK, windowsVars
      <3>4. HandlesOK'
        BY <1>0, <3>1, <3>2 DEF HandlesOK, OpenAt, AfterEnv, windowsVars
      <3>5. ChildOK'
        BY <1>0, <3>1 DEF ChildOK, windowsVars
      <3>6. QED
        BY <3>3, <3>4, <3>5 DEF IInv
    <2>3. QED
      BY <2>1, <2>2
  <1>10. CASE CreateProcess
    <2>1. CASE Fail({"job"}, FALSE)
      BY <1>0, <1>10, <2>1, FailInvariant DEF CreateProcess, HandlesOK, OpenAt, ChildOK, Locals
    <2>2. CASE ~Fail({"job"}, FALSE)
      <3>1. PICK h \in Handles \ (ours \cup theirs), t \in Handles \ (ours \cup theirs) :
              /\ h # t
              /\ ours' = ours \cup {h, t}
              /\ held' = [held EXCEPT !["process"] = h, !["thread"] = t]
        BY <1>10, <2>2 DEF CreateProcess
      <3>2. /\ at = "create" /\ at' = "assign" /\ child' = "suspended"
            /\ UNCHANGED <<env, p, theirs, jobHandle, killOnClose, assigned, offspring>>
        BY <1>10, <2>2 DEF CreateProcess
      <3>3. p = Closed /\ ours = Holds(Locals) /\ h # NoHandle /\ t # NoHandle
        BY <1>0, <1>2, <3>1, <3>2, LaunchAssumption DEF HandlesOK, Closed
      <3>4. \A v \in Locals : held'[v] = CASE v = "process" -> h [] v = "thread" -> t [] OTHER -> held[v]
        BY <1>0, <3>1 DEF TypeOK
      <3>5. held["process"] = NoHandle /\ held["thread"] = NoHandle
        BY <1>0, <3>2 DEF HandlesOK, OpenAt, Locals
      <3>6. Holds(Locals)' = Holds(Locals) \cup {h, t}
        BY <3>3, <3>4, <3>5 DEF Holds, Locals
      <3>7. \A v \in Locals : held[v] # h /\ held[v] # t
        BY <3>1, <3>3 DEF Holds
      <3>8. TypeOK'
        BY <1>0, <3>1, <3>2 DEF TypeOK
      <3>9. \A v, w \in Locals : held'[v] = held'[w] /\ v # w => held'[v] = NoHandle
        <4>1. /\ held'["process"] = h /\ held'["thread"] = t
              /\ \A v \in Locals \ {"process", "thread"} : held'[v] = held[v]
          BY <3>4 DEF Locals
        <4>2. \A v, w \in Locals : held[v] = held[w] /\ v # w => held[v] = NoHandle
          BY <1>0 DEF HandlesOK
        <4>3. h # t
          BY <3>1
        <4>4. ASSUME NEW v \in Locals, NEW w \in Locals, held'[v] = held'[w], v # w
              PROVE  held'[v] = NoHandle
          BY <3>7, <4>1, <4>2, <4>3, <4>4
        <4>5. QED
          BY <4>4
      <3>10. HandlesOK'
        BY <1>0, <3>1, <3>2, <3>3, <3>4, <3>6, <3>9 DEF HandlesOK, OpenAt, AfterEnv, Locals, Closed
      <3>11. ChildOK'
        BY <1>0, <3>2 DEF ChildOK
      <3>12. QED
        BY <3>8, <3>10, <3>11 DEF IInv
    <2>3. QED
      BY <2>1, <2>2
  <1>11. CASE Assign
    <2>1. CASE Fail({"process", "job"}, TRUE)
      BY <1>0, <1>11, <2>1, FailInvariant DEF Assign
    <2>2. CASE ~Fail({"process", "job"}, TRUE)
      <3>1. /\ at = "assign" /\ at' = "resume" /\ assigned' = TRUE
            /\ UNCHANGED <<held, env, p, windowsVars, killOnClose>>
        BY <1>11, <2>2 DEF Assign
      <3>2. Holds(Locals)' = Holds(Locals)
        BY <3>1 DEF Holds
      <3>3. TypeOK'
        BY <1>0, <3>1 DEF TypeOK, windowsVars
      <3>4. HandlesOK'
        BY <1>0, <3>1, <3>2 DEF HandlesOK, OpenAt, AfterEnv, windowsVars
      <3>5. ChildOK'
        BY <1>0, <1>2, <3>1 DEF ChildOK, windowsVars
      <3>6. QED
        BY <3>3, <3>4, <3>5 DEF IInv
    <2>3. QED
      BY <2>1, <2>2
  <1>12. CASE Resume
    <2>1. CASE Fail({"process", "job"}, TRUE)
      BY <1>0, <1>12, <2>1, FailInvariant DEF Resume
    <2>2. CASE ~Fail({"process", "job"}, TRUE)
      <3>1. /\ at = "resume"
            /\ p' = [handle |-> held["process"], job |-> held["job"]]
            /\ child' = IF child = "suspended" THEN "running" ELSE child
            /\ ours' = ours \ Holds(Deferred)
            /\ theirs' = theirs \ Holds(Deferred)
            /\ held' = Nothing /\ env' = FALSE /\ at' = "idle"
            /\ UNCHANGED <<jobHandle, killOnClose, assigned, offspring>>
        BY <1>12, <2>2 DEF Resume
      <3>2. p = Closed /\ ours = Holds(Locals)
        BY <1>0, <1>2, <3>1 DEF HandlesOK, Closed
      <3>3. /\ held["process"] \in Handles /\ held["job"] \in Handles
            /\ held["process"] # held["job"]
        BY <1>0, <3>1 DEF HandlesOK, TypeOK, Locals
      <3>4. \A v \in Deferred : held[v] # held["process"] /\ held[v] # held["job"]
        BY <1>0, <3>3, LaunchAssumption DEF HandlesOK, Locals, Deferred
      <3>5. Holds(Locals) \ Holds(Deferred) = {held["process"], held["job"]}
        BY <3>3, <3>4, LaunchAssumption DEF Holds, Locals, Deferred
      <3>6. Holds(Locals)' = {}
        BY <3>1 DEF Holds, Nothing
      <3>7. TypeOK'
        BY <1>0, <3>1, <3>3 DEF TypeOK, Nothing
      <3>8. p'.handle = held["process"] /\ p'.job = held["job"]
        BY <3>1
      <3>9. ours' = {p'.handle, p'.job} \ {NoHandle}
        BY <3>1, <3>2, <3>3, <3>5, <3>8, LaunchAssumption
      <3>10. HandlesOK'
        BY <1>0, <3>1, <3>3, <3>6, <3>8, <3>9 DEF HandlesOK, Nothing, AfterEnv
      <3>11. p' # Closed
        BY <3>3, <3>8, LaunchAssumption DEF Closed
      <3>12. ChildOK'
        BY <1>0, <3>1, <3>11 DEF ChildOK
      <3>13. QED
        BY <3>7, <3>10, <3>12 DEF IInv
    <2>3. QED
      BY <2>1, <2>2
  <1>13. QED
    BY <1>1, <1>3, <1>4, <1>5, <1>6, <1>7, <1>8, <1>9, <1>10, <1>11, <1>12 DEF LaunchInSession

\* Close takes what is open, the first time, and nothing at all after that.
LEMMA CloseInvariant ==
    ASSUME IInv, Close
    PROVE  IInv'
  <1>0. TypeOK /\ HandlesOK /\ ChildOK
    BY DEF IInv
  <1>1. /\ at' = at /\ held' = held /\ env' = env /\ p' = Closed
        /\ CloseHandles({p.handle, p.job} \ {NoHandle}, FALSE)
        /\ UNCHANGED <<killOnClose, assigned>>
    BY DEF Close
  <1>2. Holds(Locals)' = Holds(Locals)
    BY <1>1 DEF Holds
  <1>3. CASE p = Closed
    <2>1. jobHandle = NoHandle \/ at # "idle"
      BY <1>0, <1>3 DEF HandlesOK, Closed
    <2>2. {p.handle, p.job} \ {NoHandle} = {}
      BY <1>3 DEF Closed
    <2>3. UNCHANGED <<ours, theirs, jobHandle, child, offspring, p>>
      BY <1>1, <1>3, <2>2 DEF CloseHandles
    <2>4. QED
      BY <1>0, <1>1, <1>2, <2>3 DEF IInv, TypeOK, HandlesOK, ChildOK
  <1>4. CASE p # Closed
    <2>1. at = "idle" /\ jobHandle = p.job /\ killOnClose /\ assigned
      BY <1>0, <1>4 DEF HandlesOK, ChildOK
    <2>2. p.handle \in Handles /\ p.job \in Handles
      BY <1>0, <1>4 DEF TypeOK
    <2>3. jobHandle \in {p.handle, p.job} \ {NoHandle}
      BY <2>1, <2>2, LaunchAssumption
    <2>4. Holds(Locals) = {}
      BY <1>0, <2>1 DEF HandlesOK, OpenAt, Holds
    <2>5. ours' = {} /\ jobHandle' = NoHandle
      BY <1>0, <1>1, <2>3, <2>4 DEF CloseHandles, HandlesOK
    <2>6. child' = "ended" /\ offspring' = {}
      BY <1>0, <1>1, <1>4, <2>1, <2>3 DEF CloseHandles, ChildOK, Alive, TypeOK
    <2>7. TypeOK'
      BY <1>0, <1>1, <2>5, <2>6 DEF TypeOK, CloseHandles
    <2>8. HandlesOK'
      BY <1>0, <1>1, <1>2, <2>1, <2>4, <2>5 DEF HandlesOK, Closed
    <2>9. ChildOK'
      BY <1>0, <1>1, <2>1, <2>6 DEF ChildOK
    <2>10. QED
      BY <2>7, <2>8, <2>9 DEF IInv
  <1>5. QED
    BY <1>3, <1>4

\* The rest of the service, the processes, and the end of the service.
LEMMA OthersInvariant ==
    ASSUME IInv, Others \/ UNCHANGED vars
    PROVE  IInv'
  <1>0. TypeOK /\ HandlesOK /\ ChildOK
    BY DEF IInv
  <1>1. held' = held => Holds(Locals)' = Holds(Locals)
    BY DEF Holds
  <1>2. CASE TheyOpen \/ TheyClose
    <2>1. UNCHANGED <<at, held, env, p, ours, jobHandle, killOnClose, child, assigned, offspring>>
      BY <1>2 DEF TheyOpen, TheyClose
    <2>2. TypeOK'
      BY <1>0, <1>2, <2>1 DEF TheyOpen, TheyClose, TypeOK
    <2>3. QED
      BY <1>0, <1>1, <2>1, <2>2 DEF IInv, HandlesOK, ChildOK
  <1>3. CASE Spawns
    <2>1. UNCHANGED <<at, held, env, p, ours, theirs, jobHandle, killOnClose, child, assigned>>
      BY <1>3 DEF Spawns
    <2>2. p # Closed /\ assigned
      BY <1>0, <1>3 DEF Spawns, ChildOK
    <2>3. offspring' = offspring \cup {"inJob"}
      BY <1>3, <2>2 DEF Spawns
    <2>4. QED
      BY <1>0, <1>1, <2>1, <2>2, <2>3 DEF IInv, TypeOK, HandlesOK, ChildOK
  <1>4. CASE Ends
    BY <1>0, <1>1, <1>4 DEF Ends, IInv, TypeOK, HandlesOK, ChildOK, Alive
  <1>5. CASE ServiceDies
    <2>1. /\ at' = "dead" /\ held' = Nothing /\ env' = FALSE /\ p' = Closed
          /\ CloseHandles(ours \cup theirs, FALSE)
          /\ UNCHANGED <<killOnClose, assigned>>
      BY <1>5 DEF ServiceDies
    <2>2. ours' = {} /\ theirs' = {}
      BY <2>1 DEF CloseHandles
    <2>3. jobHandle \in ours \/ jobHandle = NoHandle
      <3>1. CASE at = "idle"
        BY <1>0, <3>1 DEF HandlesOK
      <3>2. CASE at # "idle"
        BY <1>0, <3>2 DEF HandlesOK, Holds, Locals
      <3>3. QED
        BY <3>1, <3>2
    <2>4. jobHandle' = NoHandle
      BY <2>1, <2>3 DEF CloseHandles
    <2>5. Holds(Locals)' = {}
      BY <2>1 DEF Holds, Nothing
    <2>6. child' # "running" /\ offspring' = {} /\ child' \in {"none", "suspended", "running", "ended"}
      <3>1. CASE p = Closed
        BY <1>0, <2>1, <3>1 DEF ChildOK, CloseHandles, TypeOK
      <3>2. CASE p # Closed
        <4>1. jobHandle \in ours /\ killOnClose /\ assigned
          BY <1>0, <2>3, <3>2, LaunchAssumption DEF ChildOK, HandlesOK, TypeOK
        <4>2. QED
          BY <1>0, <2>1, <3>2, <4>1 DEF ChildOK, CloseHandles, Alive, TypeOK
      <3>3. QED
        BY <3>1, <3>2
    <2>7. TypeOK'
      BY <1>0, <2>1, <2>2, <2>4, <2>6 DEF TypeOK, Nothing
    <2>8. HandlesOK'
      BY <2>1, <2>2, <2>4, <2>5 DEF HandlesOK, Nothing, Closed, AfterEnv, Locals
    <2>9. ChildOK'
      BY <2>1, <2>6 DEF ChildOK
    <2>10. QED
      BY <2>7, <2>8, <2>9 DEF IInv
  <1>6. CASE UNCHANGED vars
    BY <1>0, <1>1, <1>6 DEF vars, windowsVars, IInv, TypeOK, HandlesOK, ChildOK
  <1>7. QED
    BY <1>2, <1>3, <1>4, <1>5, <1>6 DEF Others

THEOREM Invariant == Spec => []IInv
  <1>1. IInv /\ [Next]_vars => IInv'
    BY LaunchInvariant, CloseInvariant, OthersInvariant DEF Next
  <1>2. QED
    BY <1>1, InitInvariant, PTL DEF Spec

-----------------------------------------------------------------------------
\* Every variable keeps to its type, and the Process has both handles or none.
THEOREM TypeCorrect == Spec => []TypeOK
  <1>1. IInv => TypeOK
    BY DEF IInv
  <1>2. QED
    BY <1>1, Invariant, PTL

\* No path of LaunchInSession or Close leaks a handle or a process.
THEOREM NoLeak == Spec => []NothingLeaks
  <1>1. ASSUME IInv PROVE NothingLeaks
    <2>1. HandlesOK /\ ChildOK
      BY <1>1 DEF IInv
    <2>2. at = "idle" => Holds(Locals) = {}
      BY <2>1 DEF HandlesOK, OpenAt, Holds
    <2>3. QED
      BY <2>1, <2>2 DEF NothingLeaks, HandlesOK, ChildOK, AfterEnv
  <1>2. QED
    BY <1>1, Invariant, PTL

\* Nothing of the payload runs outside its job.
THEOREM NoEscape == Spec => []NothingEscapes
  <1>1. ASSUME IInv, child = "running" \/ offspring # {}
        PROVE  jobHandle \in ours /\ assigned /\ killOnClose /\ "outside" \notin offspring
    <2>1. p # Closed
      BY <1>1 DEF IInv, ChildOK
    <2>2. QED
      BY <2>1, <1>1, LaunchAssumption DEF IInv, ChildOK, HandlesOK, TypeOK
  <1>2. IInv => NothingEscapes
    BY <1>1 DEF NothingEscapes
  <1>3. QED
    BY <1>2, Invariant, PTL

\* No step of the launch, and no Close, the first or a later one, closes a handle
\* of the rest of the service.
THEOREM OnlyOwn == Spec => ClosesOnlyOwn
  <1>1. ASSUME IInv, LaunchInSession \/ Close
        PROVE  theirs \subseteq theirs'
    <2>1. HandlesOK /\ TypeOK
      BY <1>1 DEF IInv
    <2>2. Holds(Locals) \cap theirs = {} /\ ({p.handle, p.job} \ {NoHandle}) \cap theirs = {}
      BY <2>1 DEF HandlesOK, TypeOK
    <2>3. \A names \in SUBSET Locals : Holds(names) \cap theirs = {}
      BY <2>2 DEF Holds
    <2>4. ASSUME NEW names \in SUBSET {"process", "job"}, NEW terminated, Fail(names, terminated)
          PROVE  theirs' = theirs
      BY <2>3, <2>4 DEF Fail, CloseHandles, Deferred, Locals
    <2>5. CASE Close
      BY <2>2, <2>5 DEF Close, CloseHandles
    <2>6. CASE LaunchInSession
      <3>1. CASE Duplicate
        BY <2>3, <2>4, <3>1 DEF Duplicate, Locals
      <3>2. CASE Resume
        BY <2>3, <2>4, <3>2 DEF Resume, Locals, Deferred
      <3>3. CASE Launch \/ QueryUser \/ Choose \/ GetLinked
        BY <2>4, <3>3 DEF Launch, QueryUser, Choose, GetLinked, windowsVars
      <3>4. CASE CreateEnvironment \/ CreateJob \/ SetLimit \/ CreateProcess \/ Assign
        BY <2>4, <3>4 DEF CreateEnvironment, CreateJob, SetLimit, CreateProcess, Assign, windowsVars
      <3>5. QED
        BY <2>6, <3>1, <3>2, <3>3, <3>4 DEF LaunchInSession
    <2>7. QED
      BY <1>1, <2>5, <2>6
  <1>2. QED
    BY <1>1, Invariant, PTL DEF Spec, ClosesOnlyOwn
=============================================================================
