-------------------------- MODULE SupervisorProofs --------------------------
(* Proofs about Supervisor, for any configurations, sessions, users and       *)
(* largest duration.                                                          *)
EXTENDS Supervisor, TLAPS

-----------------------------------------------------------------------------
(* grow.                                                                    *)

\* The next pause is no shorter, within its bound, and never wraps, however
\* large the bound is (grow, supervisor.go:317-325).
THEOREM GrowBounded ==
    ASSUME NEW max \in 1..MaxDuration, NEW cur \in 1..max
    PROVE  grow(cur, max) \in cur..max
  <1>1. CASE cur > max \div 2
    BY <1>1, MaxDurationAssumption DEF grow
  <1>2. CASE cur <= max \div 2
    <2>1. 2 * cur <= max /\ 2 * cur >= cur
      BY <1>2, MaxDurationAssumption
    <2>2. Wrap(2 * cur) = 2 * cur
      BY <2>1, MaxDurationAssumption DEF Wrap
    <2>3. QED
      BY <1>2, <2>1, <2>2, MaxDurationAssumption DEF grow
  <1>3. QED
    BY <1>1, <1>2, MaxDurationAssumption

\* The bounds Run works with are positive and in order, whatever is configured.
LEMMA BoundsOrdered ==
    ASSUME NEW c \in Configs
    PROVE  /\ minBackoff(c) \in 1..MaxDuration
           /\ maxBackoff(c) \in minBackoff(c)..MaxDuration
  <1>1. c.MinBackoff \in Duration /\ c.MaxBackoff \in Duration
    BY ConfigAssumption DEF Config
  <1>2. QED
    BY <1>1, DefaultsAssumption, MaxDurationAssumption
    DEF Duration, minBackoff, maxBackoff, Default

-----------------------------------------------------------------------------
(* The invariant.                                                           *)

\* elevate is raised only with leave, and never lowered below the configuration.
ElevateOK ==
    pc \in Supervising =>
        /\ elevate => conf.LaunchElevated \/ (demands /\ ~conf.DisableAutoElevate)
        /\ conf.LaunchElevated => elevate

\* Past the check, an update URL means that the check has passed.
CheckedOK == pc \in Supervising \cup {"stat"} /\ conf.UpdateURL => checked

SidOK == pc = "launch" => sid \in Session

RightsOK ==
    jobs > 0 =>
        /\ rights.user \in User
        /\ rights.admin /\ ~TokenOf[rights.user].isElevated =>
              conf.LaunchElevated \/ (demands /\ ~conf.DisableAutoElevate)
        /\ conf.LaunchElevated \/ demands => rights.admin

IInv == TypeOK /\ OnePayload /\ ElevateOK /\ CheckedOK /\ SidOK /\ RightsOK
        /\ ExitIsHonest /\ BackoffInBounds

\* Numbers that the steps write are durations.
LEMMA Durations ==
    /\ 0 \in Duration
    /\ minWait \in Duration
    /\ \A n \in 0..MaxDuration : n \in Duration
    /\ minWait \in 1..maxWait /\ maxWait \in 1..MaxDuration
  BY DefaultsAssumption, MaxDurationAssumption DEF Duration, minWait, maxWait

LEMMA InitInvariant ==
    ASSUME Init
    PROVE  IInv
  <1>1. TypeOK
    BY SessionAssumption, Durations DEF Init, TypeOK, NoRights
  <1>2. QED
    BY <1>1 DEF Init, IInv, OnePayload, ElevateOK, CheckedOK, SidOK, RightsOK,
                ExitIsHonest, BackoffInBounds, Supervising

\* What a successful launch says of the rights the payload gets.
LEMMA LaunchedRights ==
    ASSUME NEW u \in User \cup {NoUser}, elevate \in BOOLEAN, demands \in BOOLEAN,
           LaunchResult(u, elevate) = "launched"
    PROVE  /\ u \in User
           /\ LaunchesAsAdmin(TokenOf[u], elevate) \in BOOLEAN
           /\ LaunchesAsAdmin(TokenOf[u], elevate) /\ ~TokenOf[u].isElevated => elevate
           /\ elevate \/ demands => LaunchesAsAdmin(TokenOf[u], elevate)
  <1>1. u \in User
    BY DEF LaunchResult
  <1>2. TokenOf[u].isElevated \in BOOLEAN /\ (TokenOf[u].kind = elevationFull => TokenOf[u].isElevated)
    <2>1. TokenOf[u] \in Token
      BY <1>1, UserAssumption
    <2>2. TokenOf[u].isElevated \in BOOLEAN
      BY <2>1 DEF Token
    <2>3. TokenOf[u].kind = elevationFull => TokenOf[u].isElevated
      BY <1>1, UserAssumption
    <2>4. QED
      BY <2>2, <2>3
  <1>3. elevate => HasElevated(TokenOf[u])
    BY <1>1, UserAssumption DEF LaunchResult
  <1>4. demands => LaunchesAsAdmin(TokenOf[u], elevate)
    BY <1>1, <1>3, UserAssumption DEF LaunchResult
  <1>5. elevate => LaunchesAsAdmin(TokenOf[u], elevate)
    BY <1>2, <1>3 DEF HasElevated, LaunchesAsAdmin, chooseElevation, elevationFull, elevationLimited
  <1>6. QED
    BY <1>1, <1>2, <1>4, <1>5 DEF LaunchesAsAdmin

\* A launch refused for want of rights was of a payload that demands them.
LEMMA RefusedDemands ==
    ASSUME NEW u \in User \cup {NoUser}, LaunchResult(u, elevate) = "elevationRequired"
    PROVE  demands
  BY DEF LaunchResult

\* Run's own steps.
LEMMA RunInvariant ==
    ASSUME IInv, RunStep
    PROVE  IInv'
  <1> USE DEF IInv, TypeOK, OnePayload, ElevateOK, CheckedOK, SidOK, RightsOK, ExitIsHonest,
              BackoffInBounds, Supervising, Goto, Return, machine, process, memory
  <1>1. CASE Start
    BY <1>1, Durations DEF Start
  <1>2. CASE CheckStopped
    BY <1>2 DEF CheckStopped
  <1>3. CASE CheckPasses
    BY <1>3 DEF CheckPasses
  <1>4. CASE CheckFails
    BY <1>4 DEF CheckFails
  <1>5. CASE CheckAgain
    <2>1. wait \in 1..maxWait /\ maxWait \in 1..MaxDuration
      BY <1>5, Durations DEF CheckAgain, minWait, maxWait
    <2>2. grow(wait, maxWait) \in wait..maxWait
      BY <2>1, GrowBounded
    <2>3. grow(wait, maxWait) \in minWait..maxWait /\ grow(wait, maxWait) \in Duration
      <3>1. wait \in minWait..maxWait /\ minWait \in Nat /\ maxWait \in Nat
        BY <1>5, Durations DEF CheckAgain, minWait, maxWait
      <3>2. grow(wait, maxWait) \in minWait..maxWait
        BY <2>2, <3>1
      <3>3. QED
        BY <3>1, <3>2, Durations, MaxDurationAssumption
    <2>4. TypeOK'
      BY <1>5, <2>3 DEF CheckAgain
    <2>5. OnePayload' /\ ElevateOK'
      BY <1>5, <2>3 DEF CheckAgain
    <2>6. CheckedOK' /\ SidOK'
      BY <1>5, <2>3 DEF CheckAgain
    <2>7. RightsOK'
      BY <1>5, <2>3 DEF CheckAgain
    <2>8. ExitIsHonest'
      BY <1>5, <2>3 DEF CheckAgain
    <2>9. BackoffInBounds'
      BY <1>5, <2>3 DEF CheckAgain
    <2>10. QED
      BY <2>4, <2>5, <2>6, <2>7, <2>8, <2>9
  <1>6. CASE Stat
    <2>1. minBackoff(conf) \in minBackoff(conf)..maxBackoff(conf) /\ minBackoff(conf) \in Duration
      BY BoundsOrdered, Durations
    <2>2. conf.LaunchElevated \in BOOLEAN
      BY ConfigAssumption DEF Config
    <2>3. QED
      BY <1>6, <2>1, <2>2 DEF Stat
  <1>7. CASE Loop
    BY <1>7 DEF Loop
  <1>8. CASE SessionReady
    BY <1>8, SessionAssumption DEF SessionReady, ReadySessions
  <1>9. CASE SessionStopped
    BY <1>9 DEF SessionStopped
  <1>10. CASE SessionUnsupported
    BY <1>10 DEF SessionUnsupported
  <1>11. CASE LaunchOk
    <2>1. users[sid] \in User \cup {NoUser}
      BY <1>11 DEF LaunchOk
    <2>2. /\ pc = "launch" /\ pc' = "wait"
          /\ jobs' = jobs + 1 /\ alive' = TRUE /\ healthy' = FALSE
          /\ rights' = [user |-> users[sid],
                        admin |-> LaunchesAsAdmin(TokenOf[users[sid]], elevate)]
          /\ UNCHANGED <<exit, cancelled, conf, machine, memory>>
      BY <1>11 DEF LaunchOk
    <2>3. /\ users[sid] \in User
          /\ rights' \in [user : User \cup {NoUser}, admin : BOOLEAN]
          /\ rights'.user = users[sid]
          /\ rights'.admin = LaunchesAsAdmin(TokenOf[users[sid]], elevate)
          /\ rights'.admin /\ ~TokenOf[users[sid]].isElevated => elevate
          /\ elevate \/ demands => rights'.admin
      <3>1. LaunchResult(users[sid], elevate) = "launched"
        BY <1>11 DEF LaunchOk
      <3>2. /\ users[sid] \in User
            /\ LaunchesAsAdmin(TokenOf[users[sid]], elevate) \in BOOLEAN
            /\ LaunchesAsAdmin(TokenOf[users[sid]], elevate) /\ ~TokenOf[users[sid]].isElevated
                  => elevate
            /\ elevate \/ demands => LaunchesAsAdmin(TokenOf[users[sid]], elevate)
        BY <2>1, <3>1, LaunchedRights
      <3>3. QED
        BY <2>2, <3>2
    <2>4. TypeOK'
      <3>1. alive' \in BOOLEAN /\ healthy' \in BOOLEAN
        BY <2>2
      <3>2. jobs' \in Nat
        BY <2>2
      <3>3. QED
        BY <2>2, <2>3, <3>1, <3>2
    <2>5. OnePayload' /\ ElevateOK'
      BY <2>2, <2>3
    <2>6. CheckedOK' /\ SidOK'
      BY <2>2, <2>3
    <2>7. RightsOK'
      BY <2>2, <2>3
    <2>8. ExitIsHonest'
      BY <2>2, <2>3
    <2>9. BackoffInBounds'
      BY <2>2, <2>3
    <2>10. QED
      BY <2>4, <2>5, <2>6, <2>7, <2>8, <2>9
  <1>12. CASE LaunchFails
    <2>1. users[sid] \in User \cup {NoUser}
      BY <1>12 DEF LaunchFails
    <2>2. ASSUME elevate' # elevate
          PROVE  elevate' = TRUE /\ demands /\ ~conf.DisableAutoElevate
      BY <1>12, <2>1, <2>2, RefusedDemands DEF LaunchFails, shouldAutoElevate
    <2>3. /\ pc = "launch" /\ pc' \in {"exited", "loop", "signIn", "delay"}
          /\ elevate' \in {elevate, TRUE}
          /\ (pc' = "exited" /\ exit' = "error") \/ UNCHANGED exit
          /\ UNCHANGED <<cancelled, conf, machine, process, checked, wait, backoff, sid>>
      <3>1. CASE UNCHANGED elevate
        BY <1>12, <3>1 DEF LaunchFails
      <3>2. CASE elevate' # elevate
        BY <1>12, <2>2, <3>2 DEF LaunchFails
      <3>3. QED
        BY <3>1, <3>2
    <2>4. TypeOK'
      <3>1. elevate' \in BOOLEAN
        BY <2>3
      <3>2. pc' \in {"exited", "loop", "signIn", "delay"} /\ exit' \in {exit, "error"}
        BY <2>3
      <3>3. QED
        BY <2>3, <3>1, <3>2
    <2>5. OnePayload' /\ ElevateOK'
      BY <2>2, <2>3
    <2>6. CheckedOK' /\ SidOK'
      BY <2>2, <2>3
    <2>7. RightsOK'
      BY <2>2, <2>3
    <2>8. ExitIsHonest'
      BY <2>2, <2>3
    <2>9. BackoffInBounds'
      BY <2>2, <2>3
    <2>10. QED
      BY <2>4, <2>5, <2>6, <2>7, <2>8, <2>9
  <1>13. CASE SignInAgain
    BY <1>13 DEF SignInAgain
  <1>14. CASE DelayOver
    <2>1. /\ backoff \in 1..maxBackoff(conf) /\ backoff \in minBackoff(conf)..maxBackoff(conf)
          /\ maxBackoff(conf) \in 1..MaxDuration /\ minBackoff(conf) \in 1..MaxDuration
      BY <1>14, BoundsOrdered, MaxDurationAssumption DEF DelayOver
    <2>2. grow(backoff, maxBackoff(conf)) \in backoff..maxBackoff(conf)
      BY <2>1, GrowBounded
    <2>3. /\ grow(backoff, maxBackoff(conf)) \in minBackoff(conf)..maxBackoff(conf)
          /\ grow(backoff, maxBackoff(conf)) \in Duration
      BY <2>1, <2>2, Durations, MaxDurationAssumption
    <2>4. QED
      BY <1>14, <2>3 DEF DelayOver
  <1>15. CASE WaitEnds
    BY <1>15 DEF WaitEnds
  <1>16. CASE Close
    <2>1. minBackoff(conf) \in minBackoff(conf)..maxBackoff(conf) /\ minBackoff(conf) \in Duration
      BY BoundsOrdered, Durations
    <2>2. TypeOK'
      <3>1. jobs' = 0 /\ backoff' \in Duration
        BY <1>16, <2>1 DEF Close
      <3>2. QED
        <4>1. alive' \in BOOLEAN /\ healthy' \in BOOLEAN
          BY <1>16 DEF Close
        <4>2. rights' \in [user : User \cup {NoUser}, admin : BOOLEAN]
          BY <1>16 DEF Close, NoRights
        <4>3. /\ pc' \in {"exited", "delay"} /\ exit' \in {"nil", exit}
              /\ UNCHANGED <<conf, demands, users, active, calm, cancelled, checked, wait, elevate, sid>>
          BY <1>16 DEF Close
        <4>4. QED
          BY <3>1, <4>1, <4>2, <4>3
    <2>3. OnePayload' /\ ElevateOK'
      BY <1>16, <2>1 DEF Close, NoRights
    <2>4. CheckedOK' /\ SidOK'
      BY <1>16, <2>1 DEF Close, NoRights
    <2>5. RightsOK'
      BY <1>16, <2>1 DEF Close, NoRights
    <2>6. ExitIsHonest'
      BY <1>16, <2>1 DEF Close, NoRights
    <2>7. BackoffInBounds'
      BY <1>16, <2>1 DEF Close, NoRights
    <2>8. QED
      BY <2>2, <2>3, <2>4, <2>5, <2>6, <2>7
  <1>17. CASE SleepStopped
    BY <1>17 DEF SleepStopped
  <1>18. QED
    BY <1>1, <1>2, <1>3, <1>4, <1>5, <1>6, <1>7, <1>8, <1>9,
       <1>10, <1>11, <1>12, <1>13, <1>14, <1>15, <1>16, <1>17 DEF RunStep

LEMMA EnvironmentInvariant ==
    ASSUME IInv, Environment
    PROVE  IInv'
  <1> USE DEF IInv, TypeOK, OnePayload, ElevateOK, CheckedOK, SidOK, RightsOK, ExitIsHonest,
              BackoffInBounds, Supervising, machine, process, memory
  <1>1. CASE Stop
    <2>1. TypeOK'
      BY <1>1 DEF Stop
    <2>2. OnePayload' /\ ElevateOK'
      BY <1>1 DEF Stop
    <2>3. CheckedOK' /\ SidOK'
      BY <1>1 DEF Stop
    <2>4. RightsOK'
      BY <1>1 DEF Stop
    <2>5. ExitIsHonest'
      BY <1>1 DEF Stop
    <2>6. BackoffInBounds'
      BY <1>1 DEF Stop
    <2>7. QED
      BY <2>1, <2>2, <2>3, <2>4, <2>5, <2>6
  <1>2. CASE Restart
    <2>1. TypeOK'
      BY <1>2, Durations DEF Restart, NoRights
    <2>2. OnePayload' /\ ElevateOK'
      BY <1>2, Durations DEF Restart, NoRights
    <2>3. CheckedOK' /\ SidOK'
      BY <1>2, Durations DEF Restart, NoRights
    <2>4. RightsOK'
      BY <1>2, Durations DEF Restart, NoRights
    <2>5. ExitIsHonest'
      BY <1>2, Durations DEF Restart, NoRights
    <2>6. BackoffInBounds'
      BY <1>2, Durations DEF Restart, NoRights
    <2>7. QED
      BY <2>1, <2>2, <2>3, <2>4, <2>5, <2>6
  <1>3. CASE PayloadExits
    <2>1. TypeOK'
      <3>1. alive' \in BOOLEAN
        BY <1>3 DEF PayloadExits
      <3>2. QED
        BY <1>3, <3>1 DEF PayloadExits
    <2>2. OnePayload' /\ ElevateOK'
      BY <1>3 DEF PayloadExits
    <2>3. CheckedOK' /\ SidOK'
      BY <1>3 DEF PayloadExits
    <2>4. RightsOK'
      BY <1>3 DEF PayloadExits
    <2>5. ExitIsHonest'
      BY <1>3 DEF PayloadExits
    <2>6. BackoffInBounds'
      BY <1>3 DEF PayloadExits
    <2>7. QED
      BY <2>1, <2>2, <2>3, <2>4, <2>5, <2>6
  <1>4. CASE StaysUp
    BY <1>4 DEF StaysUp
  <1>5. CASE Settle
    BY <1>5 DEF Settle
  <1>6. ASSUME NEW s \in Session, SignOut(s) PROVE IInv'
    BY <1>6 DEF SignOut
  <1>7. ASSUME NEW s \in Session, Connect(s) PROVE IInv'
    BY <1>7 DEF Connect
  <1>8. ASSUME NEW s \in Session, NEW u \in User, SignIn(s, u) PROVE IInv'
    BY <1>8 DEF SignIn
  <1>9. QED
    BY <1>1, <1>2, <1>3, <1>4, <1>5, <1>6, <1>7, <1>8 DEF Environment

LEMMA NextInvariant == IInv /\ [Next]_vars => IInv'
  <1>1. ASSUME IInv, UNCHANGED vars PROVE IInv'
    BY <1>1 DEF vars, IInv, TypeOK, OnePayload, ElevateOK, CheckedOK, SidOK, RightsOK,
                ExitIsHonest, BackoffInBounds
  <1>2. QED
    BY <1>1, RunInvariant, EnvironmentInvariant DEF Next

THEOREM Invariant == Spec => []IInv
  BY InitInvariant, NextInvariant, PTL DEF Spec

-----------------------------------------------------------------------------
(* The theorems.                                                            *)

\* Every variable keeps to its type.
THEOREM TypeCorrect == Spec => []TypeOK
  <1>1. IInv => TypeOK
    BY DEF IInv
  <1>2. QED
    BY <1>1, Invariant, PTL

\* One payload tree at most, and none once Run is over.
THEOREM PayloadUnique == Spec => []OnePayload
  <1>1. IInv => OnePayload
    BY DEF IInv
  <1>2. QED
    BY <1>1, Invariant, PTL

\* Nothing is launched before the check has passed.
THEOREM LaunchChecked == Spec => []NeverLaunchUnchecked
  <1>1. IInv => NeverLaunchUnchecked
    BY DEF IInv, OnePayload, CheckedOK, NeverLaunchUnchecked, Supervising
  <1>2. QED
    BY <1>1, Invariant, PTL

\* Elevation needs leave, from the configuration or from the manifest.
THEOREM ElevationAuthorised == Spec => []ElevationIsAuthorised
  <1>1. IInv => ElevationIsAuthorised
    BY DEF IInv, RightsOK, ElevationIsAuthorised
  <1>2. QED
    BY <1>1, Invariant, PTL

\* A payload that needs administrator rights has them.
THEOREM RightsSufficient == Spec => []RightsSuffice
  <1>1. IInv => RightsSuffice
    BY DEF IInv, RightsOK, RightsSuffice
  <1>2. QED
    BY <1>1, Invariant, PTL

\* Run says nil only when it was stopped.
THEOREM ExitHonest == Spec => []ExitIsHonest
  <1>1. IInv => ExitIsHonest
    BY DEF IInv
  <1>2. QED
    BY <1>1, Invariant, PTL

\* The pauses stay within their bounds.
THEOREM BackoffBounded == Spec => []BackoffInBounds
  <1>1. IInv => BackoffInBounds
    BY DEF IInv
  <1>2. QED
    BY <1>1, Invariant, PTL

\* Only a payload that stayed up makes the back-off smaller: the loop's other
\* steps leave it alone or, in DelayOver, let it grow.
LEMMA ShrinkStep ==
    ASSUME IInv, [Next]_vars, backoff' < backoff, {pc, pc'} \subseteq Supervising
    PROVE  healthy
  <1>0. /\ conf \in Configs /\ backoff \in Duration
        /\ pc \in Supervising /\ pc' \in Supervising
        /\ backoff \in minBackoff(conf)..maxBackoff(conf)
    BY DEF IInv, TypeOK, BackoffInBounds
  <1>1. backoff' # backoff
    BY <1>0 DEF Duration
  <1>2. RunStep
    BY <1>0, <1>1 DEF Next, Environment, Stop, Restart, PayloadExits, StaysUp, Settle, SignOut,
                      Connect, SignIn, memory, vars, Supervising
  <1>3. ~DelayOver
    <2>1. SUFFICES ASSUME DelayOver PROVE FALSE
      OBVIOUS
    <2>2. /\ backoff \in 1..maxBackoff(conf)
          /\ maxBackoff(conf) \in 1..MaxDuration
      BY <1>0, BoundsOrdered, MaxDurationAssumption
    <2>3. backoff' \in backoff..maxBackoff(conf)
      BY <2>1, <2>2, GrowBounded DEF DelayOver
    <2>4. QED
      BY <2>2, <2>3
  <1>4. Close
    BY <1>0, <1>1, <1>2, <1>3
    DEF RunStep, Start, CheckStopped, CheckPasses, CheckFails, CheckAgain, Stat, Loop,
        SessionReady, SessionStopped, SessionUnsupported, LaunchOk, LaunchFails, SignInAgain,
        WaitEnds, SleepStopped, memory, Supervising
  <1>5. QED
    BY <1>1, <1>4 DEF Close

\* A crash loop never speeds up.
THEOREM BackoffShrinks == Spec => BackoffShrinksOnlyWhenHealthy
  <1>1. IInv /\ [Next]_vars =>
          [backoff' < backoff /\ {pc, pc'} \subseteq Supervising => healthy]_vars
    BY ShrinkStep
  <1>2. QED
    BY <1>1, Invariant, PTL DEF Spec, BackoffShrinksOnlyWhenHealthy

\* Run goes on without a result, or is over and has one; it takes no step then.
LEMMA RunGoesOnOrEnds ==
    ASSUME RunStep
    PROVE  /\ pc # "exited" /\ UNCHANGED <<cancelled, calm>>
           /\ \/ pc' # "exited" /\ UNCHANGED exit
              \/ pc' = "exited" /\ exit' \in {"nil", "error"}
  <1> USE DEF Goto, Return, machine
  <1>1. CASE Start
    BY <1>1 DEF Start
  <1>2. CASE CheckStopped \/ CheckPasses \/ CheckFails \/ CheckAgain
    BY <1>2 DEF CheckStopped, CheckPasses, CheckFails, CheckAgain
  <1>3. CASE Stat \/ Loop
    BY <1>3 DEF Stat, Loop
  <1>4. CASE SessionReady \/ SessionStopped \/ SessionUnsupported
    BY <1>4 DEF SessionReady, SessionStopped, SessionUnsupported
  <1>5. CASE LaunchOk
    BY <1>5 DEF LaunchOk
  <1>6. CASE LaunchFails
    BY <1>6 DEF LaunchFails
  <1>7. CASE SignInAgain \/ DelayOver \/ WaitEnds
    BY <1>7 DEF SignInAgain, DelayOver, WaitEnds
  <1>8. CASE Close \/ SleepStopped
    BY <1>8 DEF Close, SleepStopped
  <1>9. QED
    BY <1>1, <1>2, <1>3, <1>4, <1>5, <1>6, <1>7, <1>8 DEF RunStep

-----------------------------------------------------------------------------
(* How soon a stop ends Run.                                                *)

\* The steps Run may still take once it is stopped, from each of its places.
\* A session that is ready wins over the stop, so a launch may still come.
StopRank ==
    CASE pc = "session" -> 4
      [] pc \in {"start", "launch"} -> 3
      [] pc \in {"checkSleep", "stat", "signIn", "delay", "wait"} -> 2
      [] pc \in {"check", "loop", "close"} -> 1
      [] pc = "exited" -> 0

\* While the stop stands, every step of Run brings its end nearer, and nobody
\* else's step takes it further away: it goes round its loop, waits in a sleep
\* and launches at most once more.
StopIsPrompt ==
    [][cancelled /\ cancelled' =>
          /\ StopRank' \in 0..StopRank
          /\ RunStep => StopRank' < StopRank]_vars

LEMMA RankCounts == TypeOK => StopRank \in 0..4
  BY DEF TypeOK, StopRank, Supervising

\* Where Run's own steps lead once it is stopped.
LEMMA StoppedStep ==
    ASSUME cancelled, RunStep
    PROVE  \/ pc = "start" /\ pc' \in {"exited", "check", "stat"}
           \/ pc = "session" /\ pc' \in {"exited", "launch"}
           \/ pc = "launch" /\ pc' \in {"exited", "loop", "signIn", "delay", "wait"}
           \/ pc = "checkSleep" /\ pc' \in {"exited", "check"}
           \/ pc \in {"stat", "signIn", "delay"} /\ pc' \in {"exited", "loop"}
           \/ pc = "wait" /\ pc' = "close"
           \/ pc \in {"check", "loop", "close"} /\ pc' = "exited"
  <1> USE DEF Goto, Return
  <1>1. CASE Start
    BY <1>1 DEF Start
  <1>2. CASE CheckStopped \/ CheckPasses \/ CheckFails \/ CheckAgain
    BY <1>2 DEF CheckStopped, CheckPasses, CheckFails, CheckAgain
  <1>3. CASE Stat \/ Loop \/ SessionReady \/ SessionStopped \/ SessionUnsupported
    BY <1>3 DEF Stat, Loop, SessionReady, SessionStopped, SessionUnsupported
  <1>4. CASE LaunchOk
    BY <1>4 DEF LaunchOk
  <1>5. CASE LaunchFails
    BY <1>5 DEF LaunchFails
  <1>6. CASE SignInAgain \/ DelayOver \/ WaitEnds \/ Close \/ SleepStopped
    BY <1>6 DEF SignInAgain, DelayOver, WaitEnds, Close, SleepStopped
  <1>7. QED
    BY <1>1, <1>2, <1>3, <1>4, <1>5, <1>6 DEF RunStep

\* A stop is honoured within four steps of Run (Run's loop, sleep and Wait,
\* supervisor.go:170-259, 328-333): the bound behind StopIsHonoured, from
\* which fairness makes the promise.
THEOREM StopPrompt == Spec => StopIsPrompt
  <1>1. ASSUME TypeOK, TypeOK', [Next]_vars, cancelled, cancelled'
        PROVE  StopRank' \in 0..StopRank /\ (RunStep => StopRank' < StopRank)
    <2>1. CASE RunStep
      <3>1. StopRank \in 0..4
        BY <1>1, RankCounts
      <3>2. StopRank' \in 0..4
        BY <1>1 DEF TypeOK, StopRank, Supervising
      <3>3. StopRank' < StopRank
        BY <1>1, <2>1, StoppedStep DEF StopRank
      <3>4. QED
        BY <1>1, <2>1, <3>1, <3>2, <3>3
    <2>2. CASE ~RunStep
      <3>1. pc' = pc
        BY <1>1, <2>2 DEF Next, Environment, Stop, Restart, PayloadExits, StaysUp, Settle,
                          SignOut, Connect, SignIn, vars
      <3>2. StopRank' = StopRank
        BY <3>1 DEF StopRank
      <3>3. QED
        BY <1>1, <2>2, <3>2, RankCounts
    <2>3. QED
      BY <2>1, <2>2
  <1>2. QED
    BY <1>1, TypeCorrect, PTL DEF Spec, StopIsPrompt

-----------------------------------------------------------------------------
(* Elevation is raised once, and what makes Run give up.                    *)

\* The signed-in user's token has no rights to launch with, or the deployment
\* refuses to use them, while the configuration or the manifest asks for them.
CannotElevate(u) ==
    /\ u # NoUser
    /\ ~TokenOf[u].isElevated
    /\ \/ TokenOf[u].kind = elevationDefault /\ (conf.LaunchElevated \/ demands)
       \/ conf.DisableAutoElevate /\ demands

\* On Windows a Run that supervises gives up of its own accord only where
\* elevation was asked for and cannot be had: no failed launch, no crash, no
\* broken wait and no sign-out ends it, however often they come
\* (supervisor.go:198-241).
GivesUpOnlyOnElevation ==
    [][~cancelled /\ conf.windows /\ pc \in Supervising /\ pc' = "exited"
          => pc = "launch" /\ CannotElevate(users[sid])]_vars

\* An elevated launch is refused no more: with a token that has rights it has them.
LEMMA ElevatedLaunch ==
    ASSUME NEW u \in User \cup {NoUser}
    PROVE  LaunchResult(u, TRUE) # "elevationRequired"
  <1>1. CASE u = NoUser
    BY <1>1 DEF LaunchResult
  <1>2. CASE u # NoUser /\ ~HasElevated(TokenOf[u])
    BY <1>2 DEF LaunchResult
  <1>3. CASE u \in User /\ HasElevated(TokenOf[u])
    <2>1. TokenOf[u].kind = elevationFull => TokenOf[u].isElevated
      BY <1>3, UserAssumption
    <2>2. LaunchesAsAdmin(TokenOf[u], TRUE)
      BY <1>3, <2>1 DEF HasElevated, LaunchesAsAdmin, chooseElevation, elevationFull,
                        elevationLimited
    <2>3. QED
      BY <1>3, <2>2, UserAssumption DEF LaunchResult
  <1>4. QED
    BY <1>1, <1>2, <1>3

\* Who cannot be launched for: a refusal and the lack of a token, in terms of the
\* user's token.
LEMMA RefusedUser ==
    ASSUME NEW u \in User \cup {NoUser}, NEW e \in BOOLEAN, demands \in BOOLEAN
    PROVE  /\ LaunchResult(u, e) = "noToken" =>
                 /\ e /\ u # NoUser
                 /\ TokenOf[u].kind = elevationDefault /\ ~TokenOf[u].isElevated
           /\ LaunchResult(u, e) = "elevationRequired" =>
                 ~e /\ demands /\ u # NoUser /\ ~TokenOf[u].isElevated
  <1>1. ASSUME u # NoUser
        PROVE  TokenOf[u].kind \in elevationDefault..elevationLimited
    <2>1. TokenOf[u] \in Token
      BY <1>1, UserAssumption
    <2>2. QED
      BY <2>1 DEF Token
  <1>2. ASSUME LaunchResult(u, e) = "noToken"
        PROVE  /\ e /\ u # NoUser
               /\ TokenOf[u].kind = elevationDefault /\ ~TokenOf[u].isElevated
    <2>1. e /\ u # NoUser /\ ~HasElevated(TokenOf[u])
      BY <1>2 DEF LaunchResult
    <2>2. QED
      BY <1>1, <2>1 DEF HasElevated, chooseElevation, elevationDefault, elevationFull,
                        elevationLimited
  <1>3. ASSUME LaunchResult(u, e) = "elevationRequired"
        PROVE  ~e /\ demands /\ u # NoUser /\ ~TokenOf[u].isElevated
    <2>1. e = FALSE
      BY <1>3, ElevatedLaunch
    <2>2. demands /\ u # NoUser /\ ~LaunchesAsAdmin(TokenOf[u], e)
      BY <1>3 DEF LaunchResult
    <2>3. QED
      BY <2>1, <2>2 DEF LaunchesAsAdmin
  <1>4. QED
    BY <1>2, <1>3

\* Launches are refused at most once in a Run.
THEOREM ElevateOnce == Spec => RaisedOnce
  <1>1. ASSUME IInv, [Next]_vars, {pc, pc'} \subseteq Supervising, elevate
        PROVE  /\ elevate'
               /\ pc = "launch" => LaunchResult(users[sid], elevate) # "elevationRequired"
    <2>1. elevate = TRUE /\ pc \in Supervising /\ pc' \in Supervising
      BY <1>1 DEF IInv, TypeOK
    <2>2. elevate'
      <3>1. CASE RunStep
        BY <2>1, <3>1
        DEF RunStep, Start, CheckStopped, CheckPasses, CheckFails, CheckAgain, Stat, Loop,
            SessionReady, SessionStopped, SessionUnsupported, LaunchOk, LaunchFails, SignInAgain,
            DelayOver, WaitEnds, Close, SleepStopped, memory, Supervising
      <3>2. CASE ~RunStep
        BY <1>1, <2>1, <3>2
        DEF Next, Environment, Stop, Restart, PayloadExits, StaysUp, Settle, SignOut,
            Connect, SignIn, memory, vars, Supervising
      <3>3. QED
        BY <3>1, <3>2
    <2>3. ASSUME pc = "launch"
          PROVE  LaunchResult(users[sid], elevate) # "elevationRequired"
      <3>1. users[sid] \in User \cup {NoUser}
        BY <1>1, <2>3 DEF IInv, TypeOK, SidOK
      <3>2. QED
        BY <2>1, <3>1, ElevatedLaunch
    <2>4. QED
      BY <2>2, <2>3
  <1>2. QED
    BY <1>1, Invariant, PTL DEF Spec, RaisedOnce

\* Accidents, crashes and sign-outs never end a Run on Windows.
THEOREM GivesUpRightly == Spec => GivesUpOnlyOnElevation
  <1>1. ASSUME IInv, [Next]_vars, ~cancelled, conf.windows, pc \in Supervising,
               pc' = "exited"
        PROVE  pc = "launch" /\ CannotElevate(users[sid])
    <2>1. RunStep
      BY <1>1 DEF Next, Environment, Stop, Restart, PayloadExits, StaysUp, Settle, SignOut,
                  Connect, SignIn, vars, Supervising
    <2>2. LaunchFails
      BY <1>1, <2>1
      DEF RunStep, Start, CheckStopped, CheckPasses, CheckFails, CheckAgain, Stat, Loop,
          SessionReady, SessionStopped, SessionUnsupported, LaunchOk, SignInAgain,
          DelayOver, WaitEnds, Close, SleepStopped, Goto, Return, Supervising
    <2>3. /\ pc = "launch" /\ users[sid] \in User \cup {NoUser}
          /\ elevate \in BOOLEAN /\ demands \in BOOLEAN
          /\ elevate => conf.LaunchElevated \/ (demands /\ ~conf.DisableAutoElevate)
      BY <1>1, <2>2 DEF LaunchFails, IInv, TypeOK, SidOK, ElevateOK
    <2>4. \/ LaunchResult(users[sid], elevate) = "noToken"
          \/ /\ LaunchResult(users[sid], elevate) = "elevationRequired"
             /\ elevate \/ conf.DisableAutoElevate
      BY <1>1, <2>2 DEF LaunchFails, Goto, Return, shouldAutoElevate
    <2>5. QED
      BY <2>3, <2>4, RefusedUser DEF CannotElevate
  <1>2. QED
    BY <1>1, Invariant, PTL DEF Spec, GivesUpOnlyOnElevation

-----------------------------------------------------------------------------
(* How soon a payload comes up.                                             *)

\* A launch for somebody who has signed out since the lookup.
Stale == pc = "launch" /\ users[sid] = NoUser

\* The steps Run may still take until it waits for a payload or is over, once
\* nothing fails by accident.  A stale launch, and one that has to be repeated
\* elevated, each cost one more turn of the loop.
StepsTo(place, up, stale) ==
    CASE place \in {"start", "checkSleep"} -> 9
      [] place = "check" -> 8
      [] place = "stat" -> 7
      [] place \in {"wait", "exited"} -> 0
      [] OTHER -> (IF up THEN 0 ELSE 3)
                  + (CASE place = "close" \/ stale -> 5
                       [] place \in {"delay", "signIn"} -> 4
                       [] place = "loop" -> 3
                       [] place = "session" -> 2
                       [] OTHER -> 1)

UpRank == StepsTo(pc, elevate, Stale)

\* Once the environment is calm every step of a Run that may ask for users'
\* tokens, but the one that ends a wait for a payload, brings the next payload or the end of Run nearer; nobody
\* else's step, but a restart, takes it further away.
ComesUpSoon ==
    [][calm /\ conf.LocalSystem =>
          /\ RunStep /\ pc # "wait" => UpRank' < UpRank
          /\ ~RunStep /\ ~Restart => UpRank' = UpRank]_vars

LEMMA StepsToCounts ==
    ASSUME NEW up \in BOOLEAN, NEW stale \in BOOLEAN
    PROVE  /\ StepsTo("start", up, stale) = 9 /\ StepsTo("checkSleep", up, stale) = 9
           /\ StepsTo("check", up, stale) = 8 /\ StepsTo("stat", up, stale) = 7
           /\ StepsTo("wait", up, stale) = 0 /\ StepsTo("exited", up, stale) = 0
           /\ StepsTo("close", up, stale) = (IF up THEN 5 ELSE 8)
           /\ ~stale => /\ StepsTo("delay", up, stale) = (IF up THEN 4 ELSE 7)
                        /\ StepsTo("signIn", up, stale) = (IF up THEN 4 ELSE 7)
                        /\ StepsTo("loop", up, stale) = (IF up THEN 3 ELSE 6)
                        /\ StepsTo("session", up, stale) = (IF up THEN 2 ELSE 5)
           /\ StepsTo("launch", up, stale) = (IF stale THEN 5 ELSE 1) + (IF up THEN 0 ELSE 3)
  BY DEF StepsTo

\* A launch, of somebody who is still there or of somebody who is not.
LEMMA LaunchComesUp ==
    ASSUME IInv, calm, conf.LocalSystem, LaunchOk \/ LaunchFails
    PROVE  UpRank' < UpRank
  <1>0. /\ pc = "launch" /\ elevate \in BOOLEAN /\ Stale \in BOOLEAN
        /\ users[sid] \in User \cup {NoUser} /\ calm = TRUE
        /\ conf.LocalSystem = TRUE
    BY ConfigAssumption DEF LaunchOk, LaunchFails, IInv, TypeOK, SidOK, Stale, Config
  <1>1. UpRank = (IF Stale THEN 5 ELSE 1) + (IF elevate THEN 0 ELSE 3)
    BY <1>0, StepsToCounts DEF UpRank
  <1>2. CASE pc' \in {"wait", "exited"} /\ elevate' = elevate
    <2>1. Stale' = FALSE
      BY <1>2 DEF Stale
    <2>2. UpRank' = 0
      BY <1>0, <1>2, <2>1, StepsToCounts DEF UpRank
    <2>3. QED
      BY <1>1, <2>2
  <1>3. CASE LaunchFails /\ pc' = "loop" /\ elevate = FALSE /\ elevate' = TRUE
    <2>1. Stale' = FALSE
      BY <1>3 DEF Stale
    <2>2. UpRank' = 3
      BY <1>3, <2>1, StepsToCounts DEF UpRank
    <2>3. QED
      BY <1>1, <1>3, <2>2
  <1>4. CASE LaunchFails /\ pc' = "signIn" /\ elevate' = elevate /\ users[sid] = NoUser
    <2>1. Stale' = FALSE /\ Stale
      BY <1>0, <1>4 DEF Stale
    <2>2. UpRank' = IF elevate THEN 4 ELSE 7
      BY <1>0, <1>4, <2>1, StepsToCounts DEF UpRank
    <2>3. QED
      BY <1>1, <2>1, <2>2
  <1>5. \/ pc' \in {"wait", "exited"} /\ elevate' = elevate
        \/ LaunchFails /\ pc' = "loop" /\ elevate = FALSE /\ elevate' = TRUE
        \/ LaunchFails /\ pc' = "signIn" /\ elevate' = elevate /\ users[sid] = NoUser
    <2>1. CASE LaunchOk
      BY <2>1 DEF LaunchOk, Goto, memory
    <2>2. CASE LaunchFails
      <3>1. PICK err \in Results \ {"launched"} :
               /\ err = LaunchResult(users[sid], elevate)
               /\ \/ /\ err = "noToken" /\ Return("error") /\ UNCHANGED elevate
                  \/ /\ shouldAutoElevate(err, elevate, conf.DisableAutoElevate)
                     /\ elevate' = TRUE /\ Goto("loop")
                  \/ /\ err = "elevationRequired" /\ Return("error") /\ UNCHANGED elevate
                  \/ err = "noUser" /\ Goto("signIn") /\ UNCHANGED elevate
                  \/ err = "failed"
        BY <1>0, <2>2 DEF LaunchFails
      <3>2. err # "failed" /\ (err = "noUser" => users[sid] = NoUser)
        BY <1>0, <3>1 DEF LaunchResult
      <3>3. QED
        BY <1>0, <2>2, <3>1, <3>2 DEF Goto, Return, shouldAutoElevate
    <2>3. QED
      BY <2>1, <2>2
  <1>6. QED
    BY <1>2, <1>3, <1>4, <1>5

\* PayloadComesUp's safety half: from wherever Run is when the machine becomes
\* calm, nine of its own steps lead to a payload or to the end of Run
\* (supervisor.go:112-260).
THEOREM UpSoon == Spec => ComesUpSoon
  <1>1. ASSUME IInv, IInv', [Next]_vars, calm, conf.LocalSystem, RunStep, pc # "wait"
        PROVE  UpRank' < UpRank
    <2>0. /\ elevate \in BOOLEAN /\ elevate' \in BOOLEAN /\ calm = TRUE
          /\ Stale \in BOOLEAN /\ Stale' \in BOOLEAN
      BY <1>1 DEF IInv, TypeOK, Stale
    <2>1. CASE Start \/ CheckStopped \/ CheckPasses \/ CheckFails \/ CheckAgain
      <3>1. \/ pc = "start" /\ pc' \in {"exited", "check", "stat"}
            \/ pc = "check" /\ pc' \in {"exited", "stat"}
            \/ pc = "checkSleep" /\ pc' = "check"
        BY <2>0, <2>1 DEF Start, CheckStopped, CheckPasses, CheckFails, CheckAgain, Goto, Return
      <3>2. QED
        BY <2>0, <3>1, StepsToCounts DEF UpRank
    <2>2. CASE Stat
      <3>1. pc = "stat" /\ pc' \in {"exited", "loop"}
        BY <2>2 DEF Stat, Goto, Return
      <3>2. ~Stale'
        BY <3>1 DEF Stale
      <3>3. QED
        BY <2>0, <3>1, <3>2, StepsToCounts DEF UpRank
    <2>3. CASE Loop \/ SessionStopped \/ SessionUnsupported
      <3>1. /\ \/ pc = "loop" /\ pc' \in {"exited", "session"}
               \/ pc = "session" /\ pc' = "exited"
            /\ elevate' = elevate
        BY <2>3 DEF Loop, SessionStopped, SessionUnsupported, Goto, Return, memory
      <3>2. ~Stale /\ ~Stale'
        BY <3>1 DEF Stale
      <3>3. QED
        BY <2>0, <3>1, <3>2, StepsToCounts DEF UpRank
    <2>4. CASE SessionReady
      <3>1. /\ pc = "session" /\ pc' = "launch"
            /\ elevate' = elevate /\ users' = users /\ sid' \in ReadySessions
        BY <2>4 DEF SessionReady, Goto, machine
      <3>2. ~Stale /\ ~Stale'
        BY <1>1, <3>1 DEF Stale, ReadySessions, SignedIn
      <3>3. QED
        BY <2>0, <3>1, <3>2, StepsToCounts DEF UpRank
    <2>5. CASE LaunchOk \/ LaunchFails
      BY <1>1, <2>5, LaunchComesUp
    <2>6. CASE SignInAgain \/ DelayOver \/ Close \/ SleepStopped
      <3>1. /\ \/ pc \in {"signIn", "delay"} /\ pc' \in {"exited", "loop"}
               \/ pc = "checkSleep" /\ pc' = "exited"
               \/ pc = "close" /\ pc' \in {"exited", "delay"}
            /\ elevate' = elevate
        BY <2>6 DEF SignInAgain, DelayOver, Close, SleepStopped, Goto, Return, memory
      <3>2. ~Stale /\ ~Stale'
        BY <3>1 DEF Stale
      <3>3. QED
        BY <2>0, <3>1, <3>2, StepsToCounts DEF UpRank
    <2>7. CASE WaitEnds
      BY <1>1, <2>7 DEF WaitEnds
    <2>8. QED
      BY <1>1, <2>1, <2>2, <2>3, <2>4, <2>5, <2>6, <2>7 DEF RunStep
  <1>2. ASSUME IInv, [Next]_vars, calm, conf.LocalSystem, ~RunStep, ~Restart
        PROVE  UpRank' = UpRank
    <2>1. UNCHANGED <<pc, elevate, users, sid>>
      BY <1>2 DEF Next, Environment, Stop, PayloadExits, StaysUp, Settle, SignOut, Connect,
                  SignIn, machine, memory, vars
    <2>2. QED
      BY <2>1 DEF UpRank, Stale
  <1>3. QED
    BY <1>1, <1>2, Invariant, PTL DEF Spec, ComesUpSoon
=============================================================================
