-------------------------- MODULE LifecycleProofs --------------------------
(* What start-up, shutdown and the probes do to a process and what health  *)
(* answers and the dashboard show of it, for every threshold,              *)
(* configuration and number of polls.                                      *)
EXTENDS Dashboard, TLAPS

(* TypeOK, with what else bounds the count of failures.                    *)
TInv == /\ TypeOK
        /\ probe # "none" => fails < Threshold

LEMMA TypeStart == Init => TInv
  BY LifecycleAssumption DEF Init, TInv, TypeOK, NoChecks, Backends

LEMMA TypeStep == TInv /\ [Next]_vars => TInv'
<1> SUFFICES ASSUME TInv, [Next]_vars PROVE TInv'
  OBVIOUS
<1> USE LifecycleAssumption DEF TInv, TypeOK, Backends, process, probing, history, Start
<1>1. ASSUME NEW b \in Backends, Fail(b) PROVE TInv'
  <2>1. silent' \in SUBSET Backends
    BY <1>1 DEF Fail, Hung
  <2> QED
    BY <1>1, <2>1 DEF Fail, Trip
<1>2. ASSUME NEW b \in Backends, Recover(b) PROVE TInv'
  BY <1>2 DEF Recover
<1>13. CASE SiblingCreates
  BY <1>13 DEF SiblingCreates, Trip
<1>3. CASE Connect \/ LookForTable
  BY <1>3 DEF Connect, LookForTable, Up
<1>14. CASE CreateTable
  BY <1>14 DEF CreateTable
<1>4. CASE InitRedis
  BY <1>4 DEF InitRedis, Up
<1>5. CASE StartupKill \/ LivenessKill
  <2>1. Restart
    BY <1>5 DEF StartupKill, LivenessKill
  <2>2. NoChecks \in [Backends -> {"none", "UP", "DOWN", "NOT_CONFIGURED"}]
    BY DEF NoChecks
  <2> QED
    BY <2>1, <2>2 DEF Restart, Up
<1>6. CASE Probe
  <2>1. NoChecks \in [Backends -> {"none", "UP", "DOWN", "NOT_CONFIGURED"}]
    BY DEF NoChecks
  <2>2. Up \in SUBSET Backends /\ Hung \in SUBSET Backends
    BY DEF Up, Hung
  <2> QED
    BY <1>6, <2>1, <2>2 DEF Probe
<1>7. ASSUME NEW b \in Backends, NEW next \in {"pg", "answer"}, Check(b, next) PROVE TInv'
  BY <1>7 DEF Check
<1>8. ASSUME NEW bad \in BOOLEAN, probe # "none", Failed(bad) PROVE TInv'
  BY <1>8 DEF Failed
<1>9. CASE Answer
  <2>1. (StatusCode = 503) \in BOOLEAN
    OBVIOUS
  <2> QED
    BY <1>8, <1>9, <2>1 DEF Answer
<1>10. CASE Timeout
  <2>1. probe # "none"
    BY <1>10 DEF Timeout
  <2> QED
    BY <1>8, <1>10, <2>1 DEF Timeout
<1>11. CASE UNCHANGED vars
  BY <1>11 DEF vars
<1> QED
  BY <1>1, <1>2, <1>13, <1>3, <1>14, <1>4, <1>5, <1>6, <1>7, <1>9, <1>10, <1>11 DEF Next

LEMMA Typed == Spec => []TInv
  BY TypeStart, TypeStep, PTL DEF Spec

(* The variables of the process, the probes and the backends keep their types. *)
THEOREM TypeCorrect == Spec => []TypeOK
  BY Typed, PTL DEF TInv

-----------------------------------------------------------------------------
(* What excuses the failures on record: of what the process has, none has  *)
(* been up since, or some was silent.                                      *)
Excused == have # {} /\ (have \intersect steady = {} \/ have \intersect silent # {})

(* The history is right about the present, and no check of the probe under *)
(* way says otherwise; what is checked and not reported missing is what    *)
(* the process has; failures on record are excused.                        *)
RInv == /\ steady \subseteq Up
        /\ probe # "none" \/ fails > 0 => Hung \subseteq silent
        /\ phase # "up" => probe = "none" /\ fails = 0
        /\ probe # "none" => \A b \in Backends : checks[b] = "DOWN" => b \notin steady
        /\ probe \in {"pg", "answer"} => (checks["redis"] = "NOT_CONFIGURED" <=> "redis" \notin have)
        /\ probe = "answer" => (checks["pg"] = "NOT_CONFIGURED" <=> "pg" \notin have)
        /\ fails > 0 => Excused

(* Steps that leave the backends and the history alone.                    *)
LEMMA SameHistory == ASSUME UNCHANGED <<backend, history>>, RInv
                     PROVE  (steady \subseteq Up)' /\ Hung' = Hung
  BY DEF RInv, Up, Hung, history

LEMMA RestartStep == ASSUME TInv, RInv, [Next]_vars PROVE RInv'
<1> USE LifecycleAssumption DEF TInv, TypeOK, Backends, process, probing, history
<1>1. ASSUME NEW b \in Backends, Fail(b) PROVE RInv'
  <2>1. /\ steady' = steady \ {b} /\ silent' = silent \union Hung'
        /\ \A c \in Backends \ {b} : backend'[c] = backend[c]
    BY <1>1 DEF Fail
  <2>2. (steady \subseteq Up)'
    BY <2>1 DEF RInv, Up
  <2>3. Excused => Excused'
    BY <1>1, <2>1 DEF Fail, Excused
  <2> QED
    BY <1>1, <2>1, <2>2, <2>3 DEF Fail, RInv
<1>2. ASSUME NEW b \in Backends, Recover(b) PROVE RInv'
  <2>1. backend'[b] = "up" /\ \A c \in Backends \ {b} : backend'[c] = backend[c]
    BY <1>2 DEF Recover
  <2>2. (steady \subseteq Up)'
    BY <1>2, <2>1 DEF Recover, RInv, Up
  <2>3. Hung' \subseteq Hung
    BY <2>1 DEF Hung
  <2> QED
    BY <1>2, <2>2, <2>3 DEF Recover, RInv, Excused
<1>13. CASE SiblingCreates
  BY <1>13, SameHistory DEF SiblingCreates, RInv, Excused
<1>3. CASE Connect \/ LookForTable \/ CreateTable \/ InitRedis
  <2>1. phase # "up" /\ UNCHANGED <<backend, probing, history>>
    BY <1>3 DEF Connect, LookForTable, CreateTable, InitRedis, Start
  <2>2. probe = "none" /\ fails = 0
    BY <2>1 DEF RInv
  <2> QED
    BY <2>1, <2>2, SameHistory DEF RInv
<1>4. CASE StartupKill \/ LivenessKill
  <2>1. Restart
    BY <1>4 DEF StartupKill, LivenessKill
  <2> QED
    BY <2>1, SameHistory DEF Restart, RInv
<1>5. CASE Probe
  <2>1. checks' = [b \in Backends |-> "none"]
    BY <1>5 DEF Probe, NoChecks
  <2>2. (steady \subseteq Up)'
    BY <1>5 DEF Probe, RInv, Up
  <2>3. (Hung \subseteq silent)'
    BY <1>5 DEF Probe, RInv, Hung
  <2>4. (fails > 0 => Excused)'
    BY <1>5 DEF Probe, RInv, Excused
  <2> QED
    BY <1>5, <2>1, <2>2, <2>3, <2>4 DEF Probe, RInv
<1>6. CASE Check("redis", "pg")
  BY <1>6, SameHistory DEF Check, RInv, Up, Excused
<1>7. CASE Check("pg", "answer")
  BY <1>7, SameHistory DEF Check, RInv, Up, Excused
<1>8. ASSUME NEW bad \in BOOLEAN, probe # "none", bad => Excused, Failed(bad) PROVE RInv'
  <2>1. (fails > 0 => Excused)'
    BY <1>8 DEF Failed, Excused
  <2> QED
    BY <1>8, <2>1, SameHistory DEF Failed, RInv
<1>9. CASE Answer
  <2>1. StatusCode = 503 => Excused
    <3>1. ASSUME StatusCode = 503 PROVE Used # {} /\ \A b \in Used : checks[b] = "DOWN"
      BY <3>1 DEF StatusCode
    <3>2. Used = have
      <4>1. \A b \in Backends : b \in Used <=> b \in have
        BY <1>9 DEF Answer, RInv, Used
      <4> QED
        BY <4>1 DEF Used
    <3> QED
      BY <1>9, <3>1, <3>2 DEF Answer, RInv, Excused
  <2>2. (StatusCode = 503) \in BOOLEAN
    OBVIOUS
  <2> QED
    BY <1>8, <1>9, <2>1, <2>2 DEF Answer
<1>10. CASE Timeout
  <2>1. probe \in have \intersect Hung
    BY <1>10 DEF Timeout, Hung
  <2>2. Excused
    BY <1>10, <2>1 DEF Timeout, RInv, Excused
  <2>3. probe # "none" /\ Failed(TRUE)
    BY <1>10 DEF Timeout
  <2> QED
    BY <1>8, <2>2, <2>3
<1>11. CASE UNCHANGED vars
  BY <1>11, SameHistory DEF vars, RInv, Excused
<1> QED
  BY <1>1, <1>2, <1>13, <1>3, <1>4, <1>5, <1>6, <1>7, <1>9, <1>10, <1>11 DEF Next

(* The liveness probe never kills a process one of whose backends has      *)
(* worked ever since the failures began, unless one was silent meanwhile.  *)
THEOREM RestartIsNeeded == Spec => []NoNeedlessRestart
<1>1. Init => RInv
  BY DEF Init, RInv
<1>2. TInv /\ RInv /\ [Next]_vars => RInv'
  BY RestartStep
<1>3. TInv /\ RInv => NoNeedlessRestart
  BY LifecycleAssumption DEF TInv, RInv, NoNeedlessRestart, Excused
<1> QED
  BY <1>1, <1>2, <1>3, Typed, PTL DEF Spec

-----------------------------------------------------------------------------
(* What the history of a probe says of the present, and the checks made of *)
(* what it says.                                                           *)
LInv == /\ upAll \subseteq Up /\ downAll \intersect Up = {}
        /\ probe # "none" => \A b \in Backends : /\ checks[b] = "UP" => b \notin downAll
                                                 /\ checks[b] = "DOWN" => b \notin upAll

LEMMA LiveStep == ASSUME TInv, LInv, [Next]_vars PROVE LInv'
<1> USE LifecycleAssumption DEF TInv, TypeOK, Backends, process, probing, history
<1>1. ASSUME NEW b \in Backends, Fail(b) \/ Recover(b) PROVE LInv'
  <2>1. CASE Fail(b)
    <3>1. \A c \in Backends \ {b} : backend'[c] = backend[c]
      BY <2>1 DEF Fail
    <3>2. (upAll \subseteq Up /\ downAll \intersect Up = {})'
      BY <2>1, <3>1 DEF Fail, LInv, Up
    <3> QED
      BY <2>1, <3>2 DEF Fail, LInv
  <2>2. CASE Recover(b)
    <3>1. \A c \in Backends \ {b} : backend'[c] = backend[c]
      BY <2>2 DEF Recover
    <3>2. (upAll \subseteq Up /\ downAll \intersect Up = {})'
      BY <2>2, <3>1 DEF Recover, LInv, Up
    <3> QED
      BY <2>2, <3>2 DEF Recover, LInv
  <2> QED
    BY <1>1, <2>1, <2>2
<1>2. CASE SiblingCreates \/ Connect \/ LookForTable \/ CreateTable \/ InitRedis
  BY <1>2 DEF SiblingCreates, Connect, LookForTable, CreateTable, InitRedis, Start, LInv, Up
<1>3. CASE StartupKill \/ LivenessKill
  BY <1>3 DEF StartupKill, LivenessKill, Restart, LInv, Up
<1>4. CASE Probe
  <2>1. checks' = [b \in Backends |-> "none"]
    BY <1>4 DEF Probe, NoChecks
  <2>2. (upAll \subseteq Up /\ downAll \intersect Up = {})'
    BY <1>4 DEF Probe, Up
  <2> QED
    BY <2>1, <2>2 DEF LInv
<1>5. ASSUME NEW b \in Backends, NEW next \in {"pg", "answer"}, Check(b, next) PROVE LInv'
  <2>1. Up' = Up /\ upAll' = upAll /\ downAll' = downAll /\ probe # "none"
    BY <1>5 DEF Check, Up
  <2>2. /\ checks'[b] = "UP" => b \in Up
        /\ checks'[b] = "DOWN" => b \notin Up
        /\ \A c \in Backends \ {b} : checks'[c] = checks[c]
    BY <1>5 DEF Check, Up
  <2> QED
    BY <2>1, <2>2 DEF LInv
<1>6. CASE Answer \/ Timeout
  BY <1>6 DEF Answer, Timeout, Failed, LInv, Up
<1>7. CASE UNCHANGED vars
  BY <1>7 DEF vars, LInv, Up
<1> QED
  BY <1>1, <1>2, <1>3, <1>4, <1>5, <1>6, <1>7 DEF Next

(* A health answer is about the backends as they were while it was made:   *)
(* what it calls UP was there at some time, what it calls DOWN was not.    *)
THEOREM AnswersAreLive == Spec => []ChecksAreLive
<1>1. Init => LInv
  BY DEF Init, LInv
<1>2. TInv /\ LInv /\ [Next]_vars => LInv'
  BY LiveStep
<1>3. LInv => ChecksAreLive
  BY DEF LInv, ChecksAreLive
<1> QED
  BY <1>1, <1>2, <1>3, Typed, PTL DEF Spec

-----------------------------------------------------------------------------
(* During a start-up: what is away has tripped it, so has a table that came *)
(* between the look and the creation, and PostgreSQL is not missed without. *)
SInv == phase # "up" =>
          /\ Backends \ Up \subseteq tripped
          /\ phase = "create" /\ table => "pg" \in tripped
          /\ phase = "redis" /\ "pg" \in Configured \ have => "pg" \in tripped

LEMMA StartStep == ASSUME TInv, SInv, [Next]_vars PROVE SInv'
<1> USE LifecycleAssumption DEF TInv, TypeOK, Backends, process, probing, history, Start
<1>1. ASSUME NEW b \in Backends, Fail(b) PROVE SInv'
  <2>1. \A c \in Backends \ {b} : backend'[c] = backend[c]
    BY <1>1 DEF Fail
  <2> QED
    BY <1>1, <2>1 DEF Fail, Trip, SInv, Up
<1>2. ASSUME NEW b \in Backends, Recover(b) PROVE SInv'
  <2>1. \A c \in Backends \ {b} : backend'[c] = backend[c]
    BY <1>2 DEF Recover
  <2>2. backend'[b] = "up"
    BY <1>2 DEF Recover
  <2> QED
    BY <1>2, <2>1, <2>2 DEF Recover, SInv, Up
<1>3. CASE SiblingCreates
  BY <1>3 DEF SiblingCreates, Trip, SInv, Up
<1>4. CASE Connect \/ LookForTable
  BY <1>4 DEF Connect, LookForTable, SInv, Up
<1>5. CASE CreateTable
  BY <1>5 DEF CreateTable, SInv, Up
<1>6. CASE InitRedis
  BY <1>6 DEF InitRedis, SInv
<1>7. CASE StartupKill \/ LivenessKill
  BY <1>7 DEF StartupKill, LivenessKill, Restart, SInv, Up
<1>8. CASE Probe \/ Answer \/ Timeout
  BY <1>8 DEF Probe, Answer, Timeout, Failed, SInv, Up
<1>9. ASSUME NEW b \in Backends, NEW next \in {"pg", "answer"}, Check(b, next) PROVE SInv'
  BY <1>9 DEF Check, SInv, Up
<1>10. CASE UNCHANGED vars
  BY <1>10 DEF vars, SInv, Up
<1> QED
  BY <1>1, <1>2, <1>3, <1>4, <1>5, <1>6, <1>7, <1>8, <1>9, <1>10 DEF Next

LEMMA ServingStep == ASSUME TInv, SInv, [Next]_vars, phase # "up", phase' = "up"
                     PROVE  Configured \ have' \subseteq tripped
<1> USE LifecycleAssumption DEF TInv, TypeOK, Backends, process, probing, history, Start
<1>1. InitRedis
  BY DEF Next, vars, Fail, Recover, SiblingCreates, Connect, LookForTable, CreateTable, StartupKill,
         LivenessKill, Restart, Probe, Check, Answer, Timeout, Failed
<1> QED
  BY <1>1 DEF InitRedis, SInv, Up

(* A backend that is configured and there all through a start-up is used   *)
(* from then on, for every order of the processes that create the table,   *)
(* unless one created it between another's look and its statement.         *)
THEOREM UndisturbedAreUsed == Spec => UndisturbedIsUsed
<1>1. Init => SInv
  BY DEF Init, SInv
<1>2. TInv /\ SInv /\ [Next]_vars => SInv'
  BY StartStep
<1>3. TInv /\ SInv /\ [Next]_vars
        => [phase # "up" /\ phase' = "up" => Configured \ have' \subseteq tripped]_vars
  BY ServingStep
<1> QED
  BY <1>1, <1>2, <1>3, Typed, PTL DEF Spec, UndisturbedIsUsed

-----------------------------------------------------------------------------
(* The dashboard's page.                                                   *)

LEMMA StatusType == \A b \in Backends : Status(b) \in Statuses \ {"?"}
  BY DEF Status, Statuses

(* A poll that ends, or is lost, leaves nothing behind.                    *)
LEMMA IdleType ==
  ASSUME PageTypeOK, NEW i \in Polls, Idle(i), shown' = shown \/ (poll[i] = "back" /\ shown' = infra[i])
  PROVE  PageTypeOK'
<1> USE DEF PageTypeOK, Backends
<1>1. Unknown \in [Backends -> Statuses] /\ Unknown["pg"] = "?" /\ Unknown["redis"] = "?"
  BY DEF Unknown, Statuses
<1>2. /\ poll' \in [Polls -> {"idle", "pg", "redis", "back"}]
      /\ infra' \in [Polls -> [Backends -> Statuses]]
  BY <1>1 DEF Idle
<1>3. \A j \in Polls : /\ poll'[j] \in {"idle", "pg"} <=> infra'[j]["pg"] = "?"
                       /\ poll'[j] = "back" <=> infra'[j]["redis"] # "?"
  BY <1>1 DEF Idle
<1>4. shown' \in [Backends -> Statuses] /\ (shown'["pg"] = "?" <=> shown'["redis"] = "?")
  OBVIOUS
<1> QED  BY <1>2, <1>3, <1>4

LEMMA CheckType ==
  ASSUME PageTypeOK, NEW i \in Polls,
         CheckInfra(i, "pg", "redis") \/ CheckInfra(i, "redis", "back")
  PROVE  PageTypeOK'
<1> USE DEF PageTypeOK, Backends
<1>1. ASSUME NEW b \in Backends, NEW v \in Statuses \ {"?"}, infra' = [infra EXCEPT ![i][b] = v]
      PROVE  /\ infra' \in [Polls -> [Backends -> Statuses]]
             /\ \A j \in Polls, c \in Backends : infra'[j][c] = IF j = i /\ c = b THEN v ELSE infra[j][c]
  <2>1. [infra[i] EXCEPT ![b] = v] \in [Backends -> Statuses]
    OBVIOUS
  <2> QED  BY <1>1, <2>1
<1>2. CASE CheckInfra(i, "pg", "redis")
  <2>1. PICK v \in Statuses \ {"?"} : infra' = [infra EXCEPT ![i]["pg"] = v]
    BY <1>2, StatusType DEF CheckInfra
  <2> QED  BY <1>1, <1>2, <2>1 DEF CheckInfra
<1>3. CASE CheckInfra(i, "redis", "back")
  <2>1. PICK v \in Statuses \ {"?"} : infra' = [infra EXCEPT ![i]["redis"] = v]
    BY <1>3, StatusType DEF CheckInfra
  <2> QED  BY <1>1, <1>3, <2>1 DEF CheckInfra
<1> QED  BY <1>2, <1>3

LEMMA PageTypeStep == PageTypeOK /\ [PageNext]_allVars => PageTypeOK'
<1> SUFFICES ASSUME PageTypeOK, [PageNext]_allVars  PROVE PageTypeOK'
  OBVIOUS
<1>1. CASE Live
  <2>1. PICK kept \in SUBSET Polls :
          /\ poll' = [j \in Polls |-> IF j \in kept THEN poll[j] ELSE "idle"]
          /\ infra' = [j \in Polls |-> IF j \in kept THEN infra[j] ELSE Unknown]
    BY <1>1 DEF Live
  <2>2. Unknown \in [Backends -> Statuses] /\ Unknown["pg"] = "?" /\ Unknown["redis"] = "?"
    BY DEF Unknown, Statuses, Backends
  <2>3. shown' = shown  BY <1>1 DEF Live
  <2> QED  BY <2>1, <2>2, <2>3 DEF PageTypeOK
<1>2. ASSUME NEW i \in Polls, Poll(i)  PROVE PageTypeOK'
  BY <1>2 DEF Poll, PageTypeOK
<1>3. ASSUME NEW i \in Polls, Show(i) \/ Lose(i)  PROVE PageTypeOK'
  BY <1>3, IdleType DEF Show, Lose
<1>4. CASE UNCHANGED allVars
  BY <1>4 DEF allVars, page, PageTypeOK
<1> QED  BY <1>1, <1>2, <1>3, <1>4, CheckType DEF PageNext, Refresh

(* Whatever overlaps, is lost or is restarted, no answer is shown before   *)
(* it is complete.                                                         *)
THEOREM AnswersAreComplete == PageSpec => []PageTypeOK
<1>1. PageInit => PageTypeOK
  BY DEF PageInit, PageTypeOK, Unknown, Statuses, Backends
<1> QED  BY <1>1, PageTypeStep, PTL DEF PageSpec
=============================================================================
