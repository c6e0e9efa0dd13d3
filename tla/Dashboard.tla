------------------------------ MODULE Dashboard ------------------------------
(***************************************************************************)
(* The dashboard over the life of the process that serves it: every five   *)
(* seconds app/static/js/realtime.js asks /api/status (routers/home.py) and *)
(* shows what comes back, whether or not its earlier polls were answered,  *)
(* and in the order in which the answers come.                             *)
(***************************************************************************)
EXTENDS Lifecycle

CONSTANT Polls  \* polls that may be under way at once

VARIABLES poll,  \* poll[i]: idle; its next check; "back" with an answer
          infra, \* infra[i]: the statuses its answer is made of
          shown  \* what the page says of each backend

page == <<poll, infra, shown>>
allVars == <<vars, page>>

Statuses == {"?", "Connected", "Down", "Not Configured"}
Unknown == [b \in Backends |-> "?"]

PageInit == /\ Init
            /\ poll = [i \in Polls |-> "idle"]
            /\ infra = [i \in Polls |-> Unknown]
            /\ shown = Unknown

Idle(i) == /\ poll' = [poll EXCEPT ![i] = "idle"]
           /\ infra' = [infra EXCEPT ![i] = Unknown]

(* Mutant of Poll: it asks only while something is not connected.          *)
PollUntilConnected(i) == /\ phase = "up" /\ poll[i] = "idle"
                         /\ \E b \in Backends : shown[b] # "Connected"
                         /\ poll' = [poll EXCEPT ![i] = "pg"]
                         /\ UNCHANGED <<vars, infra, shown>>

(* The timer: whatever became of the polls before this one.  The page      *)
(* itself comes with an answer of the same kind, and stands for a poll.    *)
Poll(i) == /\ phase = "up" /\ poll[i] = "idle"
           /\ poll' = [poll EXCEPT ![i] = "pg"]
           /\ UNCHANGED <<vars, infra, shown>>

Status(b) == IF b \notin have THEN "Not Configured"
             ELSE IF backend[b] = "up" THEN "Connected" ELSE "Down"

(* Mutant of CheckInfra: it leaves out a backend that start-up did not find. *)
CheckInfraFound(i, b, next) == /\ poll[i] = b
                               /\ b \in have => backend[b] # "hung"
                               /\ infra' = IF b \in have THEN [infra EXCEPT ![i][b] = Status(b)] ELSE infra
                               /\ poll' = [poll EXCEPT ![i] = next]
                               /\ UNCHANGED <<vars, shown>>

(* A SELECT 1 or a PING; one that a silent backend gets is never answered. *)
CheckInfra(i, b, next) == /\ poll[i] = b
                          /\ b \in have => backend[b] # "hung"
                          /\ infra' = [infra EXCEPT ![i][b] = Status(b)]
                          /\ poll' = [poll EXCEPT ![i] = next]
                          /\ UNCHANGED <<vars, shown>>

Show(i) == /\ poll[i] = "back"
           /\ shown' = infra[i]
           /\ Idle(i)
           /\ UNCHANGED vars

(* fetchJSON makes null of an answer that is lost, and the page stays.     *)
Lose(i) == /\ poll[i] # "idle"
           /\ Idle(i)
           /\ UNCHANGED <<vars, shown>>

(* The process as it lives, except that it may be restarted at any time,   *)
(* whatever its probes say; what it was answering is lost with it.         *)
Live == /\ \/ \E b \in Backends : Fail(b) \/ Recover(b)
           \/ SiblingCreates \/ Connect \/ LookForTable \/ CreateTable \/ InitRedis
           \/ Restart
        /\ LET kept == {i \in Polls : phase' = "up" \/ poll[i] = "back"} IN
             /\ poll' = [i \in Polls |-> IF i \in kept THEN poll[i] ELSE "idle"]
             /\ infra' = [i \in Polls |-> IF i \in kept THEN infra[i] ELSE Unknown]
        /\ UNCHANGED shown

Refresh(i) == Poll(i) \/ CheckInfra(i, "pg", "redis") \/ CheckInfra(i, "redis", "back") \/ Show(i)

PageNext == \/ Live
            \/ \E i \in Polls : Refresh(i) \/ Lose(i)

PageSpec == PageInit /\ [][PageNext]_allVars

FairPageSpec == PageSpec /\ \A i \in Polls : WF_allVars(Refresh(i))

-----------------------------------------------------------------------------

(* The variables of the page have their types, and no answer is shown      *)
(* before it is complete, whatever process its parts came from.            *)
PageTypeOK == /\ poll \in [Polls -> {"idle", "pg", "redis", "back"}]
              /\ infra \in [Polls -> [Backends -> Statuses]]
              /\ shown \in [Backends -> Statuses]
              /\ \A i \in Polls : /\ poll[i] \in {"idle", "pg"} <=> infra[i]["pg"] = "?"
                                  /\ poll[i] = "back" <=> infra[i]["redis"] # "?"
              /\ shown["pg"] = "?" <=> shown["redis"] = "?"

(* What the page says of the backends that the process uses is true.       *)
Agrees == \A b \in Backends : /\ shown[b] = "Connected" <=> b \in have \intersect Up
                              /\ shown[b] = "Down" <=> b \in have \ Up

(* Though answers may be lost and may overtake one another, so that an     *)
(* older one is shown over a newer: once process and backends stay as they *)
(* are, none of those in use silent, and no more answers are lost, the page *)
(* comes to say what is so and goes on saying it.  (To lose an answer that *)
(* the page shows already is to show it.)                                  *)
Settled == /\ <>[][UNCHANGED <<backend, have>> /\ \A i \in Polls : Lose(i) => Show(i)]_allVars
           /\ <>[](phase = "up" /\ have \intersect Hung = {})
PageCatchesUp == Settled => <>[]Agrees
=============================================================================
