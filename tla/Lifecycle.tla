----------------------------- MODULE Lifecycle -----------------------------
(***************************************************************************)
(* The life of one server process under Kubernetes (helm/pytbak): start-up *)
(* and shutdown in the lifespan of app/main.py, the health answer of       *)
(* app/services/health.py, and the kubelet, which asks for it again and    *)
(* again and restarts the container after some failures in a row.  Each    *)
(* await on a backend is an action of its own, and backends come and go.   *)
(***************************************************************************)
EXTENDS Naturals

CONSTANTS Configured,  \* backends with a URL in the environment, of Backends
          Modes,       \* ways a backend fails: "down" refuses, "hung" is silent
          Threshold    \* failureThreshold of the liveness probe

Backends == {"pg", "redis"}

ASSUME LifecycleAssumption == /\ Configured \subseteq Backends
                              /\ Modes \subseteq {"down", "hung"}
                              /\ Threshold \in Nat \ {0}

VARIABLES backend,  \* backend[b]: "up", or a way to fail
          table,    \* is there a table "contexts" in PostgreSQL?
          phase,    \* of the process: connecting to the "db", to "look" for the
                    \* table, perhaps to "create" it, then "redis"; "up"
          have,     \* backends found at start-up: _session_factory, _available
          probe,    \* of the health answer: "none", checking a backend, "answer"
          checks,   \* its list of checks
          fails,    \* probes that failed in a row, as the kubelet counts
          upAll,    \* history: backends up ever since this probe began
          downAll,  \* history: backends not up ever since this probe began
          steady,   \* history: backends up since the first probe in the row began
          silent,   \* history: backends hung at some time since then
          tripped   \* history: backends away at some time of this start-up, and
                    \* PostgreSQL when another process created the table meanwhile

process == <<phase, have>>
probing == <<probe, checks, fails>>
history == <<upAll, downAll, steady, silent>>
vars == <<backend, table, process, probing, history, tripped>>

Up == {b \in Backends : backend[b] = "up"}
Hung == {b \in Backends : backend[b] = "hung"}
NoChecks == [b \in Backends |-> "none"]

Init == /\ backend \in [Backends -> {"up"} \union Modes]
        /\ table \in BOOLEAN
        /\ phase = "db" /\ have = {}
        /\ probe = "none" /\ checks = NoChecks /\ fails = 0
        /\ upAll = {} /\ downAll = {} /\ steady = {} /\ silent = {}
        /\ tripped = Backends \ Up

-----------------------------------------------------------------------------
(* The backends, and the other processes that start on the same database.  *)

Trip(b) == tripped' = IF phase = "up" THEN tripped ELSE tripped \union {b}

Fail(b) == /\ backend[b] = "up"
           /\ \E m \in Modes : backend' = [backend EXCEPT ![b] = m]
           /\ upAll' = upAll \ {b}
           /\ steady' = steady \ {b}
           /\ silent' = silent \union Hung'
           /\ Trip(b)
           /\ UNCHANGED <<table, process, probing, downAll>>

Recover(b) == /\ backend[b] # "up"
              /\ backend' = [backend EXCEPT ![b] = "up"]
              /\ downAll' = downAll \ {b}
              /\ UNCHANGED <<table, process, probing, upAll, steady, silent, tripped>>

SiblingCreates == /\ "pg" \in Configured \intersect Up /\ ~table
                  /\ table' = TRUE
                  /\ Trip("pg")
                  /\ UNCHANGED <<backend, process, probing, history>>

-----------------------------------------------------------------------------
(* Start-up.  Redis has a default URL, so it is tried even when it is not  *)
(* configured; a failure leaves the process without the backend.  To       *)
(* connect to a silent PostgreSQL gives up before the startup probe does   *)
(* (asyncpg's 60 seconds against 20 periods of 5); a statement on the      *)
(* connection, and the PING that ends init_redis, have no timeout.         *)

Start == <<backend, probing, history>>

(* Mutant of Connect: without its database the process does not start.     *)
ConnectOrDie == /\ phase = "db"
                /\ "pg" \in Configured => backend["pg"] = "up"
                /\ phase' = IF "pg" \in Configured THEN "look" ELSE "redis"
                /\ UNCHANGED <<Start, table, have, tripped>>

Connect == /\ phase = "db"
           /\ phase' = IF "pg" \in Configured \intersect Up THEN "look" ELSE "redis"
           /\ UNCHANGED <<Start, table, have, tripped>>

(* Mutant of LookForTable: whatever it finds, the table is created.        *)
LookAway == /\ phase = "look" /\ backend["pg"] # "hung"
            /\ phase' = IF backend["pg"] = "up" THEN "create" ELSE "redis"
            /\ UNCHANGED <<Start, table, have, tripped>>

(* The first statements on the connection: SQLAlchemy asks for what server *)
(* it talks to, and create_all for the table.                              *)
LookForTable ==
  /\ phase = "look" /\ backend["pg"] # "hung"
  /\ LET there == backend["pg"] = "up" IN
       /\ phase' = IF there /\ ~table THEN "create" ELSE "redis"
       /\ have' = IF there /\ table THEN have \union {"pg"} ELSE have
  /\ UNCHANGED <<Start, table, tripped>>

(* The statement fails when the table has come to be since it was missed,  *)
(* and init_db gives PostgreSQL up for that.                               *)
CreateTable ==
  /\ phase = "create" /\ backend["pg"] # "hung"
  /\ \/ backend["pg"] = "up" /\ ~table /\ table' = TRUE /\ have' = have \union {"pg"}
     \/ (backend["pg"] # "up" \/ table) /\ UNCHANGED <<table, have>>
  /\ phase' = "redis"
  /\ UNCHANGED <<Start, tripped>>

InitRedis == /\ phase = "redis"
             /\ backend["redis"] # "hung"
             /\ have' = have \union (Up \intersect {"redis"})
             /\ phase' = "up" /\ tripped' = {}
             /\ UNCHANGED <<Start, table>>

(* The container stops, which closes what is open, and starts again.       *)
Restart == /\ phase' = "db" /\ have' = {}
           /\ probe' = "none" /\ checks' = NoChecks /\ fails' = 0
           /\ tripped' = Backends \ Up
           /\ UNCHANGED <<backend, table, history>>

(* The startup probe loses patience with a lifespan that hangs.            *)
StartupKill == /\ \/ phase = "redis" /\ backend["redis"] = "hung"
                  \/ phase \in {"look", "create"} /\ backend["pg"] = "hung"
               /\ Restart

(* So does the liveness probe with failures in a row.                      *)
LivenessKill == /\ phase = "up" /\ fails >= Threshold
                /\ Restart

-----------------------------------------------------------------------------
(* A liveness probe: GET /api/mgmt/health.                                 *)

Probe == /\ phase = "up" /\ probe = "none" /\ fails < Threshold
         /\ probe' = "redis" /\ checks' = NoChecks
         /\ upAll' = Up /\ downAll' = Backends \ Up
         /\ steady' = IF fails = 0 THEN Up ELSE steady
         /\ silent' = IF fails = 0 THEN Hung ELSE silent
         /\ UNCHANGED <<backend, table, process, fails, tripped>>

(* Mutants of Check: what start-up found is taken for what is there now; a *)
(* failure is reported under another name.                                 *)
CheckFlag(b, next) ==
  /\ probe = b
  /\ checks' = [checks EXCEPT ![b] = IF b \in have THEN "UP" ELSE "NOT_CONFIGURED"]
  /\ probe' = next
  /\ UNCHANGED <<backend, table, process, fails, history, tripped>>

CheckErrors(b, next) ==
  /\ probe = b
  /\ b \in have => backend[b] # "hung"
  /\ checks' = [checks EXCEPT ![b] = IF b \notin have THEN "NOT_CONFIGURED"
                                     ELSE IF backend[b] = "up" THEN "UP" ELSE "ERROR"]
  /\ probe' = next
  /\ UNCHANGED <<backend, table, process, fails, history, tripped>>

(* A PING or a SELECT 1, if start-up found the backend.                    *)
Check(b, next) ==
  /\ probe = b
  /\ b \in have => backend[b] # "hung"
  /\ checks' = [checks EXCEPT ![b] = IF b \notin have THEN "NOT_CONFIGURED"
                                     ELSE IF backend[b] = "up" THEN "UP" ELSE "DOWN"]
  /\ probe' = next
  /\ UNCHANGED <<backend, table, process, fails, history, tripped>>

Used == {b \in Backends : checks[b] # "NOT_CONFIGURED"}
StatusCode == IF Used # {} /\ \A b \in Used : checks[b] = "DOWN" THEN 503 ELSE 200

Failed(bad) == /\ fails' = IF bad THEN fails + 1 ELSE 0
               /\ probe' = "none"
               /\ UNCHANGED <<backend, table, process, checks, history, tripped>>

(* Mutants of Answer: 503 as soon as one is down; 200 whatever is down.    *)
AnswerAny == /\ probe = "answer"
             /\ Failed(\E b \in Used : checks[b] = "DOWN")
AnswerAlways == /\ probe = "answer"
                /\ Failed(FALSE)

Answer == /\ probe = "answer"
          /\ Failed(StatusCode = 503)

(* A check that hangs outlasts the timeout of the probe.                   *)
Timeout == /\ probe \in have /\ backend[probe] = "hung"
           /\ Failed(TRUE)

Next == \/ \E b \in Backends : Fail(b) \/ Recover(b)
        \/ SiblingCreates
        \/ Connect \/ LookForTable \/ CreateTable \/ InitRedis \/ StartupKill \/ LivenessKill
        \/ Probe \/ Check("redis", "pg") \/ Check("pg", "answer") \/ Answer \/ Timeout

Spec == Init /\ [][Next]_vars

(* The process runs and the kubelet probes; backends do as they please.    *)
FairSpec == /\ Spec
            /\ WF_vars(Connect) /\ WF_vars(LookForTable) /\ WF_vars(CreateTable)
            /\ WF_vars(InitRedis) /\ WF_vars(StartupKill) /\ WF_vars(LivenessKill)
            /\ WF_vars(Probe \/ Check("redis", "pg") \/ Check("pg", "answer") \/ Answer \/ Timeout)

-----------------------------------------------------------------------------

(* The variables have their types.                                         *)
TypeOK == /\ backend \in [Backends -> {"up"} \union Modes]
          /\ table \in BOOLEAN
          /\ phase \in {"db", "look", "create", "redis", "up"}
          /\ have \in SUBSET Backends
          /\ probe \in {"none", "redis", "pg", "answer"}
          /\ checks \in [Backends -> {"none", "UP", "DOWN", "NOT_CONFIGURED"}]
          /\ fails \in 0 .. Threshold
          /\ upAll \in SUBSET Backends
          /\ downAll \in SUBSET Backends
          /\ steady \in SUBSET Backends
          /\ silent \in SUBSET Backends
          /\ tripped \in SUBSET Backends

(* A process is not restarted while one of its backends works: it had one, *)
(* and since the first of the failed probes began each was away at some    *)
(* time, or one was silent, which no check survives.                       *)
NoNeedlessRestart == phase = "up" /\ fails = Threshold =>
                       /\ have # {}
                       /\ have \intersect steady = {} \/ have \intersect silent # {}

(* A health answer is about the backends as they were while it was made.   *)
ChecksAreLive == probe = "answer" =>
                   \A b \in Backends : /\ checks[b] = "UP" => b \notin downAll
                                       /\ checks[b] = "DOWN" => b \notin upAll

(* A process begins to serve with every configured backend that was there  *)
(* all through its start-up, unless another process created the table in   *)
(* between: init_db takes what that raises for a missing database.         *)
UndisturbedIsUsed == [][phase # "up" /\ phase' = "up" => Configured \ have' \subseteq tripped]_vars

(* A process gets through its start-up, whatever is down, if in the end    *)
(* neither Redis is silent nor PostgreSQL once a connection to it is made. *)
Starts == <>[](/\ backend["redis"] # "hung"
               /\ phase \in {"look", "create"} => backend["pg"] # "hung") => []<>(phase = "up")

(* A process does not sit for ever on backends that are all gone.          *)
Stranded == phase = "up" /\ have # {} /\ have \intersect Up = {}
OutageRestarts == Stranded ~> ~Stranded
=============================================================================
