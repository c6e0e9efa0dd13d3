---------------------------- MODULE RedisCounter ----------------------------
(***************************************************************************)
(* GET /api/count: storage.redis_incr("hits") sends INCR to Redis through  *)
(* redis_op_with_retry, which sends it again after any failure, whether or *)
(* not the failed attempt was carried out.  Redis executes an INCR at one  *)
(* instant; its answer reaches the client some time later.                 *)
(***************************************************************************)
EXTENDS Naturals, FiniteSets

CONSTANTS Tasks,     \* requests in flight at once
          Retries,   \* settings.redis_retry_attempts
          Faulty,    \* attempts may fail
          MaxAsked   \* bound: requests in a behaviour

ASSUME CounterAssumption == /\ Retries \in Nat \ {0}
                            /\ Faulty \in BOOLEAN
                            /\ MaxAsked \in Nat

VARIABLES hits,    \* the Redis key "hits"
          task,    \* task[t]: the request, and the coroutine that serves it
          asked,   \* history: requests so far
          given    \* history: the numbers clients have received

vars == <<hits, task, asked, given>>

(* value 0 is Python's None; above is history: what had been given before. *)
Idle == [pc |-> "idle", tries |-> 0, value |-> 0, above |-> {}]

Init == /\ hits = 0
        /\ task = [t \in Tasks |-> Idle]
        /\ asked = 0
        /\ given = {}

At(t, pc) == task[t].pc = pc

(* The request arrives, at a process that has Redis or at one that has not. *)
Ask(t) ==
  /\ At(t, "idle") /\ asked < MaxAsked
  /\ asked' = asked + 1
  /\ \E pc \in {"incr", "done"} : task' = [task EXCEPT ![t].pc = pc, ![t].above = given]
  /\ UNCHANGED <<hits, given>>

Incr(t) ==
  /\ At(t, "incr")
  /\ hits' = hits + 1
  /\ task' = [task EXCEPT ![t].pc = "done", ![t].value = hits + 1]
  /\ UNCHANGED <<asked, given>>

(* Mutants of IncrFails: one attempt too many; attempts without end; after  *)
(* the last one the answer is what the counter is now.                     *)
IncrOnceMore(t) ==
  LET n == task[t].tries + 1
  IN /\ At(t, "incr") /\ Faulty
     /\ hits' \in {hits, hits + 1}
     /\ task' = [task EXCEPT ![t].tries = n, ![t].pc = IF n <= Retries THEN "incr" ELSE "done"]
     /\ UNCHANGED <<asked, given>>
IncrForever(t) ==
  /\ At(t, "incr") /\ Faulty
  /\ task' = [task EXCEPT ![t].tries = (@ + 1) % Retries]
  /\ UNCHANGED <<hits, asked, given>>

IncrThenGet(t) ==
  LET n == task[t].tries + 1
  IN /\ At(t, "incr") /\ Faulty
     /\ hits' \in {hits, hits + 1}
     /\ task' = [task EXCEPT ![t].tries = n, ![t].pc = IF n < Retries THEN "incr" ELSE "done",
                             ![t].value = IF n < Retries THEN 0 ELSE hits']
     /\ UNCHANGED <<asked, given>>

(* An attempt fails, carried out or not; after the last one the answer is  *)
(* None, which the route reports as "Redis unavailable".                   *)
IncrFails(t) ==
  LET n == task[t].tries + 1
  IN /\ At(t, "incr") /\ Faulty
     /\ hits' \in {hits, hits + 1}
     /\ task' = [task EXCEPT ![t].tries = n, ![t].pc = IF n < Retries THEN "incr" ELSE "done"]
     /\ UNCHANGED <<asked, given>>

Reply(t) ==
  /\ At(t, "done")
  /\ given' = given \union ({task[t].value} \ {0})
  /\ task' = [task EXCEPT ![t] = Idle]
  /\ UNCHANGED <<hits, asked>>

Next == \E t \in Tasks : Ask(t) \/ Incr(t) \/ IncrFails(t) \/ Reply(t)

Spec == Init /\ [][Next]_vars

(* The event loop runs what can run, and every attempt ends: see Storage.  *)
FairSpec == Spec /\ \A t \in Tasks : WF_vars(Incr(t) \/ IncrFails(t) \/ Reply(t))

-----------------------------------------------------------------------------

(* The variables have their types.                                         *)
TypeOK == /\ hits \in Nat
          /\ task \in [Tasks -> [pc : {"idle", "incr", "done"}, tries : 0 .. Retries,
                                 value : Nat, above : SUBSET Nat]]
          /\ asked \in 0 .. MaxAsked
          /\ given \in SUBSET Nat

(* No two requests are ever given the same number, whatever is repeated,   *)
(* and a number is larger than all that clients had when they asked for it. *)
Unique == \A t \in Tasks : At(t, "done") /\ task[t].value # 0 =>
            /\ task[t].value \notin given
            /\ \A u \in Tasks \ {t} : task[u].value # task[t].value
            /\ \A n \in task[t].above : n < task[t].value

(* Repetition is bounded: a request moves the counter by Retries at most   *)
(* (and by more than the one that the docstring of the count tool tells).  *)
Bounded == hits <= Retries * asked

(* Every request is answered, with a number or with None.                  *)
Answered == \A t \in Tasks : At(t, "incr") ~> At(t, "idle")
=============================================================================
