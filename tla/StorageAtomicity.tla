-------------------------- MODULE StorageAtomicity --------------------------
(***************************************************************************)
(* Proof that the context store is an atomic map where StorageAtomic says  *)
(* it is, for any number of requests and contexts and whichever backends   *)
(* the process found, and that its backends then agree when it is quiet.   *)
(***************************************************************************)
EXTENDS StorageProofs, StorageAtomic

(* One process that stays up, calls that do not fail, no two requests for  *)
(* one context at once, no listings, and no PUT that nulls a title.        *)
Alone == /\ Exclusive = TRUE
         /\ Faulty = {}
         /\ MaxRestarts = 0
         /\ \E p : Procs = {p}
         /\ "list" \notin Ops
         /\ Absent \notin Ids
         /\ TitlesKept

(* What a request has yet to do when it has not written anything: m is     *)
(* what every backend holds of its context.                                *)
Intends(r, m) == \/ r.op = "create" /\ m = Absent /\ r.ctx.done = FALSE
                 \/ r.op = "update" /\ m # Absent /\ r.ctx = Patched(m, r.arg)
                 \/ r.op = "delete" /\ m # Absent

Target(r) == IF r.op = "delete" THEN Absent ELSE r.ctx

(* A process that found the backends k, where PostgreSQL has g and Redis d *)
(* of some context, has m of it in all of them.                            *)
Same(k, g, d, m) == ("pg" \in k => g = m) /\ ("redis" \in k => d = m)

(* A request at each point of its coroutine, and what backends, dict and   *)
(* cache hold of its context: the old before, the new behind it.           *)
Fine(r, k, g, d, m, c) ==
  /\ r.op # "list"
  /\ r.pc \in {"pgRead", "rdRead", "got", "done"} => Same(k, g, d, m) /\ c \in {Absent, m}
  /\ r.pc = "pgRead" => "pg" \in k
  /\ r.pc = "rdRead" => "pg" \notin k /\ "redis" \in k
  /\ r.pc = "got" => r.row = m
  /\ r.pc \in {"pgSelect", "pgWrite"} => "pg" \in k /\ Same(k, g, d, m) /\ Intends(r, m)
  /\ r.pc = "pgWrite" => r.row = g
  /\ r.pc = "rdWrite" => /\ "redis" \in k
                         /\ "pg" \in k => g = Target(r)
                         /\ "pg" \notin k => d = m /\ Intends(r, m)
  /\ r.pc = "memory" => k # {} /\ Same(k, g, d, Target(r))
  /\ r.pc \in {"pgSelect", "pgWrite", "rdWrite", "memory"} => c \in {Absent, Target(r)}

AllFine == \A t \in Tasks :
             LET r == task[t]
             IN IF r.pc = "idle" THEN r = Idle
                ELSE Fine(r, conf[r.proc], pg[r.id], redis[r.id],
                          memory[r.proc][r.id], cache[r.proc][r.id])
Apart == \A t, u \in Tasks : t # u /\ task[t].id = task[u].id => task[t].id = Absent
Unborn == \A i \in Ids : seen[i] = "free" =>
            /\ pg[i] = Absent /\ redis[i] = Absent
            /\ \A p \in Procs : memory[p][i] = Absent /\ cache[p][i] = Absent
            /\ \A t \in Tasks : task[t].id # i

Orderly == AllFine /\ Apart /\ Unborn /\ BackendsAgree

AInv == EInv /\ Orderly

(* In this setting a request is about one context, and its process is all  *)
(* there is.                                                               *)
LEMMA Busy ==
  ASSUME AInv, Alone, NEW t \in Tasks, task[t].pc # "idle"
  PROVE  LET r == task[t]
         IN /\ r \in Request /\ r.proc \in Procs /\ r.id \in Ids
            /\ r.op \in {"create", "get", "update", "delete"}
            /\ Fine(r, conf[r.proc], pg[r.id], redis[r.id],
                    memory[r.proc][r.id], cache[r.proc][r.id])
            /\ seen[r.id] # "free"
            /\ \A u \in Tasks : u # t => task[u].id # r.id
<1> DEFINE r == task[t]
<1>1. /\ r \in Request /\ r.proc \in Procs /\ r.op \in AllOps
      /\ r.op # "list" => r.id \in Ids
  BY DEF AInv, EInv, TInv, TypeOK, Shape
<1>2. Fine(r, conf[r.proc], pg[r.id], redis[r.id], memory[r.proc][r.id], cache[r.proc][r.id])
  BY DEF AInv, Orderly, AllFine
<1>3. r.op # "list"
  BY <1>2 DEF Fine
<1>4. \A u \in Tasks : u # t => task[u].id # r.id
  BY <1>1, <1>3 DEF AInv, Orderly, Apart, Alone
<1>5. seen[r.id] # "free"
  BY <1>1, <1>3 DEF AInv, Orderly, Unborn
<1> QED
  BY <1>1, <1>2, <1>3, <1>4, <1>5 DEF AllOps

-----------------------------------------------------------------------------
(* A step of one request: it leaves other contexts alone, and what it      *)
(* leaves of its own is fine.                                              *)

Elsewhere(p, i) == \A j \in Ids \ {i} :
                     /\ pg'[j] = pg[j] /\ redis'[j] = redis[j]
                     /\ memory'[p][j] = memory[p][j] /\ cache'[p][j] = cache[p][j]

Runs(t, r) == /\ task' = [task EXCEPT ![t] = r]
              /\ r.pc # "idle" /\ r.id \in Ids /\ r.proc \in Procs
              /\ Fine(r, conf[r.proc], pg'[r.id], redis'[r.id],
                      memory'[r.proc][r.id], cache'[r.proc][r.id])
              /\ Elsewhere(r.proc, r.id)

LEMMA Moved ==
  ASSUME AInv, Alone, NEW t \in Tasks, NEW r, Runs(t, r), conf' = conf,
         \/ task[t].pc # "idle" /\ task[t].id = r.id
         \/ task[t].pc = "idle" /\ \A u \in Tasks : task[u].id # r.id,
         seen'[r.id] # "free", \A j \in Ids : seen'[j] = "free" => seen[j] = "free"
  PROVE  Orderly'
<1>1. \A u \in Tasks : task'[u] = IF u = t THEN r ELSE task[u]
  BY DEF Runs, AInv, EInv, TInv, TypeOK
<1>2. \A u \in Tasks \ {t} : task[u].id # r.id
  BY Busy
<1>3. task[t].id \in {r.id, Absent}
  BY DEF AInv, Orderly, AllFine, Idle
<1>4. \A p \in Procs : p = r.proc
  BY DEF Alone, Runs
<1>5. AllFine'
  <2> SUFFICES ASSUME NEW u \in Tasks \ {t}, task[u].pc # "idle"
               PROVE  Fine(task[u], conf[task[u].proc], pg'[task[u].id], redis'[task[u].id],
                           memory'[task[u].proc][task[u].id], cache'[task[u].proc][task[u].id])
    BY <1>1 DEF AllFine, Runs, AInv, Orderly
  <2>1. /\ Fine(task[u], conf[task[u].proc], pg[task[u].id], redis[task[u].id],
                memory[task[u].proc][task[u].id], cache[task[u].proc][task[u].id])
        /\ task[u].id \in Ids \ {r.id} /\ task[u].proc = r.proc
    BY <1>2, <1>4, Busy
  <2> QED
    BY <2>1 DEF Runs, Elsewhere
<1>6. Apart'
  BY <1>1, <1>2 DEF AInv, Orderly, Apart
<1>7. Unborn'
  <2> SUFFICES ASSUME NEW i \in Ids, seen'[i] = "free"
               PROVE  /\ pg'[i] = Absent /\ redis'[i] = Absent
                      /\ memory'[r.proc][i] = Absent /\ cache'[r.proc][i] = Absent
                      /\ \A u \in Tasks : task'[u].id # i
    BY <1>4 DEF Unborn
  <2>1. i # r.id /\ seen[i] = "free"
    OBVIOUS
  <2>2. /\ pg[i] = Absent /\ redis[i] = Absent
        /\ memory[r.proc][i] = Absent /\ cache[r.proc][i] = Absent
        /\ \A u \in Tasks : task[u].id # i
    BY <2>1 DEF AInv, Orderly, Unborn, Runs
  <2> QED
    BY <1>1, <2>1, <2>2 DEF Runs, Elsewhere
<1>8. BackendsAgree'
  <2> SUFFICES ASSUME NEW i \in Ids, \A u \in Tasks : task'[u].id # i
               PROVE  /\ Same(conf[r.proc], pg'[i], redis'[i], memory'[r.proc][i])
                      /\ cache'[r.proc][i] \in {Absent, memory'[r.proc][i]}
    BY <1>4 DEF BackendsAgree, Same
  <2>1. i # r.id /\ \A u \in Tasks : task[u].id # i
    BY <1>1, <1>3 DEF Alone
  <2>2. /\ Same(conf[r.proc], pg[i], redis[i], memory[r.proc][i])
        /\ cache[r.proc][i] \in {Absent, memory[r.proc][i]}
    BY <2>1 DEF AInv, Orderly, BackendsAgree, Same, Runs
  <2> QED
    BY <2>1, <2>2 DEF Runs, Elsewhere
<1> QED
  BY <1>5, <1>6, <1>7, <1>8 DEF Orderly

-----------------------------------------------------------------------------
(* A step of a coroutine, seen from the abstract store: its request was q  *)
(* there and is a now, its context was old and is new.  Either nothing     *)
(* happened, or it was the instant at which the request takes effect.      *)

(* What the first backend of the read path holds, before and after.        *)
Current(p, i) == IF "pg" \in conf[p] THEN pg[i]
                 ELSE IF "redis" \in conf[p] THEN redis[i] ELSE memory[p][i]
Hence(p, i) == IF "pg" \in conf'[p] THEN pg'[i]
               ELSE IF "redis" \in conf'[p] THEN redis'[i] ELSE memory'[p][i]

AsPending(r) == [phase |-> "pending", op |-> r.op, id |-> r.id,
                 arg |-> IF r.op = "create" THEN r.ctx ELSE r.arg, res |-> Absent]

(* What a write answers.                                                   *)
Effect(r) == IF r.op = "delete" THEN Atomic!Plain("removed") ELSE Atomic!Found(r.ctx)

Follows(q, a, old, new) ==
  \/ a = q /\ new = old
  \/ /\ q.phase = "pending"
     /\ a = Atomic!Settled(q, Atomic!Response(q, old))
     /\ new = Atomic!After(q, old)

(* Request t of process p, q for the abstract store, makes such a step.    *)
Goes(t, p, q) == \E n : /\ Runs(t, n) /\ n.proc = p /\ n.id = q.id
                        /\ Follows(q, AsRequest(n), Current(p, q.id), Hence(p, q.id))

LEMMA AnswerRuns ==
  ASSUME AInv, NEW t \in Tasks, NEW r, Serving(r), r.op # "list", NEW kind, NEW body,
         Answer(t, r, kind, body), Elsewhere(r.proc, r.id),
         Same(conf[r.proc], pg'[r.id], redis'[r.id], memory'[r.proc][r.id]),
         cache'[r.proc][r.id] \in {Absent, memory'[r.proc][r.id]}
  PROVE  \E n : /\ Runs(t, n) /\ n.proc = r.proc /\ n.id = r.id
                /\ AsRequest(n) = Atomic!Settled(r, [kind |-> kind, body |-> body])
<1> DEFINE n == [Idle EXCEPT !.pc = "done", !.proc = r.proc, !.op = r.op, !.id = r.id,
                             !.before = r.before, !.res = [kind |-> kind, body |-> body]]
<1>1. task' = [task EXCEPT ![t] = n]
  BY DEF Answer
<1>2. /\ n.pc = "done" /\ n.proc = r.proc /\ n.op = r.op /\ n.id = r.id
      /\ n.res = [kind |-> kind, body |-> body]
  BY DEF Idle
<1> HIDE DEF n
<1>3. Fine(n, conf[n.proc], pg'[n.id], redis'[n.id], memory'[n.proc][n.id], cache'[n.proc][n.id])
  BY <1>2 DEF Fine
<1>4. Runs(t, n)
  BY <1>1, <1>2, <1>3 DEF Runs, Serving
<1>5. AsRequest(n) = Atomic!Settled(r, [kind |-> kind, body |-> body])
  BY <1>2 DEF AsRequest, Atomic!Settled
<1> QED
  BY <1>2, <1>4, <1>5

LEMMA ConcludeRuns ==
  ASSUME AInv, NEW t \in Tasks, NEW r, WritesTitled(r), Conclude(t, r),
         UNCHANGED <<pg, redis>>, \A j \in Ids \ {r.id} : cache'[r.proc][j] = cache[r.proc][j],
         cache'[r.proc][r.id] \in {Absent, Target(r)},
         Same(conf[r.proc], pg[r.id], redis[r.id], Target(r))
  PROVE  /\ memory'[r.proc][r.id] = Target(r)
         /\ \E n : /\ Runs(t, n) /\ n.proc = r.proc /\ n.id = r.id
                   /\ AsRequest(n) = Atomic!Settled(r, Effect(r))
<1>1. Serving(r) /\ r.op # "list" /\ r.proc \in Procs /\ r.id \in Ids
  BY DEF WritesTitled, Writing, Serving
<1>2. r.op # "delete" => Valid(r.ctx)
  BY TitledFacts DEF WritesTitled
<1>3. /\ memory' = [memory EXCEPT ![r.proc][r.id] = Target(r)]
      /\ IF r.op = "delete" THEN Answer(t, r, "removed", Absent)
         ELSE Answer(t, r, "found", r.ctx)
  BY <1>2 DEF Conclude, Target
<1>4. memory'[r.proc][r.id] = Target(r) /\ Elsewhere(r.proc, r.id)
  BY <1>1, <1>3 DEF AInv, EInv, LocalCalm, Elsewhere
<1> QED
  BY <1>1, <1>3, <1>4, AnswerRuns DEF Effect, Atomic!Plain, Atomic!Found

(* What takes effect is what the abstract store does.                      *)
LEMMA IntendedEffect ==
  ASSUME NEW r, NEW m, Intends(r, m)
  PROVE  /\ Atomic!After(AsPending(r), m) = Target(r)
         /\ Atomic!Settled(AsPending(r), Atomic!Response(AsPending(r), m))
              = Atomic!Settled(r, Effect(r))
<1>1. /\ AsPending(r).op = r.op /\ AsPending(r).id = r.id
      /\ AsPending(r).arg = IF r.op = "create" THEN r.ctx ELSE r.arg
  BY DEF AsPending
<1>2. Atomic!After(AsPending(r), m) = Target(r)
  BY <1>1 DEF Intends, Target, Atomic!After, Patched, Atomic!Patched
<1>3. Atomic!Response(AsPending(r), m) = Effect(r)
  BY <1>1, <1>2 DEF Intends, Target, Atomic!Response, Effect
<1> QED
  BY <1>1, <1>2, <1>3 DEF Atomic!Settled

(* A request is ready to write once it intends something and its cache has *)
(* it.                                                                     *)
LEMMA WriteGoes ==
  ASSUME AInv, NEW t \in Tasks, NEW r, WritesTitled(r), Write(t, r),
         Intends(r, memory[r.proc][r.id]),
         Same(conf[r.proc], pg[r.id], redis[r.id], memory[r.proc][r.id]),
         UNCHANGED <<pg, redis, conf>>,
         \A j \in Ids \ {r.id} : cache'[r.proc][j] = cache[r.proc][j],
         cache'[r.proc][r.id] \in {Absent, Target(r)}
  PROVE  Goes(t, r.proc, AsPending(r))
<1> DEFINE q == AsPending(r)
           k == conf[r.proc]
           m == memory[r.proc][r.id]
<1>0. /\ Serving(r) /\ r \in Request /\ r.proc \in Procs /\ r.id \in Ids
      /\ r.op \in {"create", "update", "delete"}
      /\ k \subseteq {"pg", "redis"}
  BY StorageAssumption DEF WritesTitled, Writing, Serving, AInv, EInv, TInv, TypeOK, Backends
<1>1. /\ q.phase = "pending" /\ q.op = r.op /\ q.id = r.id
      /\ q.arg = IF r.op = "create" THEN r.ctx ELSE r.arg
  BY DEF AsPending
<1>2. CASE k = {}
  <2>1. Conclude(t, r)
    BY <1>2 DEF Write
  <2>2. PICK n : /\ Runs(t, n) /\ n.proc = r.proc /\ n.id = r.id
                 /\ AsRequest(n) = Atomic!Settled(r, Effect(r))
    BY <1>2, <2>1, ConcludeRuns DEF Same
  <2>3. Current(r.proc, q.id) = m /\ Hence(r.proc, q.id) = Target(r)
    BY <1>1, <1>2, <2>1, ConcludeRuns DEF Current, Hence, Same
  <2>4. /\ Target(r) = Atomic!After(q, m)
        /\ Atomic!Settled(q, Atomic!Response(q, m)) = Atomic!Settled(r, Effect(r))
    BY IntendedEffect
  <2> HIDE DEF q, k, m
  <2>5. Follows(q, AsRequest(n), Current(r.proc, q.id), Hence(r.proc, q.id))
    BY <1>1, <2>2, <2>3, <2>4 DEF Follows
  <2> QED
    BY <1>1, <2>2, <2>5 DEF Goes, q
<1>3. CASE k # {}
  <2> DEFINE pc == IF "pg" \in k THEN "pgSelect" ELSE "rdWrite"
             n == [r EXCEPT !.pc = pc]
  <2>1. task' = [task EXCEPT ![t] = n] /\ UNCHANGED memory
    BY <1>3 DEF Write, GoTo
  <2>2. /\ n.pc = pc /\ n.proc = r.proc /\ n.id = r.id /\ n.op = r.op /\ n.ctx = r.ctx
        /\ n.arg = r.arg
    BY <1>0 DEF Request
  <2> HIDE DEF n
  <2>3. Intends(n, m) /\ Target(n) = Target(r)
    BY <2>2 DEF Intends, Target
  <2>4. /\ pg'[r.id] = pg[r.id] /\ redis'[r.id] = redis[r.id] /\ memory'[r.proc][r.id] = m
        /\ cache'[r.proc][r.id] \in {Absent, Target(n)}
    BY <2>1, <2>3
  <2>5. Fine(n, k, pg'[r.id], redis'[r.id], memory'[r.proc][r.id], cache'[r.proc][r.id])
    <3>1. CASE "pg" \in k
      BY <1>0, <2>2, <2>3, <2>4, <3>1 DEF Fine
    <3>2. CASE "pg" \notin k
      BY <1>0, <1>3, <2>2, <2>3, <2>4, <3>2 DEF Fine, Same
    <3> QED
      BY <3>1, <3>2
  <2>6. Runs(t, n)
    BY <1>0, <2>1, <2>2, <2>5 DEF Runs, Elsewhere
  <2>7. AsRequest(n) = q
    BY <2>2 DEF AsRequest, AsPending, Wrote
  <2>8. Hence(r.proc, q.id) = Current(r.proc, q.id)
    BY <2>1 DEF Current, Hence
  <2> QED
    BY <1>1, <2>2, <2>6, <2>7, <2>8 DEF Goes, Follows
<1> QED
  BY <1>2, <1>3

(* A request that has read nothing of its context finds it nowhere.        *)
LEMMA StopGoes ==
  ASSUME AInv, NEW t \in Tasks, NEW r, ReadsTitled(r), r.op \in {"get", "update", "delete"},
         Stop(t, r, "none"), UNCHANGED <<pg, redis, conf>>,
         memory[r.proc][r.id] = Absent,
         Same(conf[r.proc], pg[r.id], redis[r.id], Absent),
         cache[r.proc][r.id] = Absent
  PROVE  Goes(t, r.proc, AsPending(r))
<1> DEFINE q == AsPending(r)
<1>1. Answer(t, r, "none", Absent) /\ UNCHANGED <<cache, memory>>
  BY DEF Stop
<1>2. Serving(r) /\ Elsewhere(r.proc, r.id)
  BY <1>1 DEF ReadsTitled, Elsewhere
<1>3. PICK n : /\ Runs(t, n) /\ n.proc = r.proc /\ n.id = r.id
               /\ AsRequest(n) = Atomic!Settled(r, [kind |-> "none", body |-> Absent])
  BY <1>1, <1>2, AnswerRuns
<1>4. /\ q.phase = "pending" /\ q.op = r.op /\ q.id = r.id
  BY DEF AsPending
<1>5. Current(r.proc, r.id) = Absent /\ Hence(r.proc, r.id) = Absent
  BY <1>1 DEF Current, Hence, Same
<1>6. /\ Atomic!Response(q, Absent) = [kind |-> "none", body |-> Absent]
      /\ Atomic!After(q, Absent) = Absent
  BY <1>4 DEF Atomic!Response, Atomic!After, Atomic!Plain
<1>7. Atomic!Settled(q, Atomic!Response(q, Absent)) = AsRequest(n)
  BY <1>3, <1>4, <1>6 DEF Atomic!Settled
<1> HIDE DEF q
<1>8. Follows(q, AsRequest(n), Current(r.proc, q.id), Hence(r.proc, q.id))
  BY <1>4, <1>5, <1>6, <1>7 DEF Follows
<1> QED
  BY <1>3, <1>4, <1>8 DEF Goes, q

(* One that has read its context, c: a get is done, the others write.      *)
LEMMA ProceedGoes ==
  ASSUME AInv, TitlesKept, NEW t \in Tasks, NEW r, ReadsTitled(r), NEW c \in Titled,
         NEW fill \in BOOLEAN, Proceed(t, r, c, fill), UNCHANGED <<pg, redis, conf>>,
         memory[r.proc][r.id] = c,
         Same(conf[r.proc], pg[r.id], redis[r.id], c),
         cache[r.proc][r.id] \in {Absent, c}
  PROVE  Goes(t, r.proc, AsPending(r))
<1> DEFINE q == AsPending(r)
<1>0. /\ Serving(r) /\ r \in Request /\ r.proc \in Procs /\ r.id \in Ids /\ r.op \in AllOps
      /\ c # Absent
  BY TitledFacts DEF ReadsTitled, Serving
<1>1. /\ q.phase = "pending" /\ q.op = r.op /\ q.id = r.id
  BY DEF AsPending
<1>2. ASSUME NEW x, Remember(r, x)
      PROVE  /\ \A j \in Ids \ {r.id} : cache'[r.proc][j] = cache[r.proc][j]
             /\ cache'[r.proc][r.id] = x
  BY <1>0, <1>2 DEF Remember, AInv, EInv, LocalCalm
<1>3. CASE r.op = "get" /\ Answer(t, r, "found", c)
                        /\ (Remember(r, c) \/ UNCHANGED cache) /\ UNCHANGED memory
  <2>1. cache'[r.proc][r.id] \in {Absent, c} /\ Elsewhere(r.proc, r.id)
    <3>1. CASE Remember(r, c)
      BY <1>2, <1>3, <3>1 DEF Elsewhere
    <3>2. CASE UNCHANGED cache
      BY <1>3, <3>2 DEF Elsewhere
    <3> QED
      BY <1>3, <3>1, <3>2
  <2>2. PICK n : /\ Runs(t, n) /\ n.proc = r.proc /\ n.id = r.id
                 /\ AsRequest(n) = Atomic!Settled(r, [kind |-> "found", body |-> c])
    BY <1>0, <1>3, <2>1, AnswerRuns
  <2>3. Current(r.proc, r.id) = c /\ Hence(r.proc, r.id) = c
    BY <1>3 DEF Current, Hence, Same
  <2>4. Atomic!Response(q, c) = [kind |-> "found", body |-> c] /\ Atomic!After(q, c) = c
    BY <1>0, <1>1, <1>3 DEF Atomic!Response, Atomic!After, Atomic!Found
  <2>5. Atomic!Settled(q, Atomic!Response(q, c)) = AsRequest(n)
    BY <1>1, <2>2, <2>4 DEF Atomic!Settled
  <2> HIDE DEF q
  <2>6. Follows(q, AsRequest(n), Current(r.proc, q.id), Hence(r.proc, q.id))
    BY <1>1, <2>3, <2>4, <2>5 DEF Follows
  <2> QED
    BY <1>1, <2>2, <2>6 DEF Goes, q
<1>4. CASE r.op = "update" /\ Remember(r, Patched(c, r.arg))
                           /\ Write(t, [r EXCEPT !.ctx = Patched(c, r.arg)])
  <2> DEFINE n == [r EXCEPT !.ctx = Patched(c, r.arg)]
  <2>1. /\ n \in Request /\ n.op = "update" /\ n.ctx = Patched(c, r.arg) /\ n.arg = r.arg
        /\ n.proc = r.proc /\ n.id = r.id /\ n.row = r.row
    <3>1. Patched(c, r.arg) \in Titled
      BY <1>4, PatchedTitled DEF ReadsTitled
    <3>2. Patched(c, r.arg) \in Context
      BY <3>1, TitledFacts
    <3> QED
      BY <1>0, <1>4, <3>2 DEF Request, Maybe
  <2>2. WritesTitled(n)
    <3>1. n.ctx \in Titled
      BY <1>4, <2>1, PatchedTitled DEF ReadsTitled
    <3>2. n.ctx \in Context
      BY <3>1, TitledFacts
    <3> HIDE DEF n
    <3>3. Writing(n)
      BY <1>0, <1>4, <2>1, <3>2 DEF Writing, Serving
    <3>4. n.row \in Maybe(Titled) /\ n.ctx \in Maybe(Titled)
      BY <2>1, <3>1 DEF ReadsTitled, Maybe
    <3> QED
      BY <3>1, <3>3, <3>4 DEF WritesTitled
  <2>3. Write(t, n)
    BY <1>4
  <2>4. AsPending(n) = q
    BY <1>4, <2>1 DEF AsPending
  <2> HIDE DEF n, q
  <2>5. Intends(n, c) /\ Target(n) = Patched(c, r.arg)
    BY <1>0, <2>1 DEF Intends, Target
  <2>6. /\ \A j \in Ids \ {n.id} : cache'[n.proc][j] = cache[n.proc][j]
        /\ cache'[n.proc][n.id] \in {Absent, Target(n)}
    BY <1>2, <1>4, <2>1, <2>5
  <2>7. Goes(t, n.proc, AsPending(n))
    BY <2>1, <2>2, <2>3, <2>5, <2>6, WriteGoes
  <2> QED
    BY <2>1, <2>4, <2>7 DEF q
<1>5. CASE r.op = "delete" /\ Remember(r, Absent) /\ Write(t, r)
  <2>1. WritesTitled(r)
    BY <1>5 DEF WritesTitled, ReadsTitled, Writing
  <2>2. Intends(r, c)
    BY <1>0, <1>5 DEF Intends
  <2>3. /\ \A j \in Ids \ {r.id} : cache'[r.proc][j] = cache[r.proc][j]
        /\ cache'[r.proc][r.id] \in {Absent, Target(r)}
    BY <1>2, <1>5
  <2> QED
    BY <1>5, <2>1, <2>2, <2>3, WriteGoes
<1> QED
  BY <1>3, <1>4, <1>5 DEF Proceed

(* What a read finds where the backends, the dict and the cache agree.     *)
Agreed(r) == /\ Same(conf[r.proc], pg[r.id], redis[r.id], memory[r.proc][r.id])
             /\ cache[r.proc][r.id] \in {Absent, memory[r.proc][r.id]}

LEMMA FromMemoryGoes ==
  ASSUME AInv, TitlesKept, NEW t \in Tasks, NEW r, ReadsTitled(r),
         r.op \in {"get", "update", "delete"}, Agreed(r),
         FromMemory(t, r), UNCHANGED <<pg, redis, conf>>
  PROVE  Goes(t, r.proc, AsPending(r))
<1> DEFINE c == memory[r.proc][r.id]
<1>1. c \in Maybe(Titled)
  BY DEF ReadsTitled, Serving, AInv, EInv, LocalCalm
<1>2. CASE c = Absent
  BY <1>2, StopGoes DEF FromMemory, Agreed
<1>3. CASE c # Absent
  <2>1. c \in Titled /\ Valid(c)
    BY <1>1, <1>3, TitledFacts DEF Maybe
  <2>2. Proceed(t, r, c, FALSE)
    BY <1>3, <2>1 DEF FromMemory
  <2> QED
    BY <2>1, <2>2, ProceedGoes DEF Agreed
<1> QED
  BY <1>2, <1>3

LEMMA ReadGoes ==
  ASSUME AInv, TitlesKept, NEW t \in Tasks, NEW r, ReadsTitled(r),
         r.op \in {"get", "update", "delete"}, Agreed(r),
         Read(t, r), UNCHANGED <<pg, redis, conf>>
  PROVE  Goes(t, r.proc, AsPending(r))
<1> DEFINE c == cache[r.proc][r.id]
           k == conf[r.proc]
<1>1. c \in Maybe(Titled) /\ r \in Request /\ r.proc \in Procs /\ r.id \in Ids
  BY DEF ReadsTitled, Serving, AInv, EInv, LocalCalm
<1>2. CASE c # Absent
  <2>1. c \in Titled /\ Valid(c) /\ memory[r.proc][r.id] = c
    BY <1>1, <1>2, TitledFacts DEF Maybe, Agreed
  <2>2. Proceed(t, r, c, FALSE)
    BY <1>2, <2>1 DEF Read
  <2> QED
    BY <2>1, <2>2, ProceedGoes DEF Agreed
<1>3. ASSUME NEW pc \in {"pgRead", "rdRead"}, GoTo(t, r, pc), UNCHANGED <<cache, memory>>,
             pc = "pgRead" => "pg" \in k, pc = "rdRead" => "pg" \notin k /\ "redis" \in k
      PROVE  Goes(t, r.proc, AsPending(r))
  <2> DEFINE n == [r EXCEPT !.pc = pc]
             q == AsPending(r)
  <2>1. task' = [task EXCEPT ![t] = n]
    BY <1>3 DEF GoTo
  <2>2. n.pc = pc /\ n.proc = r.proc /\ n.id = r.id /\ n.op = r.op /\ n.arg = r.arg
    BY <1>1 DEF Request
  <2> HIDE DEF n
  <2>3. Fine(n, k, pg[r.id], redis[r.id], memory[r.proc][r.id], cache[r.proc][r.id])
    BY <1>3, <2>2 DEF Fine, Agreed
  <2>4. Runs(t, n)
    BY <1>1, <1>3, <2>1, <2>2, <2>3 DEF Runs, Elsewhere
  <2>5. AsRequest(n) = q
    BY <1>3, <2>2 DEF AsRequest, AsPending, Wrote
  <2>6. Hence(r.proc, r.id) = Current(r.proc, r.id) /\ q.id = r.id
    BY <1>3 DEF Current, Hence, AsPending
  <2> QED
    BY <2>2, <2>4, <2>5, <2>6 DEF Goes, Follows
<1>4. CASE FromMemory(t, r)
  BY <1>4, FromMemoryGoes
<1> QED
  BY <1>2, <1>3, <1>4 DEF Read

-----------------------------------------------------------------------------
(* The steps of a request that is under way.                               *)

LEMMA MergedSame ==
  ASSUME NEW c \in Titled, NEW new \in Titled
  PROVE  Merged(c, c, new) = new
<1>1. Valid(new) /\ c # Absent
  BY TitledFacts
<1>2. new = [title |-> new.title, done |-> new.done]
  BY DEF Titled
<1> QED
  BY <1>1, <1>2 DEF Merged

LEMMA ReadStepGoes ==
  ASSUME AInv, Alone, NEW t \in Tasks, PgRead(t) \/ RdRead(t) \/ Resume(t)
  PROVE  Goes(t, task[t].proc, AsRequest(task[t])) /\ UNCHANGED <<conf, seen>>
<1> DEFINE r == task[t]
           k == conf[r.proc]
           q == AsRequest(r)
           m == memory[r.proc][r.id]
<1>0. r.pc \in {"pgRead", "rdRead", "got"} /\ UNCHANGED <<pg, redis, conf, seen>>
  BY DEF PgRead, RdRead, Resume, At, Stores
<1>1. /\ r \in Request /\ r.proc \in Procs /\ r.id \in Ids
      /\ Fine(r, k, pg[r.id], redis[r.id], m, cache[r.proc][r.id])
  BY <1>0, Busy
<1>2. ReadsTitled(r) /\ r.op \in {"get", "update", "delete"}
  BY <1>0, WaitingTitled DEF AInv, EInv, TInv, Shape
<1>3. Agreed(r)
  BY <1>0, <1>1 DEF Fine, Agreed
<1>4. q = AsPending(r) /\ q.id = r.id
  BY <1>0, <1>2 DEF AsRequest, AsPending, Wrote
<1>5. CASE PgRead(t) \/ RdRead(t)
  <2> DEFINE n == [r EXCEPT !.row = m, !.pc = "got"]
  <2>1. task' = [task EXCEPT ![t] = n] /\ UNCHANGED <<cache, memory>>
    <3>1. r.pc = "pgRead" => pg[r.id] = m
      BY <1>1 DEF Fine, Same
    <3>2. r.pc = "rdRead" => redis[r.id] = m
      BY <1>1 DEF Fine, Same
    <3> QED
      BY <1>5, <3>1, <3>2 DEF PgRead, RdRead, GoTo, At
  <2>2. /\ n.pc = "got" /\ n.row = m /\ n.proc = r.proc /\ n.id = r.id /\ n.op = r.op
        /\ n.arg = r.arg
    BY <1>1 DEF Request
  <2> HIDE DEF n
  <2>3. Fine(n, k, pg[r.id], redis[r.id], m, cache[r.proc][r.id])
    BY <1>2, <1>3, <2>2 DEF Fine, Agreed
  <2>4. Runs(t, n)
    BY <1>0, <1>1, <2>1, <2>2, <2>3 DEF Runs, Elsewhere
  <2>5. AsRequest(n) = q
    BY <1>2, <1>4, <2>2 DEF AsRequest, AsPending, Wrote
  <2>6. Hence(r.proc, r.id) = Current(r.proc, r.id)
    BY <1>0, <2>1 DEF Current, Hence
  <2> QED
    BY <1>0, <1>4, <2>2, <2>4, <2>5, <2>6 DEF Goes, Follows
<1>6. CASE Resume(t)
  <2>1. r.row = m /\ m \in Maybe(Titled)
    BY <1>1, <1>6 DEF Resume, At, Fine, AInv, EInv, LocalCalm
  <2>2. CASE m = Absent
    <3>1. Stop(t, r, "none") /\ cache[r.proc][r.id] = Absent
      BY <1>3, <1>6, <2>1, <2>2 DEF Resume, Agreed
    <3>2. Same(k, pg[r.id], redis[r.id], Absent)
      BY <1>3, <2>2 DEF Agreed
    <3>3. Goes(t, r.proc, AsPending(r))
      BY <1>0, <1>2, <2>2, <3>1, <3>2, StopGoes
    <3> QED
      BY <1>0, <1>4, <3>3
  <2>3. CASE m # Absent
    <3> DEFINE n == [r EXCEPT !.row = Absent]
    <3>1. Proceed(t, n, m, TRUE) /\ m \in Titled
      BY <1>6, <2>1, <2>3 DEF Resume, Maybe
    <3>2. /\ n \in Request /\ n.row = Absent /\ n.ctx = r.ctx /\ n.proc = r.proc
          /\ n.id = r.id /\ n.op = r.op /\ n.arg = r.arg
      BY <1>1 DEF Request, Maybe
    <3> HIDE DEF n
    <3>3. ReadsTitled(n)
      BY <1>2, <3>2 DEF ReadsTitled, Serving, Maybe
    <3>4. Goes(t, n.proc, AsPending(n))
      BY <1>0, <1>3, <3>1, <3>2, <3>3, ProceedGoes DEF Agreed, Alone
    <3>5. AsPending(n) = AsPending(r)
      BY <1>2, <3>2 DEF AsPending
    <3> QED
      BY <1>0, <1>4, <3>2, <3>4, <3>5
  <2> QED
    BY <2>2, <2>3
<1> QED
  BY <1>5, <1>6

LEMMA PgStepGoes ==
  ASSUME AInv, Alone, NEW t \in Tasks, PgSelect(t) \/ PgWrite(t)
  PROVE  Goes(t, task[t].proc, AsRequest(task[t])) /\ UNCHANGED <<conf, seen>>
<1> DEFINE r == task[t]
           k == conf[r.proc]
           q == AsRequest(r)
           m == memory[r.proc][r.id]
<1>0. r.pc \in {"pgSelect", "pgWrite"} /\ UNCHANGED <<cache, memory, redis, conf, seen>>
  BY DEF PgSelect, PgWrite, At, Stores
<1>1. /\ r \in Request /\ r.proc \in Procs /\ r.id \in Ids
      /\ Fine(r, k, pg[r.id], redis[r.id], m, cache[r.proc][r.id])
  BY <1>0, Busy
<1>2. WritesTitled(r) /\ r.op \in {"create", "update", "delete"}
  BY <1>0, WaitingTitled DEF WritesTitled, Writing, AInv
<1>3. /\ "pg" \in k /\ Same(k, pg[r.id], redis[r.id], m) /\ pg[r.id] = m
      /\ Intends(r, m) /\ cache[r.proc][r.id] \in {Absent, Target(r)}
  BY <1>0, <1>1 DEF Fine, Same
<1>4. q = AsPending(r) /\ q.id = r.id /\ q.phase = "pending"
  BY <1>0, <1>2 DEF AsRequest, AsPending, Wrote
<1>5. CASE PgSelect(t)
  <2> DEFINE n == [r EXCEPT !.row = pg[r.id], !.pc = "pgWrite"]
  <2>1. task' = [task EXCEPT ![t] = n] /\ UNCHANGED pg
    <3>1. ~(r.op = "delete" /\ pg[r.id] = Absent)
      BY <1>3 DEF Intends
    <3>2. [r EXCEPT !.row = pg[r.id]].op = r.op /\ [r EXCEPT !.row = pg[r.id]].row = pg[r.id]
      BY <1>1 DEF Request
    <3> QED
      BY <1>5, <3>1, <3>2 DEF PgSelect, GoTo, Stores
  <2>2. /\ n.pc = "pgWrite" /\ n.row = pg[r.id] /\ n.proc = r.proc /\ n.id = r.id
        /\ n.op = r.op /\ n.arg = r.arg /\ n.ctx = r.ctx
    BY <1>1 DEF Request
  <2> HIDE DEF n
  <2>3. Intends(n, m) /\ Target(n) = Target(r)
    BY <1>3, <2>2 DEF Intends, Target
  <2>4. Fine(n, k, pg[r.id], redis[r.id], m, cache[r.proc][r.id])
    BY <1>2, <1>3, <2>2, <2>3 DEF Fine
  <2>5. Runs(t, n)
    BY <1>0, <1>1, <2>1, <2>2, <2>4 DEF Runs, Elsewhere
  <2>6. AsRequest(n) = q
    BY <1>2, <1>4, <2>2 DEF AsRequest, AsPending, Wrote
  <2>7. Hence(r.proc, r.id) = Current(r.proc, r.id)
    BY <1>0, <2>1 DEF Current, Hence
  <2> QED
    BY <1>0, <1>4, <2>2, <2>5, <2>6, <2>7 DEF Goes, Follows
<1>6. CASE PgWrite(t)
  <2> DEFINE pc == IF "redis" \in k THEN "rdWrite" ELSE "memory"
             n == [r EXCEPT !.row = Absent, !.pc = pc]
  <2>1. task' = [task EXCEPT ![t] = n]
    BY <1>6 DEF PgWrite, AfterPg, GoTo
  <2>2. /\ n.pc = pc /\ n.proc = r.proc /\ n.id = r.id
        /\ n.op = r.op /\ n.arg = r.arg /\ n.ctx = r.ctx
    BY <1>1 DEF Request
  <2>3. r.row = m /\ m \in Maybe(Titled)
    BY <1>1, <1>3, <1>6 DEF PgWrite, At, Fine, AInv, EInv, LocalCalm
  <2>4. (IF r.op = "delete" THEN Absent ELSE Merged(m, m, r.ctx)) = Target(r)
    <3>1. CASE r.op = "delete"
      BY <3>1 DEF Target
    <3>2. CASE r.op = "update"
      BY <1>2, <1>3, <2>3, <3>2, MergedSame DEF Target, Intends, WritesTitled, Maybe
    <3>3. CASE r.op = "create"
      BY <1>2, <1>3, <3>3, TitledFacts DEF Target, Intends, WritesTitled, Merged
    <3> QED
      BY <1>2, <3>1, <3>2, <3>3
  <2>5. pg' = [pg EXCEPT ![r.id] = Target(r)]
    BY <1>3, <1>6, <2>3, <2>4 DEF PgWrite
  <2>6. pg'[r.id] = Target(r) /\ Elsewhere(r.proc, r.id)
    BY <1>0, <1>1, <2>5 DEF Elsewhere, AInv, EInv
  <2> HIDE DEF n
  <2>7. Target(n) = Target(r)
    BY <2>2 DEF Target
  <2>8. Fine(n, k, Target(r), redis[r.id], m, cache[r.proc][r.id])
    <3>1. CASE "redis" \in k
      BY <1>2, <1>3, <2>2, <2>7, <3>1 DEF Fine
    <3>2. CASE "redis" \notin k
      BY <1>2, <1>3, <2>2, <2>7, <3>2 DEF Fine, Same
    <3> QED
      BY <3>1, <3>2
  <2>9. Runs(t, n)
    BY <1>0, <1>1, <2>1, <2>2, <2>6, <2>8 DEF Runs
  <2>10. AsRequest(n) = Atomic!Settled(r, Effect(r))
    <3>1. Wrote(n) /\ n.pc \notin {"idle", "done"}
      BY <1>3, <2>2 DEF Wrote
    <3> QED
      BY <2>2, <3>1 DEF AsRequest, Atomic!Settled, Effect, Atomic!Plain, Atomic!Found
  <2>11. Current(r.proc, r.id) = m /\ Hence(r.proc, r.id) = Target(r)
    BY <1>0, <1>3, <2>6 DEF Current, Hence
  <2>12. Follows(q, AsRequest(n), Current(r.proc, r.id), Hence(r.proc, r.id))
    BY <1>3, <1>4, <2>10, <2>11, IntendedEffect DEF Follows
  <2> QED
    BY <1>0, <1>4, <2>2, <2>9, <2>12 DEF Goes
<1> QED
  BY <1>5, <1>6

LEMMA RdWriteGoes ==
  ASSUME AInv, Alone, NEW t \in Tasks, RdWrite(t)
  PROVE  Goes(t, task[t].proc, AsRequest(task[t])) /\ UNCHANGED <<conf, seen>>
<1> DEFINE r == task[t]
           k == conf[r.proc]
           q == AsRequest(r)
           m == memory[r.proc][r.id]
           n == [r EXCEPT !.pc = "memory"]
<1>0. /\ r.pc = "rdWrite" /\ UNCHANGED <<cache, memory, pg, conf, seen>>
      /\ redis' = [redis EXCEPT ![r.id] = Target(r)] /\ task' = [task EXCEPT ![t] = n]
  BY DEF RdWrite, At, Overwritten, Target, GoTo
<1>1. /\ r \in Request /\ r.proc \in Procs /\ r.id \in Ids
      /\ Fine(r, k, pg[r.id], redis[r.id], m, cache[r.proc][r.id])
  BY <1>0, Busy
<1>2. r.op \in {"create", "update", "delete"}
  BY <1>0, WaitingTitled DEF WritesTitled, Writing, AInv
<1>3. /\ "redis" \in k /\ cache[r.proc][r.id] \in {Absent, Target(r)}
      /\ "pg" \in k => pg[r.id] = Target(r)
      /\ "pg" \notin k => redis[r.id] = m /\ Intends(r, m)
  BY <1>0, <1>1 DEF Fine
<1>4. redis'[r.id] = Target(r) /\ Elsewhere(r.proc, r.id)
  BY <1>0, <1>1 DEF Elsewhere, AInv, EInv
<1>5. /\ n.pc = "memory" /\ n.proc = r.proc /\ n.id = r.id
      /\ n.op = r.op /\ n.arg = r.arg /\ n.ctx = r.ctx
  BY <1>1 DEF Request
<1> HIDE DEF n
<1>6. Target(n) = Target(r)
  BY <1>5 DEF Target
<1>7. Fine(n, k, pg[r.id], Target(r), m, cache[r.proc][r.id])
  BY <1>2, <1>3, <1>5, <1>6 DEF Fine, Same
<1>8. Runs(t, n)
  BY <1>0, <1>1, <1>4, <1>5, <1>7 DEF Runs
<1>9. AsRequest(n) = Atomic!Settled(r, Effect(r))
  BY <1>5 DEF AsRequest, Wrote, Atomic!Settled, Effect, Atomic!Plain, Atomic!Found
<1>10. q.id = r.id
  BY DEF AsRequest
<1>11. CASE "pg" \in k
  <2>1. q = Atomic!Settled(r, Effect(r))
    BY <1>0, <1>11 DEF AsRequest, Wrote, Atomic!Settled, Effect, Atomic!Plain, Atomic!Found
  <2>2. Current(r.proc, r.id) = Hence(r.proc, r.id)
    BY <1>0, <1>11 DEF Current, Hence
  <2> QED
    BY <1>0, <1>5, <1>8, <1>9, <1>10, <2>1, <2>2 DEF Goes, Follows
<1>12. CASE "pg" \notin k
  <2>1. q = AsPending(r) /\ q.phase = "pending"
    BY <1>0, <1>2, <1>12 DEF AsRequest, Wrote, AsPending
  <2>2. Current(r.proc, r.id) = m /\ Hence(r.proc, r.id) = Target(r)
    BY <1>0, <1>3, <1>4, <1>12 DEF Current, Hence
  <2>3. Follows(q, AsRequest(n), Current(r.proc, r.id), Hence(r.proc, r.id))
    BY <1>3, <1>9, <1>12, <2>1, <2>2, IntendedEffect DEF Follows
  <2> QED
    BY <1>0, <1>5, <1>8, <1>10, <2>3 DEF Goes
<1> QED
  BY <1>11, <1>12

LEMMA FinishGoes ==
  ASSUME AInv, Alone, NEW t \in Tasks, Finish(t)
  PROVE  Goes(t, task[t].proc, AsRequest(task[t])) /\ UNCHANGED <<conf, seen>>
<1> DEFINE r == task[t]
           k == conf[r.proc]
           q == AsRequest(r)
<1>0. r.pc = "memory" /\ Conclude(t, r) /\ UNCHANGED <<cache, pg, redis, conf, seen>>
  BY DEF Finish, At, Stores
<1>1. /\ r.id \in Ids
      /\ Fine(r, k, pg[r.id], redis[r.id], memory[r.proc][r.id], cache[r.proc][r.id])
  BY <1>0, Busy
<1>2. WritesTitled(r) /\ k \subseteq {"pg", "redis"}
  BY <1>0, WaitingTitled, StorageAssumption
     DEF WritesTitled, Writing, Serving, AInv, EInv, TInv, TypeOK, Backends
<1>3. /\ k # {} /\ Same(k, pg[r.id], redis[r.id], Target(r))
      /\ cache[r.proc][r.id] \in {Absent, Target(r)}
  BY <1>0, <1>1 DEF Fine
<1>4. PICK n : /\ Runs(t, n) /\ n.proc = r.proc /\ n.id = r.id
               /\ AsRequest(n) = Atomic!Settled(r, Effect(r))
  BY <1>0, <1>2, <1>3, ConcludeRuns DEF Effect
<1>5. q = Atomic!Settled(r, Effect(r)) /\ q.id = r.id
  BY <1>0 DEF AsRequest, Wrote, Atomic!Settled, Effect, Atomic!Plain, Atomic!Found
<1>6. Current(r.proc, r.id) = Hence(r.proc, r.id)
  BY <1>0, <1>2, <1>3 DEF Current, Hence
<1> QED
  BY <1>0, <1>4, <1>5, <1>6 DEF Goes, Follows

(* No call fails in this setting, and nobody lists.                        *)
LEMMA StepGoes ==
  ASSUME AInv, Alone, NEW t \in Tasks, Step(t), ~Reply(t)
  PROVE  /\ task[t].pc # "idle"
         /\ Goes(t, task[t].proc, AsRequest(task[t])) /\ UNCHANGED <<conf, seen>>
<1>1. Faulty = {}
  BY DEF Alone
<1>2. ~RdReadFails(t)
  <2> SUFFICES ASSUME RdReadFails(t)
               PROVE  FALSE
    OBVIOUS
  <2>1. task[t].pc = "rdRead"
    BY DEF RdReadFails, At
  <2>2. redis[task[t].id] \in Maybe(Titled)
    BY <2>1, Busy DEF AInv, EInv
  <2> QED
    BY <1>1, <2>2, TitledFacts DEF RdReadFails, Maybe
<1>3. ~(\/ PgReadFails(t) \/ PgSelectFails(t) \/ PgWriteFails(t) \/ RdWriteFails(t)
        \/ PgListFails(t) \/ RdKeysFails(t))
  BY <1>1 DEF PgReadFails, PgSelectFails, PgWriteFails, RdWriteFails, PgListFails, RdKeysFails
<1>4. ~(PgList(t) \/ RdKeys(t) \/ RdScan(t) \/ RdScanned(t))
  <2> SUFFICES ASSUME task[t].pc \in {"pgList", "rdKeys", "rdScan"}
               PROVE  FALSE
    BY DEF PgList, RdKeys, RdScan, RdScanned, At
  <2> QED
    BY Busy, Waiting DEF AInv, EInv
<1>5. CASE PgRead(t) \/ RdRead(t) \/ Resume(t)
  BY <1>5, ReadStepGoes DEF PgRead, RdRead, Resume, At
<1>6. CASE PgSelect(t) \/ PgWrite(t)
  BY <1>6, PgStepGoes DEF PgSelect, PgWrite, At
<1>7. CASE RdWrite(t)
  BY <1>7, RdWriteGoes DEF RdWrite, At
<1>8. CASE Finish(t)
  BY <1>8, FinishGoes DEF Finish, At
<1> QED
  BY <1>2, <1>3, <1>4, <1>5, <1>6, <1>7, <1>8 DEF Step

-----------------------------------------------------------------------------
(* Requests arrive for contexts that nobody else is at.                    *)

(* Request a arrives at process p as t.                                    *)
Comes(p, t, a) == /\ Goes(t, p, Atomic!Pending(a)) /\ task[t].pc = "idle" /\ conf' = conf
                  /\ a.id \in Ids /\ \A u \in Tasks : task[u].id # a.id
                  /\ seen'[a.id] # "free"
                  /\ \A j \in Ids : seen'[j] = "free" => seen[j] = "free"

LEMMA PrimaryIs ==
  ASSUME Alone, NEW p \in Procs, NEW i \in Ids
  PROVE  Primary[i] = Current(p, i)
<1>1. p = CHOOSE x \in Procs : TRUE
  BY DEF Alone
<1> QED
  BY <1>1 DEF Primary, Current

LEMMA RequestComes ==
  ASSUME AInv, Alone, NEW p \in Procs, NEW t \in Tasks, NEW i \in Ids, NEW u \in Maybe(Patches),
         NEW op \in {"get", "update", "delete"}, op = "update" => u \in Patches,
         task[t].pc = "idle", Known(i), Free(i), Read(t, New(p, op, i, u)),
         seen' = seen \/ \E s \in Status \ {"free"} : seen' = [seen EXCEPT ![i] = s],
         UNCHANGED <<pg, redis, conf>>
  PROVE  Comes(p, t, [op |-> op, id |-> i, arg |-> u])
<1> DEFINE r == New(p, op, i, u)
           a == [op |-> op, id |-> i, arg |-> u]
<1>1. Serving(r) /\ r.proc = p /\ r.op = op /\ r.id = i /\ r.arg = u
  BY NewServing DEF AInv, EInv, AllOps
<1>2. r.row \in Maybe(Titled) /\ r.ctx \in Maybe(Titled)
  BY DEF New, Idle, Maybe
<1>3. Read(t, r)
  OBVIOUS
<1>4. \A v \in Tasks : task[v].id # i
  BY DEF Free, Alone
<1>5. AsPending(r) = Atomic!Pending(a)
  BY <1>1 DEF AsPending, Atomic!Pending
<1> HIDE DEF r
<1>6. Agreed(r)
  BY <1>1, <1>4 DEF Agreed, Same, AInv, Orderly, BackendsAgree
<1>7. Goes(t, r.proc, AsPending(r))
  BY <1>1, <1>2, <1>3, <1>6, ReadGoes DEF ReadsTitled, Alone
<1>8. seen[i] # "free"
  BY DEF Known
<1>9. seen'[i] # "free" /\ \A j \in Ids : seen'[j] = "free" => seen[j] = "free"
  BY <1>8 DEF AInv, EInv, TInv, TypeOK
<1> QED
  BY <1>1, <1>4, <1>5, <1>7, <1>9 DEF Comes

LEMMA CreateComes ==
  ASSUME AInv, Alone, NEW p \in Procs, NEW t \in Tasks, NEW i \in Ids, NEW title \in Titles,
         Create(p, t, i, title)
  PROVE  /\ Comes(p, t, [op |-> "create", id |-> i, arg |-> [title |-> title, done |-> FALSE]])
         /\ Primary[i] = Absent
<1> DEFINE c == [title |-> title, done |-> FALSE]
           n == New(p, "create", i, Absent)
           r == [n EXCEPT !.ctx = c]
           a == [op |-> "create", id |-> i, arg |-> c]
<1>1. c \in Titled /\ c \in Context /\ c.done = FALSE
  BY DEF Titled, Context
<1>2. Serving(n) /\ n.proc = p /\ n.op = "create" /\ n.id = i
  BY NewServing DEF AInv, EInv, AllOps, Maybe
<1>3. n.row \in Maybe(Titled)
  BY DEF New, Idle, Maybe
<1>4. /\ task[t].pc = "idle" /\ seen[i] = "free" /\ seen' = [seen EXCEPT ![i] = "new"]
      /\ Remember(r, c) /\ Write(t, r) /\ UNCHANGED <<pg, redis, conf>>
  BY DEF Create
<1> HIDE DEF c, n
<1>5. /\ WritesTitled(r) /\ r.proc = p /\ r.id = i /\ r.op = "create" /\ r.ctx = c
  BY <1>1, <1>2, <1>3 DEF WritesTitled, Writing, Serving, Request, Maybe
<1> HIDE DEF r
<1>6. /\ pg[i] = Absent /\ redis[i] = Absent /\ memory[p][i] = Absent
      /\ \A u \in Tasks : task[u].id # i
  BY <1>4 DEF AInv, Orderly, Unborn
<1>7. /\ \A j \in Ids \ {r.id} : cache'[r.proc][j] = cache[r.proc][j]
      /\ cache'[r.proc][r.id] = Target(r)
  BY <1>4, <1>5 DEF Remember, Target, AInv, EInv, LocalCalm
<1>8. /\ Intends(r, memory[r.proc][r.id])
      /\ Same(conf[r.proc], pg[r.id], redis[r.id], memory[r.proc][r.id])
  BY <1>1, <1>5, <1>6 DEF Intends, Same
<1>9. Goes(t, r.proc, AsPending(r))
  BY <1>4, <1>5, <1>7, <1>8, WriteGoes
<1>10. AsPending(r) = Atomic!Pending(a)
  BY <1>5 DEF AsPending, Atomic!Pending
<1>11. seen'[i] # "free" /\ \A j \in Ids : seen'[j] = "free" => seen[j] = "free"
  BY <1>4 DEF AInv, EInv, TInv, TypeOK
<1>12. Primary[i] = Absent
  BY <1>6, PrimaryIs DEF Current
<1> QED
  BY <1>4, <1>5, <1>6, <1>9, <1>10, <1>11, <1>12 DEF Comes, c

LEMMA ArriveComes ==
  ASSUME AInv, Alone, NEW p \in Procs, NEW t \in Tasks, Arrive(p, t)
  PROVE  \E a \in Atomic!Requests : Comes(p, t, a)
<1>1. ASSUME NEW i \in Ids, NEW title \in Titles, Create(p, t, i, title)
      PROVE  \E a \in Atomic!Requests : Comes(p, t, a)
  <2> DEFINE a == [op |-> "create", id |-> i, arg |-> [title |-> title, done |-> FALSE]]
  <2>1. Comes(p, t, a) /\ Primary[i] = Absent /\ "create" \in Ops
    BY <1>1, CreateComes DEF Create
  <2>2. a \in Atomic!Requests
    BY <2>1 DEF Atomic!Requests
  <2> QED
    BY <2>1, <2>2
<1>2. ASSUME NEW i \in Ids, Get(p, t, i)
      PROVE  \E a \in Atomic!Requests : Comes(p, t, a)
  <2> DEFINE a == [op |-> "get", id |-> i, arg |-> Absent]
  <2>1. Comes(p, t, a) /\ "get" \in Ops
    BY <1>2, RequestComes DEF Get, Maybe
  <2>2. a \in Atomic!Requests
    BY <2>1 DEF Atomic!Requests
  <2> QED
    BY <2>1, <2>2
<1>3. ASSUME NEW i \in Ids, NEW u \in Patches, Update(p, t, i, u)
      PROVE  \E a \in Atomic!Requests : Comes(p, t, a)
  <2> DEFINE a == [op |-> "update", id |-> i, arg |-> u]
  <2>1. Comes(p, t, a) /\ "update" \in Ops
    BY <1>3, RequestComes DEF Update, Maybe
  <2>2. a \in Atomic!Requests
    BY <2>1 DEF Atomic!Requests
  <2> QED
    BY <2>1, <2>2
<1>4. ASSUME NEW i \in Ids, Delete(p, t, i)
      PROVE  \E a \in Atomic!Requests : Comes(p, t, a)
  <2> DEFINE a == [op |-> "delete", id |-> i, arg |-> Absent]
  <2>1. seen' = seen \/ \E s \in Status \ {"free"} : seen' = [seen EXCEPT ![i] = s]
    <3>1. seen[i] # "free" /\ seen[i] \in Status
      BY <1>4 DEF Delete, Known, AInv, EInv, TInv, TypeOK
    <3>2. (IF seen[i] \in {"new", "live"} THEN "dying" ELSE seen[i]) \in Status \ {"free"}
      BY <3>1 DEF Status
    <3> QED
      BY <1>4, <3>2 DEF Delete
  <2>2. Comes(p, t, a) /\ "delete" \in Ops
    BY <1>4, <2>1, RequestComes DEF Delete, Maybe
  <2>3. a \in Atomic!Requests
    BY <2>2 DEF Atomic!Requests
  <2> QED
    BY <2>2, <2>3
<1>5. ~List(p, t)
  BY DEF List, Alone
<1> QED
  BY <1>1, <1>2, <1>3, <1>4, <1>5 DEF Arrive

-----------------------------------------------------------------------------
(* The steps of the store are steps of the abstract one.                   *)

(* The requests of the refinement mapping.                                 *)
Seen == [t \in Tasks |-> AsRequest(task[t])]

LEMMA PrimaryFunction ==
  ASSUME Alone, EInv
  PROVE  Primary \in [Ids -> Maybe(Titled)]
<1>1. PICK p \in Procs : p = CHOOSE x \in Procs : TRUE
  BY DEF Alone
<1>2. memory[p] \in [Ids -> Maybe(Titled)] /\ pg \in [Ids -> Maybe(Titled)]
      /\ redis \in [Ids -> Maybe(Titled)]
  BY DEF EInv, LocalCalm
<1> QED
  BY <1>1, <1>2 DEF Primary

LEMMA PrimaryStep ==
  ASSUME Alone, EInv, EInv', NEW p \in Procs, NEW i \in Ids, conf' = conf, Elsewhere(p, i)
  PROVE  Primary' = [Primary EXCEPT ![i] = Hence(p, i)]
<1>1. p = CHOOSE x \in Procs : TRUE
  BY DEF Alone
<1>2. /\ Primary = IF "pg" \in conf[p] THEN pg
                     ELSE IF "redis" \in conf[p] THEN redis ELSE memory[p]
      /\ Primary' = IF "pg" \in conf[p] THEN pg'
                      ELSE IF "redis" \in conf[p] THEN redis' ELSE memory'[p]
  BY <1>1 DEF Primary
<1>3. /\ pg \in [Ids -> Maybe(Titled)] /\ pg' \in [Ids -> Maybe(Titled)]
      /\ redis \in [Ids -> Maybe(Titled)] /\ redis' \in [Ids -> Maybe(Titled)]
      /\ memory[p] \in [Ids -> Maybe(Titled)] /\ memory'[p] \in [Ids -> Maybe(Titled)]
  BY DEF EInv, LocalCalm
<1>4. CASE "pg" \in conf[p]
  BY <1>2, <1>3, <1>4 DEF Hence, Elsewhere
<1>5. CASE "pg" \notin conf[p] /\ "redis" \in conf[p]
  BY <1>2, <1>3, <1>5 DEF Hence, Elsewhere
<1>6. CASE "pg" \notin conf[p] /\ "redis" \notin conf[p]
  BY <1>2, <1>3, <1>6 DEF Hence, Elsewhere
<1> QED
  BY <1>4, <1>5, <1>6

LEMMA RunsStep ==
  ASSUME AInv, Alone, EInv', NEW t \in Tasks, NEW n, Runs(t, n), conf' = conf
  PROVE  /\ Seen' = [Seen EXCEPT ![t] = AsRequest(n)]
         /\ Primary' = [Primary EXCEPT ![n.id] = Hence(n.proc, n.id)]
         /\ Primary[n.id] = Current(n.proc, n.id)
<1>1. n.proc \in Procs /\ n.id \in Ids /\ Elsewhere(n.proc, n.id)
  BY DEF Runs
<1>2. \A u \in Tasks : task'[u] = IF u = t THEN n ELSE task[u]
  BY DEF Runs, AInv, EInv, TInv, TypeOK
<1>3. ASSUME NEW u \in Tasks
      PROVE  AsRequest(task[u])' = AsRequest(task'[u])
  BY DEF AsRequest, Wrote
<1>4. Seen' = [Seen EXCEPT ![t] = AsRequest(n)]
  BY <1>2, <1>3 DEF Seen
<1> QED
  BY <1>1, <1>4, PrimaryIs, PrimaryStep DEF AInv

LEMMA StepRefines ==
  ASSUME AInv, Alone, EInv', NEW t \in Tasks, Step(t), ~Reply(t)
  PROVE  Orderly' /\ (Atomic!Perform(t) \/ UNCHANGED <<Primary, Seen>>)
<1> DEFINE q == AsRequest(task[t])
           old == Current(task[t].proc, task[t].id)
           new == Hence(task[t].proc, task[t].id)
<1>1. /\ task[t].pc # "idle" /\ task[t].id \in Ids /\ seen[task[t].id] # "free"
      /\ Goes(t, task[t].proc, q) /\ UNCHANGED <<conf, seen>>
  BY StepGoes, Busy
<1>2. q.id = task[t].id /\ q.op # "list"
  BY <1>1, Busy DEF AsRequest
<1>3. PICK n : /\ Runs(t, n) /\ n.proc = task[t].proc /\ n.id = task[t].id
               /\ Follows(q, AsRequest(n), old, new)
  BY <1>1, <1>2 DEF Goes
<1>4. Orderly'
  BY <1>1, <1>3, Moved
<1>5. /\ Seen' = [Seen EXCEPT ![t] = AsRequest(n)]
      /\ Primary' = [Primary EXCEPT ![q.id] = new]
      /\ Primary[q.id] = old
  BY <1>1, <1>2, <1>3, RunsStep
<1>6. Seen[t] = q
  BY DEF Seen
<1>7. Primary = [Primary EXCEPT ![q.id] = old]
  BY <1>1, <1>2, <1>5, PrimaryFunction DEF AInv
<1> HIDE DEF q, old, new
<1>8. CASE AsRequest(n) = q /\ new = old
  BY <1>4, <1>5, <1>6, <1>7, <1>8 DEF Seen
<1>9. CASE q.phase = "pending" /\ AsRequest(n) = Atomic!Settled(q, Atomic!Response(q, old))
                               /\ new = Atomic!After(q, old)
  BY <1>2, <1>4, <1>5, <1>6, <1>9 DEF Atomic!Perform, Atomic!TakeEffect, Seen
<1> QED
  BY <1>3, <1>4, <1>8, <1>9 DEF Follows

LEMMA ArriveRefines ==
  ASSUME AInv, Alone, EInv', NEW p \in Procs, NEW t \in Tasks, Arrive(p, t)
  PROVE  Orderly' /\ Atomic!Arrive(t)
<1>1. PICK a \in Atomic!Requests : Comes(p, t, a)
  BY ArriveComes
<1> DEFINE q == Atomic!Pending(a)
           old == Current(p, a.id)
           new == Hence(p, a.id)
<1>2. /\ q.phase = "pending" /\ q.op = a.op /\ q.id = a.id /\ q.arg = a.arg
      /\ a.op # "list"
  <2>1. \/ a.op \in Ops \intersect {"create"} \/ a.op \in Ops \intersect {"get", "delete"}
        \/ a.op \in Ops \intersect {"update"} \/ a.op \in Ops \intersect {"list"}
    BY <1>1 DEF Atomic!Requests
  <2>2. a.op # "list"
    BY <2>1 DEF Alone
  <2> QED
    BY <2>2 DEF Atomic!Pending
<1>3. PICK n : /\ Runs(t, n) /\ n.proc = p /\ n.id = a.id
               /\ Follows(q, AsRequest(n), old, new)
  BY <1>1, <1>2 DEF Comes, Goes
<1>4. Orderly'
  BY <1>1, <1>3, Moved DEF Comes
<1>5. /\ Seen' = [Seen EXCEPT ![t] = AsRequest(n)]
      /\ Primary' = [Primary EXCEPT ![a.id] = new]
      /\ Primary[a.id] = old
  BY <1>1, <1>3, RunsStep DEF Comes
<1>6. Seen[t].phase = "idle"
  BY <1>1 DEF Seen, AsRequest, Comes
<1>7. Primary = [Primary EXCEPT ![a.id] = old]
  BY <1>1, <1>5, PrimaryFunction DEF Comes, AInv
<1>8. /\ Atomic!Settled(q, Atomic!Response(q, old)) = Atomic!Settled(a, Atomic!Response(a, old))
      /\ Atomic!After(q, old) = Atomic!After(a, old)
  BY <1>2 DEF Atomic!Settled, Atomic!Response, Atomic!After
<1> HIDE DEF q, old, new
<1>10. CASE AsRequest(n) = q /\ new = old
  BY <1>4, <1>5, <1>6, <1>7, <1>10 DEF q, Atomic!Arrive, Seen
<1>11. CASE AsRequest(n) = Atomic!Settled(q, Atomic!Response(q, old)) /\ new = Atomic!After(q, old)
  BY <1>2, <1>4, <1>5, <1>6, <1>8, <1>11 DEF Atomic!Arrive, Atomic!TakeEffect, Seen
<1> QED
  BY <1>3, <1>4, <1>10, <1>11 DEF Follows

LEMMA ReplyRefines ==
  ASSUME AInv, Alone, NEW t \in Tasks, Reply(t)
  PROVE  Orderly' /\ Atomic!Return(t)
<1> DEFINE r == task[t]
           i == r.id
<1>1. /\ r.pc = "done" /\ task' = [task EXCEPT ![t] = Idle]
      /\ UNCHANGED <<cache, memory, pg, redis, conf>>
  BY DEF Reply, At, Stores
<1>2. \A u \in Tasks : task'[u] = IF u = t THEN Idle ELSE task[u]
  BY <1>1 DEF AInv, EInv, TInv, TypeOK
<1>3. /\ i \in Ids /\ \A p \in Procs : p = r.proc
      /\ Same(conf[r.proc], pg[i], redis[i], memory[r.proc][i])
      /\ cache[r.proc][i] \in {Absent, memory[r.proc][i]}
  BY <1>1, Busy DEF Fine, Alone
<1>4. \A j \in Ids : seen'[j] = "free" => seen[j] = "free"
  BY <1>3 DEF Reply, AInv, EInv, TInv, TypeOK
<1>5. Idle.pc = "idle" /\ Idle.id = Absent
  BY DEF Idle
<1>6. AllFine'
  BY <1>1, <1>2, <1>5 DEF AllFine, AInv, Orderly
<1>7. Apart'
  BY <1>2, <1>5 DEF Apart, AInv, Orderly
<1>8. Unborn'
  BY <1>1, <1>2, <1>4, <1>5 DEF Unborn, AInv, Orderly, Alone
<1>9. BackendsAgree'
  BY <1>1, <1>2, <1>3 DEF BackendsAgree, Same, AInv, Orderly
<1>10. \A u \in Tasks : AsRequest(task[u])' = IF u = t THEN AsRequest(Idle) ELSE AsRequest(task[u])
  BY <1>1, <1>2 DEF AsRequest, Wrote
<1>11. Seen[t].phase = "settled" /\ Seen' = [Seen EXCEPT ![t] = Atomic!Idle]
  <2>1. AsRequest(Idle) = Atomic!Idle
    BY DEF AsRequest, Idle, Atomic!Idle
  <2>2. AsRequest(r).phase = "settled"
    BY <1>1 DEF AsRequest
  <2> QED
    BY <1>10, <2>1, <2>2 DEF Seen
<1>12. Primary' = Primary
  BY <1>1 DEF Primary
<1> QED
  BY <1>6, <1>7, <1>8, <1>9, <1>11, <1>12 DEF Orderly, Atomic!Return, Seen

(* The cache forgets: nobody notices.                                      *)
LEMMA ForgetRefines ==
  ASSUME AInv, Alone, NEW p \in Procs, NEW i \in Ids, Forget(p, i)
  PROVE  Orderly' /\ UNCHANGED <<Primary, Seen>>
<1>1. UNCHANGED <<memory, pg, redis, conf, task, seen>>
  BY DEF Forget, Stores
<1>2. \A o \in Procs, j \in Ids : cache'[o][j] \in {cache[o][j], Absent}
  BY DEF Forget, AInv, EInv, LocalCalm
<1>3. AllFine'
  <2> SUFFICES ASSUME NEW u \in Tasks, task[u].pc # "idle"
               PROVE  LET r == task[u]
                      IN Fine(r, conf[r.proc], pg[r.id], redis[r.id],
                              memory[r.proc][r.id], cache'[r.proc][r.id])
    BY <1>1 DEF AllFine, AInv, Orderly
  <2> DEFINE r == task[u]
  <2>1. /\ r.proc \in Procs /\ r.id \in Ids
        /\ Fine(r, conf[r.proc], pg[r.id], redis[r.id],
                memory[r.proc][r.id], cache[r.proc][r.id])
    BY Busy
  <2> QED
    BY <1>2, <2>1 DEF Fine
<1>4. Apart' /\ Unborn' /\ BackendsAgree'
  BY <1>1, <1>2 DEF AInv, Orderly, Apart, Unborn, BackendsAgree
<1>5. UNCHANGED <<Primary, Seen>>
  BY <1>1 DEF Primary, Seen, AsRequest, Wrote
<1> QED
  BY <1>3, <1>4, <1>5 DEF Orderly

LEMMA NextRefines ==
  ASSUME Alone, AInv, [Next]_vars
  PROVE  AInv' /\ [Atomic!Next]_(Atomic!vars)
<1>1. EInv'
  BY NextCalm DEF AInv, Alone
<1> SUFFICES Orderly' /\ (Atomic!Next \/ UNCHANGED <<Primary, Seen>>)
  BY <1>1 DEF AInv, Atomic!vars, Seen
<1>2. ASSUME NEW p \in Procs, NEW t \in Tasks, Arrive(p, t)
      PROVE  Orderly' /\ Atomic!Next
  BY <1>1, <1>2, ArriveRefines DEF Atomic!Next
<1>3. ASSUME NEW t \in Tasks, Step(t)
      PROVE  Orderly' /\ (Atomic!Next \/ UNCHANGED <<Primary, Seen>>)
  <2>1. CASE Reply(t)
    BY <2>1, ReplyRefines DEF Atomic!Next
  <2>2. CASE ~Reply(t)
    BY <1>1, <1>3, <2>2, StepRefines DEF Atomic!Next
  <2> QED
    BY <2>1, <2>2
<1>4. ASSUME NEW p \in Procs, NEW i \in Ids, Forget(p, i)
      PROVE  Orderly' /\ UNCHANGED <<Primary, Seen>>
  BY <1>4, ForgetRefines
<1>5. ASSUME NEW p \in Procs
      PROVE  ~Restart(p)
  BY DEF Restart, Alone, AInv, EInv, TInv, TypeOK
<1>6. CASE UNCHANGED vars
  BY <1>6 DEF vars, AInv, Orderly, AllFine, Apart, Unborn, BackendsAgree, Primary, Seen,
              AsRequest, Wrote
<1> QED
  BY <1>2, <1>3, <1>4, <1>5, <1>6 DEF Next

LEMMA InitRefines ==
  ASSUME Alone, Init
  PROVE  AInv /\ Atomic!Init
<1>1. EInv
  BY InitCalm
<1>2. Idle.pc = "idle" /\ Idle.id = Absent /\ \A t \in Tasks : task[t] = Idle
  BY DEF Init, Idle
<1>3. AllFine /\ Apart
  BY <1>2 DEF AllFine, Apart
<1>4. Unborn /\ BackendsAgree
  BY <1>2 DEF Unborn, BackendsAgree, Init, Empty, Alone
<1>5. Primary = [i \in Ids |-> Absent]
  BY DEF Primary, Init, Empty, Alone
<1>6. Seen = [t \in Tasks |-> Atomic!Idle]
  <2>1. AsRequest(Idle) = Atomic!Idle
    BY DEF AsRequest, Idle, Atomic!Idle
  <2> QED
    BY <1>2, <2>1 DEF Seen
<1> QED
  BY <1>1, <1>3, <1>4, <1>5, <1>6 DEF AInv, Orderly, Atomic!Init, Seen

LEMMA AtomicInvariant == ASSUME Alone PROVE Spec => []AInv
<1>1. AInv /\ [Next]_vars => AInv'
  BY NextRefines
<1>2. Init => AInv
  BY InitRefines
<1> QED
  BY <1>1, <1>2, PTL DEF Spec

(* The backends agree when nobody is at a context: for any number of       *)
(* requests and contexts, whichever of the backends the process found.     *)
THEOREM BackendsAreReconciled == ASSUME Alone PROVE Spec => []BackendsAgree
<1>1. AInv => BackendsAgree
  BY DEF AInv, Orderly
<1> QED
  BY <1>1, AtomicInvariant, PTL

(* There, write path, read path, cache and suspensions come down to one    *)
(* map from ids to contexts, whose operations are atomic.                  *)
THEOREM StoreIsAtomic == ASSUME Alone PROVE Spec => ImplementsContextStore
<1>1. Init => Atomic!Init
  BY InitRefines
<1>2. AInv /\ [Next]_vars => [Atomic!Next]_(Atomic!vars)
  BY NextRefines
<1> QED
  BY <1>1, <1>2, AtomicInvariant, PTL DEF Spec, ImplementsContextStore, Atomic!Spec
=============================================================================
