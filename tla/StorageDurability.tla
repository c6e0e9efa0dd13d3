-------------------------- MODULE StorageDurability --------------------------
(***************************************************************************)
(* What the context store promises when PostgreSQL is configured, reachable *)
(* when a process starts and does not fail.  With any number of processes  *)
(* and overlapping requests, whatever Redis does, however caches forget    *)
(* and processes die: an acknowledged context is found, and a confirmed    *)
(* deletion leaves the caches.  With one process that serves the requests  *)
(* of a context one at a time: the store implements the atomic ContextStore *)
(* through crashes, a deleted context stays gone and a PUT changes what it *)
(* passes.                                                                 *)
(***************************************************************************)
EXTENDS StorageAtomicity

PgSure == "pg" \in Configured \ (Optional \union Faulty)

(* What makes one request safe, its record being r, the rows g and what    *)
(* the clients know s.  A create has its row once it is past PostgreSQL, a *)
(* delete is known to be under way, and a read that began after the        *)
(* acknowledgement has seen the row, unless someone asked to delete it.    *)
Creating(r, g, s) ==
  r.op = "create" =>
    /\ r.pc # "idle" => s[r.id] # "free"
    /\ r.pc \in {"pgSelect", "pgWrite"} => Valid(r.ctx)
    /\ s[r.id] = "new" /\ (r.pc \in {"rdWrite", "memory", "done"}
                             \/ (r.pc = "pgWrite" /\ r.row # Absent)) => g[r.id] # Absent
Deleting(r, s) == /\ r.pc # "idle" /\ r.op = "delete" => s[r.id] \in {"dying", "dead"}
                  /\ r.pc = "done" /\ r.res.kind = "removed" => r.op = "delete"
Since(r, s) == \A i \in Ids : r.before[i] = "live" => s[i] \in {"live", "dying", "dead"}
Reading(r, s) == \A i \in Ids : r.before[i] = "live" /\ s[i] = "live" =>
                   /\ r.pc = "got" /\ r.id = i => r.row # Absent
                   /\ r.pc = "done" => ~Denies(r, i)
Safe(r, g, s) == /\ r.pc \notin {"rdRead", "rdKeys", "rdScan"}
                 /\ Creating(r, g, s) /\ Deleting(r, s) /\ Since(r, s) /\ Reading(r, s)

DInv == /\ TInv
        /\ \A p \in Procs : "pg" \in conf[p]
        /\ \A i \in Ids : seen[i] = "live" => pg[i] # Absent
        /\ \A t \in Tasks : Safe(task[t], pg, seen)

(* How rows and the clients' knowledge may change in a step.               *)
Evolves(g, s, g2, s2) ==
  \A i \in Ids :
    /\ g[i] # Absent /\ g2[i] = Absent => s[i] \in {"dying", "dead"}
    /\ \/ s2[i] = s[i]
       \/ s[i] = "free" /\ s2[i] = "new"
       \/ s[i] = "new" /\ s2[i] = "live" /\ g2[i] # Absent
       \/ s[i] \in {"new", "live"} /\ s2[i] = "dying"
       \/ s[i] \in {"dying", "dead"} /\ s2[i] = "dead"

LEMMA StaysSafe ==
  ASSUME NEW r, Good(r), NEW g, NEW s, NEW g2, NEW s2,
         Evolves(g, s, g2, s2), Safe(r, g, s)
  PROVE  Safe(r, g2, s2)
<1>1. r.pc # "idle" /\ r.op # "list" => r.id \in Ids
  BY DEF Good, Shape
<1>2. Creating(r, g2, s2)
  BY <1>1 DEF Safe, Creating, Evolves
<1>3. Deleting(r, s2)
  BY <1>1 DEF Safe, Deleting, Evolves
<1>4. Since(r, s2)
  BY DEF Safe, Since, Evolves
<1>5. Reading(r, s2)
  BY DEF Safe, Since, Reading, Evolves
<1> QED
  BY <1>2, <1>3, <1>4, <1>5 DEF Safe

(* A step of one request preserves the invariant if it leaves that request *)
(* safe and the rest of the world evolves as it may.                       *)
LEMMA OneStep ==
  ASSUME DInv, TInv', NEW t \in Tasks, NEW r, task' = [task EXCEPT ![t] = r],
         conf' = conf, Evolves(pg, seen, pg', seen'), Safe(r, pg', seen')
  PROVE  DInv'
<1>1. \A u \in Tasks : Safe(task[u], pg', seen')
  BY StaysSafe DEF DInv, TInv, TypeOK, Good
<1>2. \A u \in Tasks : Safe(task'[u], pg', seen')
  BY <1>1 DEF DInv, TInv, TypeOK
<1>3. \A i \in Ids : seen'[i] = "live" => pg'[i] # Absent
  BY DEF DInv, Evolves
<1> QED
  BY <1>2, <1>3 DEF DInv

-----------------------------------------------------------------------------

Step1(t, g, s) == \E r : task' = [task EXCEPT ![t] = r] /\ Safe(r, g, s)

(* A request that reads, with what it may still answer.                    *)
Base(r, s) == /\ r.op \in {"get", "update", "delete"}
              /\ r.op = "delete" => s[r.id] \in {"dying", "dead"}
              /\ Since(r, s)

LEMMA AnswerSafe ==
  ASSUME NEW t \in Tasks, NEW r \in Request, NEW g, NEW s, NEW kind, NEW body,
         r.op # "create", r.op = "delete" => s[r.id] \in {"dying", "dead"}, Since(r, s),
         kind = "removed" => r.op = "delete",
         \A i \in Ids : r.before[i] = "live" /\ s[i] = "live" =>
           /\ r.id = i => kind # "none"
           /\ kind = "listed" => i \in body,
         Answer(t, r, kind, body)
  PROVE  Step1(t, g, s)
<1> DEFINE done == [Idle EXCEPT !.pc = "done", !.proc = r.proc, !.op = r.op, !.id = r.id,
                                !.before = r.before, !.res = [kind |-> kind, body |-> body]]
<1>1. /\ done.pc = "done" /\ done.op = r.op /\ done.id = r.id /\ done.before = r.before
      /\ done.res.kind = kind /\ done.res.body = body
  BY DEF Idle
<1>2. task' = [task EXCEPT ![t] = done]
  BY DEF Answer
<1> HIDE DEF done
<1>3. Safe(done, g, s)
  BY <1>1 DEF Safe, Creating, Deleting, Since, Reading, Denies
<1> QED
  BY <1>2, <1>3 DEF Step1

LEMMA WriteSafe ==
  ASSUME DInv, NEW t \in Tasks, NEW r, Serving(r), NEW g, NEW s,
         r.op = "delete" => s[r.id] \in {"dying", "dead"}, Since(r, s),
         r.op = "create" => s[r.id] # "free" /\ Valid(r.ctx), Write(t, r)
  PROVE  Step1(t, g, s)
<1> DEFINE next == [r EXCEPT !.pc = "pgSelect"]
<1>1. "pg" \in conf[r.proc]
  BY DEF DInv, Serving
<1>2. task' = [task EXCEPT ![t] = next]
  BY <1>1 DEF Write, GoTo
<1>3. /\ next.pc = "pgSelect" /\ next.op = r.op /\ next.id = r.id
      /\ next.before = r.before /\ next.ctx = r.ctx
  BY DEF Serving, Request
<1> HIDE DEF next
<1>4. Safe(next, g, s)
  BY <1>3 DEF Safe, Creating, Deleting, Since, Reading
<1> QED
  BY <1>2, <1>4 DEF Step1

LEMMA ProceedSafe ==
  ASSUME DInv, NEW t \in Tasks, NEW r, Serving(r), NEW g, NEW s, NEW c, NEW fill,
         Base(r, s), Proceed(t, r, c, fill)
  PROVE  Step1(t, g, s)
<1>1. CASE r.op = "get" /\ Answer(t, r, "found", c)
  BY <1>1, AnswerSafe DEF Base, Serving
<1>2. CASE r.op = "update" /\ Write(t, [r EXCEPT !.ctx = Patched(c, r.arg)])
  <2> DEFINE next == [r EXCEPT !.ctx = Patched(c, r.arg)]
  <2>1. Step1(t, g, s)
    <3> DEFINE last == [next EXCEPT !.pc = "pgSelect"]
    <3>1. "pg" \in conf[r.proc] /\ next.proc = r.proc
      BY DEF DInv, Serving, Request
    <3>2. task' = [task EXCEPT ![t] = last]
      BY <1>2, <3>1 DEF Write, GoTo
    <3>3. /\ last.pc = "pgSelect" /\ last.op = "update" /\ last.before = r.before
      BY <1>2 DEF Serving, Request
    <3> HIDE DEF last
    <3>4. Safe(last, g, s)
      BY <3>3 DEF Base, Safe, Creating, Deleting, Since, Reading
    <3> QED
      BY <3>2, <3>4 DEF Step1
  <2> QED
    BY <2>1
<1>3. CASE r.op = "delete" /\ Write(t, r)
  BY <1>3, WriteSafe DEF Base
<1> QED
  BY <1>1, <1>2, <1>3 DEF Proceed

LEMMA StopSafe ==
  ASSUME NEW t \in Tasks, NEW r \in Request, NEW g, NEW s, NEW kind \in {"none", "error"},
         Base(r, s), Stop(t, r, kind),
         \A i \in Ids : r.before[i] = "live" /\ s[i] = "live" /\ r.id = i => kind # "none"
  PROVE  Step1(t, g, s)
  BY AnswerSafe DEF Stop, Base

LEMMA ReadSafe ==
  ASSUME DInv, NEW t \in Tasks, NEW r, Serving(r), NEW g, NEW s, Base(r, s), Read(t, r)
  PROVE  Step1(t, g, s)
<1> DEFINE c == cache[r.proc][r.id]
<1>1. "pg" \in conf[r.proc]
  BY DEF DInv, Serving
<1>2. CASE Proceed(t, r, c, FALSE)
  BY <1>2, ProceedSafe
<1>3. CASE Stop(t, r, "error")
  BY <1>3, StopSafe DEF Serving
<1>4. CASE GoTo(t, r, "pgRead")
  <2> DEFINE next == [r EXCEPT !.pc = "pgRead"]
  <2>1. next.pc = "pgRead" /\ next.op = r.op /\ next.id = r.id /\ next.before = r.before
    BY DEF Serving, Request
  <2>2. task' = [task EXCEPT ![t] = next]
    BY <1>4 DEF GoTo
  <2> HIDE DEF next
  <2>3. Safe(next, g, s)
    BY <2>1 DEF Base, Safe, Creating, Deleting, Since, Reading
  <2> QED
    BY <2>2, <2>3 DEF Step1
<1> QED
  BY <1>1, <1>2, <1>3, <1>4 DEF Read

-----------------------------------------------------------------------------

LEMMA ArriveKeeps ==
  ASSUME DInv, TInv', NEW p \in Procs, NEW t \in Tasks, Arrive(p, t)
  PROVE  DInv'
<1>0. TInv /\ seen \in [Ids -> Status]
  BY DEF DInv, TInv, TypeOK
<1>1. ASSUME NEW i \in Ids, NEW title \in Titles, Create(p, t, i, title)
      PROVE  DInv'
  <2> DEFINE c == [title |-> title, done |-> FALSE]
             n == New(p, "create", i, Absent)
             r == [n EXCEPT !.ctx = c]
  <2>1. c \in Context /\ Valid(c)
    BY StorageAssumption DEF Context, Valid
  <2>2. Serving(n) /\ n.op = "create" /\ n.id = i /\ n.before = seen
    <3>1. Serving(n) /\ n.op = "create" /\ n.id = i
      BY <1>0, NewServing DEF AllOps, Maybe
    <3> QED
      BY <3>1 DEF New, Idle
  <2>3. Serving(r) /\ r.op = "create" /\ r.id = i /\ r.before = seen /\ r.ctx = c
    <3> HIDE DEF n, c
    <3> QED
      BY <2>1, <2>2 DEF Serving, Request, Maybe
  <2>4. /\ seen[i] = "free" /\ seen' = [seen EXCEPT ![i] = "new"]
        /\ Write(t, r) /\ pg' = pg /\ conf' = conf
    BY <1>1 DEF Create
  <2> HIDE DEF c, n, r
  <2>5. Evolves(pg, seen, pg', seen')
    BY <1>0, <2>4 DEF Evolves
  <2>6. Since(r, seen') /\ seen'[i] = "new"
    BY <1>0, <2>3, <2>4 DEF Since
  <2>7. Step1(t, pg', seen')
    BY <2>1, <2>3, <2>4, <2>6, WriteSafe
  <2> QED
    BY <2>4, <2>5, <2>7, OneStep DEF Step1
<1>2. ASSUME NEW i \in Ids, NEW u \in Maybe(Patches), NEW op \in {"get", "update", "delete"},
             Read(t, New(p, op, i, u)), pg' = pg, conf' = conf,
             Evolves(pg, seen, pg', seen'), op = "delete" => seen'[i] \in {"dying", "dead"}
      PROVE  DInv'
  <2> DEFINE r == New(p, op, i, u)
  <2>1. Serving(r) /\ r.op = op /\ r.id = i
    BY <1>0, NewServing DEF AllOps
  <2>2. r.before = seen
    BY DEF New, Idle
  <2>3. Read(t, r)
    BY <1>2
  <2> HIDE DEF r
  <2>4. Base(r, seen')
    BY <1>2, <2>1, <2>2 DEF Base, Since, Evolves
  <2>5. Step1(t, pg', seen')
    BY <2>1, <2>3, <2>4, ReadSafe
  <2> QED
    BY <1>2, <2>5, OneStep DEF Step1
<1>3. pg' = pg /\ seen' = seen => Evolves(pg, seen, pg', seen')
  BY DEF Evolves
<1>4. ASSUME NEW i \in Ids, Get(p, t, i)
      PROVE  DInv'
  <2>1. Absent \in Maybe(Patches)
    BY DEF Maybe
  <2> QED
    BY <1>2, <1>3, <1>4, <2>1 DEF Get
<1>5. ASSUME NEW i \in Ids, NEW u \in Patches, Update(p, t, i, u)
      PROVE  DInv'
  <2>1. u \in Maybe(Patches)
    BY DEF Maybe
  <2> QED
    BY <1>2, <1>3, <1>5, <2>1 DEF Update
<1>6. ASSUME NEW i \in Ids, Delete(p, t, i)
      PROVE  DInv'
  <2>1. Absent \in Maybe(Patches)
    BY DEF Maybe
  <2>2. /\ seen' = [seen EXCEPT ![i] = IF seen[i] \in {"new", "live"} THEN "dying" ELSE seen[i]]
        /\ pg' = pg /\ conf' = conf /\ Read(t, New(p, "delete", i, Absent))
    BY <1>6 DEF Delete
  <2>3. Evolves(pg, seen, pg', seen')
    BY <1>0, <2>2 DEF Evolves
  <2>4. seen[i] # "free"
    BY <1>6 DEF Delete, Known
  <2> QED
    BY <1>0, <1>2, <2>1, <2>2, <2>3, <2>4 DEF Status
<1>7. CASE List(p, t)
  <2> DEFINE n == New(p, "list", Absent, Absent)
             r == [n EXCEPT !.pc = "pgList"]
  <2>1. "pg" \in conf[p]
    BY DEF DInv
  <2>2. task' = [task EXCEPT ![t] = r] /\ pg' = pg /\ seen' = seen /\ conf' = conf
    BY <1>7, <2>1 DEF List, GoTo
  <2>3. r.pc = "pgList" /\ r.op = "list" /\ r.before = seen
    BY DEF New, Idle
  <2> HIDE DEF r
  <2>4. Safe(r, pg, seen)
    BY <2>3 DEF Safe, Creating, Deleting, Since, Reading
  <2> QED
    BY <1>3, <2>2, <2>4, OneStep
<1> QED
  BY <1>1, <1>4, <1>5, <1>6, <1>7 DEF Arrive

LEMMA StepKeeps ==
  ASSUME PgSure, DInv, TInv', NEW t \in Tasks, Step(t)
  PROVE  DInv'
<1> DEFINE r == task[t]
<1>0. /\ TInv /\ seen \in [Ids -> Status] /\ Safe(r, pg, seen)
      /\ "pg" \notin Faulty
      /\ r.pc \notin {"rdRead", "rdKeys", "rdScan"}
  BY DEF PgSure, DInv, TInv, TypeOK, Safe
<1>1. pg' = pg /\ seen' = seen => Evolves(pg, seen, pg', seen')
  BY DEF Evolves
<1>2. CASE PgRead(t)
  <2> DEFINE n == [r EXCEPT !.row = pg[r.id], !.pc = "got"]
  <2>1. r \in Request /\ Serving(r) /\ r.op \in {"get", "update", "delete"} /\ r.pc = "pgRead"
    BY <1>0, <1>2, Waiting DEF PgRead, At
  <2>2. /\ n.pc = "got" /\ n.row = pg[r.id] /\ n.id = r.id /\ n.op = r.op
        /\ n.before = r.before
    BY <2>1 DEF Request
  <2>3. task' = [task EXCEPT ![t] = n]
    BY <1>2, <2>1 DEF PgRead, GoTo, Request
  <2> HIDE DEF n
  <2>4. Safe(n, pg, seen)
    BY <1>0, <2>1, <2>2 DEF DInv, Safe, Creating, Deleting, Since, Reading
  <2> QED
    BY <1>1, <1>2, <2>3, <2>4, OneStep DEF PgRead, Stores
<1>3. CASE Resume(t)
  <2>1. r \in Request /\ Serving(r) /\ r.op \in {"get", "update", "delete"} /\ r.pc = "got"
    BY <1>0, <1>3, Waiting DEF Resume, At
  <2>2. Base(r, seen)
    BY <1>0, <2>1 DEF Base, Safe, Deleting
  <2>3. CASE r.row = Absent /\ Stop(t, r, "none")
    <3>1. \A i \in Ids : ~(r.before[i] = "live" /\ seen[i] = "live" /\ r.id = i)
      BY <1>0, <2>1, <2>3 DEF Safe, Reading
    <3>2. Step1(t, pg, seen)
      BY <2>1, <2>2, <2>3, <3>1, StopSafe
    <3> QED
      BY <1>1, <1>3, <3>2, OneStep DEF Resume, Stores, Step1
  <2>4. CASE Proceed(t, [r EXCEPT !.row = Absent], r.row, TRUE)
    <3> DEFINE n == [r EXCEPT !.row = Absent]
    <3>1. Serving(n) /\ Base(n, seen)
      BY <2>1, <2>2 DEF Serving, Base, Since, Request, Maybe
    <3> HIDE DEF n
    <3>2. Step1(t, pg, seen)
      BY <2>4, <3>1, ProceedSafe DEF n
    <3> QED
      BY <1>1, <1>3, <3>2, OneStep DEF Resume, Stores, Step1
  <2> QED
    BY <1>3, <2>3, <2>4 DEF Resume
<1>4. ASSUME r.pc \in {"pgSelect", "pgWrite"}
      PROVE  Writing(r) /\ r \in Request /\ r.id \in Ids
  BY <1>0, <1>4, Waiting DEF Writing, Serving
<1>5. ASSUME NEW n \in Request, n.op \in {"create", "update", "delete"},
             n.op = r.op, n.id = r.id, n.before = r.before, NEW g,
             n.op = "create" /\ seen[n.id] = "new" => g[n.id] # Absent,
             r.pc \in {"pgSelect", "pgWrite"}, AfterPg(t, n)
      PROVE  Step1(t, g, seen)
  <2>1. PICK pc \in {"rdWrite", "memory"} :
          task' = [task EXCEPT ![t] = [n EXCEPT !.row = Absent, !.pc = pc]]
    BY <1>5 DEF AfterPg, GoTo
  <2> DEFINE m == [n EXCEPT !.row = Absent, !.pc = pc]
  <2>2. m.pc = pc /\ m.op = r.op /\ m.id = r.id /\ m.before = r.before
    BY <1>5 DEF Request
  <2>3. task' = [task EXCEPT ![t] = m]
    BY <2>1
  <2> HIDE DEF m
  <2>4. Safe(m, g, seen)
    BY <1>0, <1>5, <2>2 DEF Safe, Creating, Deleting, Since, Reading
  <2> QED
    BY <2>3, <2>4 DEF Step1
<1>6. CASE PgSelect(t)
  <2> DEFINE n == [r EXCEPT !.row = pg[r.id]]
             m == [n EXCEPT !.pc = "pgWrite"]
  <2>1. r.pc = "pgSelect" /\ Writing(r) /\ r \in Request /\ r.id \in Ids
    BY <1>4, <1>6 DEF PgSelect, At
  <2>2. /\ n \in Request /\ n.op = r.op /\ n.id = r.id /\ n.before = r.before
        /\ n.row = pg[r.id] /\ n.ctx = r.ctx
    BY <2>1 DEF Request, DInv, TInv, TypeOK
  <2>3. m.pc = "pgWrite" /\ m.op = r.op /\ m.id = r.id /\ m.before = r.before
        /\ m.row = pg[r.id] /\ m.ctx = r.ctx
    BY <2>1 DEF Request
  <2>4. /\ pg' = pg /\ seen' = seen /\ conf' = conf
        /\ \/ n.op = "delete" /\ AfterPg(t, n)
           \/ task' = [task EXCEPT ![t] = m]
    BY <1>6 DEF PgSelect, GoTo, Stores
  <2> HIDE DEF n, m
  <2>5. Safe(m, pg, seen)
    BY <1>0, <2>1, <2>3 DEF Safe, Creating, Deleting, Since, Reading
  <2>6. Step1(t, pg, seen)
    BY <1>5, <2>1, <2>2, <2>4, <2>5 DEF Writing, Step1
  <2> QED
    BY <1>1, <2>4, <2>6, OneStep DEF Step1
<1>7. CASE PgWrite(t)
  <2> DEFINE new == IF r.op = "delete" THEN Absent ELSE Merged(pg[r.id], r.row, r.ctx)
  <2>1. r.pc = "pgWrite" /\ Writing(r) /\ r \in Request /\ r.id \in Ids
    BY <1>4, <1>7 DEF PgWrite, At
  <2>2. /\ pg' = [pg EXCEPT ![r.id] = new]
        /\ AfterPg(t, r) /\ seen' = seen /\ conf' = conf
    BY <1>7 DEF PgWrite
  <2>3. pg \in [Ids -> Maybe(Context)] /\ Absent \notin Context
    BY StorageAssumption DEF DInv, TInv, TypeOK
  <2>4. r.op # "delete" /\ pg[r.id] # Absent => new # Absent
    <3>1. SUFFICES ASSUME r.op # "delete", pg[r.id] # Absent
                   PROVE  Merged(pg[r.id], r.row, r.ctx) # Absent
      OBVIOUS
    <3>2. pg[r.id] \in Context /\ r.ctx \in Context
      BY <2>1, <2>3, <3>1 DEF Maybe, Writing
    <3>3. CASE Valid(r.ctx) /\ r.row # Absent
      <4>1. r.row \in Context
        BY <2>1, <3>3 DEF Request, Maybe
      <4> DEFINE k == [title |-> IF r.ctx.title = r.row.title THEN pg[r.id].title ELSE r.ctx.title,
                       done  |-> IF r.ctx.done = r.row.done THEN pg[r.id].done ELSE r.ctx.done]
      <4>2. k.title \in Titles \union {Null} /\ k.done \in BOOLEAN
        <5>1. /\ k.title \in {pg[r.id].title, r.ctx.title}
              /\ k.done \in {pg[r.id].done, r.ctx.done}
          OBVIOUS
        <5>2. /\ pg[r.id].title \in Titles \union {Null} /\ r.ctx.title \in Titles \union {Null}
              /\ pg[r.id].done \in BOOLEAN /\ r.ctx.done \in BOOLEAN
          BY <3>2 DEF Context
        <5> HIDE DEF k
        <5> QED
          BY <5>1, <5>2
      <4>3. k \in Context
        BY <4>2 DEF Context
      <4> QED
        BY <2>3, <3>1, <3>3, <4>3 DEF Merged
    <3>4. CASE ~Valid(r.ctx) \/ r.row = Absent
      BY <3>1, <3>4 DEF Merged
    <3> QED
      BY <3>3, <3>4
  <2>5. r.op = "create" /\ seen[r.id] = "new" => new # Absent
    <3>1. SUFFICES ASSUME r.op = "create", seen[r.id] = "new", pg[r.id] = Absent
                   PROVE  Merged(pg[r.id], r.row, r.ctx) # Absent
      BY <2>4
    <3>2. r.row = Absent /\ Valid(r.ctx) /\ r.ctx \in Context
      BY <1>0, <2>1, <3>1 DEF Safe, Creating, Writing
    <3> QED
      BY <2>3, <3>1, <3>2 DEF Merged
  <2> HIDE DEF new
  <2>6. Evolves(pg, seen, pg', seen')
    <3>1. r.op = "delete" => seen[r.id] \in {"dying", "dead"}
      BY <1>0, <2>1 DEF Safe, Deleting
    <3> QED
      BY <2>1, <2>2, <2>3, <2>4, <3>1 DEF Evolves
  <2>7. Step1(t, pg', seen)
    <3>1. pg'[r.id] = new
      BY <2>1, <2>2, <2>3
    <3> QED
      BY <1>5, <2>1, <2>2, <2>5, <3>1 DEF Writing
  <2> QED
    BY <2>2, <2>6, <2>7, OneStep DEF Step1
<1>8. CASE RdWrite(t) \/ RdWriteFails(t)
  <2>1. r.pc = "rdWrite" /\ r \in Request /\ Writing(r)
    BY <1>0, <1>8, Waiting DEF RdWrite, RdWriteFails, At
  <2>2. \E n : /\ task' = [task EXCEPT ![t] = n]
               /\ n.pc \in {"rdWrite", "memory"}
               /\ n.op = r.op /\ n.id = r.id /\ n.before = r.before
    <3>1. CASE RdWrite(t)
      <4> DEFINE n == [r EXCEPT !.pc = "memory"]
      <4>1. n.pc = "memory" /\ n.op = r.op /\ n.id = r.id /\ n.before = r.before
        BY <2>1 DEF Request
      <4>2. task' = [task EXCEPT ![t] = n]
        BY <3>1 DEF RdWrite, GoTo
      <4> HIDE DEF n
      <4> QED
        BY <4>1, <4>2
    <3>2. CASE RdWriteFails(t)
      <4>1. PICK pc \in {"rdWrite", "memory"} :
              task' = [task EXCEPT ![t] = [r EXCEPT !.tries = @ + 1, !.pc = pc]]
        BY <3>2 DEF RdWriteFails, GoTo
      <4> DEFINE n == [r EXCEPT !.tries = @ + 1, !.pc = pc]
      <4>2. n.pc = pc /\ n.op = r.op /\ n.id = r.id /\ n.before = r.before
        BY <2>1 DEF Request
      <4>3. task' = [task EXCEPT ![t] = n]
        BY <4>1
      <4> HIDE DEF n
      <4> QED
        BY <4>2, <4>3
    <3> QED
      BY <1>8, <3>1, <3>2
  <2>3. PICK n : /\ task' = [task EXCEPT ![t] = n]
                 /\ n.pc \in {"rdWrite", "memory"}
                 /\ n.op = r.op /\ n.id = r.id /\ n.before = r.before
    BY <2>2
  <2>6. Safe(n, pg, seen)
    BY <1>0, <2>1, <2>3 DEF Safe, Creating, Deleting, Since, Reading, Writing
  <2> QED
    BY <1>1, <1>8, <2>3, <2>6, OneStep DEF RdWrite, RdWriteFails
<1>9. CASE Finish(t)
  <2>1. r.pc = "memory" /\ r \in Request /\ Writing(r)
    BY <1>0, <1>9, Waiting DEF Finish, At
  <2>2. \E kind \in {"removed", "found", "error"}, body \in Maybe(Context) :
          Answer(t, r, kind, body) /\ (kind = "removed" => r.op = "delete")
    BY <1>9, <2>1 DEF Finish, Conclude, Request, Maybe
  <2>3. PICK kind \in {"removed", "found", "error"}, body \in Maybe(Context) :
          Answer(t, r, kind, body) /\ (kind = "removed" => r.op = "delete")
    BY <2>2
  <2> DEFINE n == [Idle EXCEPT !.pc = "done", !.proc = r.proc, !.op = r.op, !.id = r.id,
                               !.before = r.before, !.res = [kind |-> kind, body |-> body]]
  <2>4. /\ n.pc = "done" /\ n.op = r.op /\ n.id = r.id /\ n.before = r.before
        /\ n.res.kind = kind
    BY DEF Idle
  <2>5. task' = [task EXCEPT ![t] = n]
    BY <2>3 DEF Answer
  <2> HIDE DEF n
  <2>6. Safe(n, pg, seen)
    BY <1>0, <2>1, <2>3, <2>4 DEF Safe, Creating, Deleting, Since, Reading, Writing, Denies
  <2> QED
    BY <1>1, <1>9, <2>5, <2>6, OneStep DEF Finish, Stores
<1>10. CASE PgList(t)
  <2> DEFINE S == {i \in Ids : pg[i] # Absent}
  <2>1. r \in Request /\ r.op = "list" /\ r.pc = "pgList"
    BY <1>0, <1>10, Waiting DEF PgList, At
  <2>2. Answer(t, r, "listed", S)
    BY <1>10 DEF PgList
  <2>3. \A i \in Ids : seen[i] = "live" => i \in S
    BY DEF DInv
  <2> HIDE DEF S
  <2>4. Step1(t, pg, seen)
    BY <1>0, <2>1, <2>2, <2>3, AnswerSafe DEF Safe
  <2> QED
    BY <1>1, <1>10, <2>4, OneStep DEF PgList, Stores, Step1
<1>11. CASE Reply(t)
  <2>1. /\ r.pc = "done" /\ r \in Request /\ (r.op # "list" => r.id \in Ids)
        /\ task' = [task EXCEPT ![t] = Idle] /\ pg' = pg /\ conf' = conf
        /\ seen' = IF r.op = "create" /\ seen[r.id] = "new" THEN [seen EXCEPT ![r.id] = "live"]
                   ELSE IF r.res.kind = "removed" THEN [seen EXCEPT ![r.id] = "dead"]
                   ELSE seen
    BY <1>0, <1>11 DEF Reply, At, Stores, TInv, TypeOK, Shape
  <2>2. Evolves(pg, seen, pg', seen')
    <3>1. r.op = "create" /\ seen[r.id] = "new" => pg[r.id] # Absent
      BY <1>0, <2>1 DEF Safe, Creating
    <3>2. r.res.kind = "removed" => r.id \in Ids /\ seen[r.id] \in {"dying", "dead"}
      BY <1>0, <2>1 DEF Safe, Deleting
    <3> QED
      BY <1>0, <2>1, <3>1, <3>2 DEF Evolves
  <2>3. Safe(Idle, pg', seen')
    BY DEF Safe, Creating, Deleting, Since, Reading, Idle
  <2> QED
    BY <2>1, <2>2, <2>3, OneStep
<1> QED
  BY <1>0, <1>2, <1>3, <1>6, <1>7, <1>8, <1>9, <1>10, <1>11
  DEF Step, At, PgReadFails, PgSelectFails, PgWriteFails, PgListFails,
      RdRead, RdReadFails, RdKeys, RdKeysFails, RdScan, RdScanned

LEMMA RestartKeeps ==
  ASSUME PgSure, DInv, TInv', NEW p \in Procs, Restart(p)
  PROVE  DInv'
<1>1. /\ task' = [t \in Tasks |-> IF task[t].proc = p THEN Idle ELSE task[t]]
      /\ pg' = pg /\ seen' = seen
      /\ \E c \in Connected : conf' = [conf EXCEPT ![p] = c]
  BY DEF Restart, Stores
<1>2. \A q \in Procs : "pg" \in conf'[q]
  BY <1>1 DEF PgSure, Connected, DInv, TInv, TypeOK
<1>3. Safe(Idle, pg, seen)
  BY DEF Safe, Creating, Deleting, Since, Reading, Idle
<1>4. \A t \in Tasks : Safe(task'[t], pg', seen')
  BY <1>1, <1>3 DEF DInv
<1> QED
  BY <1>1, <1>2, <1>4 DEF DInv

LEMMA NextKeeps == PgSure /\ DInv /\ [Next]_vars => DInv'
<1> SUFFICES ASSUME PgSure, DInv, [Next]_vars
             PROVE  DInv'
  OBVIOUS
<1>0. TInv'
  BY NextTyped DEF DInv
<1>1. ASSUME NEW p \in Procs, NEW i \in Ids, Forget(p, i)
      PROVE  DInv'
  BY <1>0, <1>1 DEF Forget, Stores, DInv
<1>2. CASE UNCHANGED vars
  BY <1>0, <1>2 DEF vars, DInv
<1> QED
  BY <1>0, <1>1, <1>2, ArriveKeeps, StepKeeps, RestartKeeps DEF Next

LEMMA InitSafe == PgSure /\ Init => DInv
<1> SUFFICES ASSUME PgSure, Init
             PROVE  DInv
  OBVIOUS
<1>1. TInv
  BY InitTyped
<1>2. \A p \in Procs : "pg" \in conf[p]
  BY DEF Init, PgSure, Connected
<1>3. \A t \in Tasks : Safe(task[t], pg, seen)
  BY DEF Init, Idle, Safe, Creating, Deleting, Since, Reading
<1>4. \A i \in Ids : seen[i] # "live"
  BY DEF Init
<1> QED
  BY <1>1, <1>2, <1>3, <1>4 DEF DInv

(* With a PostgreSQL that does not fail, a context whose creation was      *)
(* confirmed before a request began, and which nobody asked to delete, is  *)
(* never denied: not by a read through a cache, not by a listing, not      *)
(* after crashes and not while Redis fails.                                *)
THEOREM AcknowledgedIsFound == ASSUME PgSure PROVE Spec => []AckedIsFound
<1>1. Init => DInv
  BY InitSafe
<1>2. DInv /\ [Next]_vars => DInv'
  BY NextKeeps
<1>3. DInv => AckedIsFound
  BY DEF DInv, Safe, Reading, AckedIsFound, At
<1> QED
  BY <1>1, <1>2, <1>3, PTL DEF Spec

-----------------------------------------------------------------------------
(* Where, besides, one process serves clients that do not overlap two      *)
(* requests for one context, and no PUT nulls a title, the store is the    *)
(* atomic map whatever Redis does and however often the process crashes:   *)
(* rows are what it has, and its cache holds the row, or what a request    *)
(* under way is about to write there, or nothing.                          *)

Sturdy == /\ PgSure
          /\ Exclusive = TRUE
          /\ \E p : Procs = {p}
          /\ Absent \notin Ids
          /\ TitlesKept

(* A request at each point of its coroutine, the row of its context, g,    *)
(* and what the cache has of it, c.                                        *)
Sound(r, g, c) ==
  /\ r.op # "list"
  /\ r.pc \in {"pgRead", "got", "done"} => c \in {Absent, g}
  /\ r.pc = "got" => r.row = g
  /\ r.pc \in {"pgSelect", "pgWrite"} => Intends(r, g)
  /\ r.pc = "pgWrite" => r.row = g
  /\ r.pc \in {"rdWrite", "memory"} => g = Target(r)
  /\ r.pc \in {"pgSelect", "pgWrite", "rdWrite", "memory"} => c \in {Absent, Target(r)}

AllSound == \A t \in Tasks :
              LET r == task[t]
              IN IF r.pc = "idle" THEN r = Idle
                 ELSE IF r.op = "list" THEN r.id = Absent /\ r.pc \in {"pgList", "done"}
                 ELSE Sound(r, pg[r.id], cache[r.proc][r.id])
Newborn == \A i \in Ids : seen[i] = "free" =>
             /\ pg[i] = Absent
             /\ \A p \in Procs : cache[p][i] = Absent
             /\ \A t \in Tasks : task[t].id # i
Mirrored == \A p \in Procs, i \in Ids : (\A t \in Tasks : task[t].id # i) =>
              cache[p][i] \in {Absent, pg[i]}

Steady == AllSound /\ Apart /\ Newborn /\ Mirrored

SInv == DInv /\ EInv /\ Steady

LEMMA Occupied ==
  ASSUME SInv, Sturdy, NEW t \in Tasks, task[t].pc # "idle", task[t].op # "list"
  PROVE  LET r == task[t]
         IN /\ r \in Request /\ r.proc \in Procs /\ r.id \in Ids
            /\ r.op \in {"create", "get", "update", "delete"}
            /\ Sound(r, pg[r.id], cache[r.proc][r.id])
            /\ seen[r.id] # "free" /\ r.pc # "rdRead"
            /\ \A u \in Tasks : u # t => task[u].id # r.id
<1> DEFINE r == task[t]
<1>1. /\ r \in Request /\ r.proc \in Procs /\ r.op \in AllOps /\ r.id \in Ids
  BY DEF SInv, EInv, TInv, TypeOK, Shape
<1>2. Sound(r, pg[r.id], cache[r.proc][r.id])
  BY DEF SInv, Steady, AllSound
<1>3. \A u \in Tasks : u # t => task[u].id # r.id
  BY <1>1 DEF SInv, Steady, Apart, Sturdy
<1>4. seen[r.id] # "free"
  BY <1>1 DEF SInv, Steady, Newborn
<1>5. r.pc # "rdRead"
  BY DEF SInv, DInv, Safe
<1> QED
  BY <1>1, <1>2, <1>3, <1>4, <1>5 DEF AllOps

LEMMA PrimaryRow ==
  ASSUME Sturdy
  PROVE  (DInv => Primary = pg) /\ (DInv' => Primary' = pg')
<1>1. PICK p \in Procs : p = CHOOSE x \in Procs : TRUE
  BY DEF Sturdy
<1> QED
  BY <1>1 DEF Primary, DInv

(* A step of one request that leaves other contexts alone and its own      *)
(* sound: it is n from then on.                                            *)
Aside(p, i) == \A j \in Ids \ {i} : pg'[j] = pg[j] /\ cache'[p][j] = cache[p][j]

Carries(t, n) == /\ task' = [task EXCEPT ![t] = n]
                 /\ n.pc # "idle" /\ n.id \in Ids /\ n.proc \in Procs
                 /\ Sound(n, pg'[n.id], cache'[n.proc][n.id])
                 /\ Aside(n.proc, n.id)

LEMMA Carried ==
  ASSUME SInv, Sturdy, NEW t \in Tasks, NEW n, Carries(t, n),
         \/ task[t].pc # "idle" /\ task[t].id = n.id
         \/ task[t].pc = "idle" /\ \A u \in Tasks : task[u].id # n.id,
         seen'[n.id] # "free", \A j \in Ids : seen'[j] = "free" => seen[j] = "free"
  PROVE  Steady'
<1>1. \A u \in Tasks : task'[u] = IF u = t THEN n ELSE task[u]
  BY DEF Carries, SInv, EInv, TInv, TypeOK
<1>2. \A u \in Tasks \ {t} : task[u].id # n.id
  <2>1. n.id # Absent
    BY DEF Carries, Sturdy
  <2> QED
    BY <2>1 DEF SInv, Steady, Apart
<1>3. task[t].id \in {n.id, Absent}
  BY DEF SInv, Steady, AllSound, Idle
<1>4. \A p \in Procs : p = n.proc
  BY DEF Sturdy, Carries
<1>5. AllSound'
  <2> SUFFICES ASSUME NEW u \in Tasks \ {t}, task[u].pc # "idle", task[u].op # "list"
               PROVE  Sound(task[u], pg'[task[u].id], cache'[task[u].proc][task[u].id])
    BY <1>1 DEF AllSound, Carries, Sound, SInv, Steady
  <2>1. /\ Sound(task[u], pg[task[u].id], cache[task[u].proc][task[u].id])
        /\ task[u].id \in Ids \ {n.id} /\ task[u].proc = n.proc
    BY <1>2, <1>4, Occupied
  <2> QED
    BY <2>1 DEF Carries, Aside
<1>6. Apart'
  BY <1>1, <1>2 DEF SInv, Steady, Apart
<1>7. Newborn'
  <2> SUFFICES ASSUME NEW i \in Ids, seen'[i] = "free"
               PROVE  /\ pg'[i] = Absent /\ cache'[n.proc][i] = Absent
                      /\ \A u \in Tasks : task'[u].id # i
    BY <1>4 DEF Newborn
  <2>1. i # n.id /\ seen[i] = "free"
    OBVIOUS
  <2>2. /\ pg[i] = Absent /\ cache[n.proc][i] = Absent
        /\ \A u \in Tasks : task[u].id # i
    BY <2>1 DEF SInv, Steady, Newborn, Carries
  <2> QED
    BY <1>1, <2>1, <2>2 DEF Carries, Aside
<1>8. Mirrored'
  <2> SUFFICES ASSUME NEW i \in Ids, \A u \in Tasks : task'[u].id # i
               PROVE  cache'[n.proc][i] \in {Absent, pg'[i]}
    BY <1>4 DEF Mirrored
  <2>1. i # n.id /\ \A u \in Tasks : task[u].id # i
    BY <1>1, <1>3 DEF Sturdy
  <2>2. cache[n.proc][i] \in {Absent, pg[i]}
    BY <2>1 DEF SInv, Steady, Mirrored, Carries
  <2> QED
    BY <2>1, <2>2 DEF Carries, Aside
<1> QED
  BY <1>5, <1>6, <1>7, <1>8 DEF Steady

-----------------------------------------------------------------------------
(* Such a step, seen from the abstract store, of a request that was q      *)
(* there.                                                                  *)
Advances(t, q) == \E n : /\ Carries(t, n) /\ n.id = q.id
                            /\ Follows(q, AsRequest(n), pg[q.id], pg'[q.id])

LEMMA AnswerCarries ==
  ASSUME SInv, NEW t \in Tasks, NEW r, Serving(r), r.op # "list", NEW kind, NEW body,
         Answer(t, r, kind, body), Aside(r.proc, r.id),
         cache'[r.proc][r.id] \in {Absent, pg'[r.id]}
  PROVE  \E n : /\ Carries(t, n) /\ n.id = r.id
                /\ AsRequest(n) = Atomic!Settled(r, [kind |-> kind, body |-> body])
<1> DEFINE n == [Idle EXCEPT !.pc = "done", !.proc = r.proc, !.op = r.op, !.id = r.id,
                             !.before = r.before, !.res = [kind |-> kind, body |-> body]]
<1>1. task' = [task EXCEPT ![t] = n]
  BY DEF Answer
<1>2. /\ n.pc = "done" /\ n.proc = r.proc /\ n.op = r.op /\ n.id = r.id
      /\ n.res = [kind |-> kind, body |-> body]
  BY DEF Idle
<1> HIDE DEF n
<1>3. Sound(n, pg'[n.id], cache'[n.proc][n.id])
  BY <1>2 DEF Sound
<1>4. Carries(t, n)
  BY <1>1, <1>2, <1>3 DEF Carries, Serving
<1>5. AsRequest(n) = Atomic!Settled(r, [kind |-> kind, body |-> body])
  BY <1>2 DEF AsRequest, Atomic!Settled
<1> QED
  BY <1>2, <1>4, <1>5

LEMMA WriteAdvances ==
  ASSUME SInv, NEW t \in Tasks, NEW r, WritesTitled(r), Write(t, r), Intends(r, pg[r.id]),
         UNCHANGED pg, Aside(r.proc, r.id), cache'[r.proc][r.id] \in {Absent, Target(r)}
  PROVE  Advances(t, AsPending(r))
<1> DEFINE q == AsPending(r)
           n == [r EXCEPT !.pc = "pgSelect"]
<1>1. /\ r \in Request /\ r.proc \in Procs /\ r.id \in Ids /\ r.op # "list"
      /\ "pg" \in conf[r.proc]
  BY DEF WritesTitled, Writing, Serving, SInv, DInv
<1>2. task' = [task EXCEPT ![t] = n]
  BY <1>1 DEF Write, GoTo
<1>3. /\ n.pc = "pgSelect" /\ n.proc = r.proc /\ n.id = r.id /\ n.op = r.op /\ n.ctx = r.ctx
      /\ n.arg = r.arg
  BY <1>1 DEF Request
<1> HIDE DEF n
<1>4. Intends(n, pg[r.id]) /\ Target(n) = Target(r)
  BY <1>3 DEF Intends, Target
<1>5. Sound(n, pg'[r.id], cache'[r.proc][r.id])
  BY <1>1, <1>3, <1>4 DEF Sound
<1>6. Carries(t, n)
  BY <1>1, <1>2, <1>3, <1>5 DEF Carries
<1>7. AsRequest(n) = q /\ q.id = r.id
  BY <1>3 DEF AsRequest, AsPending, Wrote
<1> QED
  BY <1>3, <1>6, <1>7 DEF Advances, Follows

LEMMA StopAdvances ==
  ASSUME SInv, NEW t \in Tasks, NEW r, ReadsTitled(r), r.op \in {"get", "update", "delete"},
         Stop(t, r, "none"), UNCHANGED pg, pg[r.id] = Absent, cache[r.proc][r.id] = Absent
  PROVE  Advances(t, AsPending(r))
<1> DEFINE q == AsPending(r)
<1>1. Answer(t, r, "none", Absent) /\ UNCHANGED <<cache, memory>>
  BY DEF Stop
<1>2. Serving(r) /\ Aside(r.proc, r.id)
  BY <1>1 DEF ReadsTitled, Aside
<1>3. PICK n : /\ Carries(t, n) /\ n.id = r.id
               /\ AsRequest(n) = Atomic!Settled(r, [kind |-> "none", body |-> Absent])
  BY <1>1, <1>2, AnswerCarries
<1>4. q.phase = "pending" /\ q.op = r.op /\ q.id = r.id
  BY DEF AsPending
<1>5. /\ Atomic!Response(q, Absent) = [kind |-> "none", body |-> Absent]
      /\ Atomic!After(q, Absent) = Absent
  BY <1>4 DEF Atomic!Response, Atomic!After, Atomic!Plain
<1>6. Atomic!Settled(q, Atomic!Response(q, Absent)) = AsRequest(n)
  BY <1>3, <1>4, <1>5 DEF Atomic!Settled
<1> HIDE DEF q
<1>7. Follows(q, AsRequest(n), pg[q.id], pg'[q.id])
  BY <1>4, <1>5, <1>6 DEF Follows
<1> QED
  BY <1>3, <1>4, <1>7 DEF Advances, q

LEMMA ProceedAdvances ==
  ASSUME SInv, TitlesKept, NEW t \in Tasks, NEW r, ReadsTitled(r), NEW c \in Titled,
         NEW fill \in BOOLEAN, Proceed(t, r, c, fill), UNCHANGED pg, pg[r.id] = c,
         cache[r.proc][r.id] \in {Absent, c}
  PROVE  Advances(t, AsPending(r))
<1> DEFINE q == AsPending(r)
<1>0. /\ Serving(r) /\ r \in Request /\ r.proc \in Procs /\ r.id \in Ids /\ r.op \in AllOps
      /\ c # Absent
  BY TitledFacts DEF ReadsTitled, Serving
<1>1. /\ q.phase = "pending" /\ q.op = r.op /\ q.id = r.id
  BY DEF AsPending
<1>2. ASSUME NEW x, Remember(r, x)
      PROVE  Aside(r.proc, r.id) /\ cache'[r.proc][r.id] = x
  BY <1>0, <1>2 DEF Remember, Aside, SInv, EInv, LocalCalm
<1>3. CASE r.op = "get" /\ Answer(t, r, "found", c) /\ (Remember(r, c) \/ UNCHANGED cache)
  <2>1. cache'[r.proc][r.id] \in {Absent, c} /\ Aside(r.proc, r.id)
    <3>1. CASE Remember(r, c)
      BY <1>2, <3>1
    <3>2. CASE UNCHANGED cache
      BY <3>2 DEF Aside
    <3> QED
      BY <1>3, <3>1, <3>2
  <2>2. PICK n : /\ Carries(t, n) /\ n.id = r.id
                 /\ AsRequest(n) = Atomic!Settled(r, [kind |-> "found", body |-> c])
    BY <1>0, <1>3, <2>1, AnswerCarries
  <2>3. Atomic!Response(q, c) = [kind |-> "found", body |-> c] /\ Atomic!After(q, c) = c
    BY <1>0, <1>1, <1>3 DEF Atomic!Response, Atomic!After, Atomic!Found
  <2>4. Atomic!Settled(q, Atomic!Response(q, c)) = AsRequest(n)
    BY <1>1, <2>2, <2>3 DEF Atomic!Settled
  <2> HIDE DEF q
  <2>5. Follows(q, AsRequest(n), pg[q.id], pg'[q.id])
    BY <1>1, <2>3, <2>4 DEF Follows
  <2> QED
    BY <1>1, <2>2, <2>5 DEF Advances, q
<1>4. CASE r.op = "update" /\ Remember(r, Patched(c, r.arg))
                           /\ Write(t, [r EXCEPT !.ctx = Patched(c, r.arg)])
  <2> DEFINE n == [r EXCEPT !.ctx = Patched(c, r.arg)]
  <2>1. Patched(c, r.arg) \in Titled /\ Patched(c, r.arg) \in Context
    BY <1>4, PatchedTitled, TitledFacts DEF ReadsTitled
  <2>2. /\ n \in Request /\ n.op = "update" /\ n.ctx = Patched(c, r.arg) /\ n.arg = r.arg
        /\ n.proc = r.proc /\ n.id = r.id /\ n.row = r.row
    BY <1>0, <1>4, <2>1 DEF Request, Maybe
  <2>3. Write(t, n)
    BY <1>4
  <2>4. AsPending(n) = q
    BY <1>4, <2>2 DEF AsPending
  <2> HIDE DEF n, q
  <2>5. WritesTitled(n)
    <3>1. Writing(n)
      BY <1>0, <1>4, <2>1, <2>2 DEF Writing, Serving
    <3> QED
      BY <2>1, <2>2, <3>1 DEF WritesTitled, ReadsTitled, Maybe
  <2>6. Intends(n, c) /\ Target(n) = Patched(c, r.arg)
    BY <1>0, <2>2 DEF Intends, Target
  <2>7. Aside(n.proc, n.id) /\ cache'[n.proc][n.id] \in {Absent, Target(n)}
    BY <1>2, <1>4, <2>2, <2>6
  <2>8. Advances(t, AsPending(n))
    BY <2>2, <2>3, <2>5, <2>6, <2>7, WriteAdvances
  <2> QED
    BY <2>2, <2>4, <2>8 DEF q
<1>5. CASE r.op = "delete" /\ Remember(r, Absent) /\ Write(t, r)
  <2>1. WritesTitled(r)
    BY <1>5 DEF WritesTitled, ReadsTitled, Writing
  <2>2. Intends(r, c)
    BY <1>0, <1>5 DEF Intends
  <2>3. Aside(r.proc, r.id) /\ cache'[r.proc][r.id] \in {Absent, Target(r)}
    BY <1>2, <1>5
  <2> QED
    BY <1>5, <2>1, <2>2, <2>3, WriteAdvances
<1> QED
  BY <1>3, <1>4, <1>5 DEF Proceed

(* A read finds the cache holding the row, or nothing.                     *)
LEMMA ReadAdvances ==
  ASSUME SInv, TitlesKept, NEW t \in Tasks, NEW r, ReadsTitled(r),
         r.op \in {"get", "update", "delete"}, cache[r.proc][r.id] \in {Absent, pg[r.id]},
         Read(t, r), UNCHANGED pg
  PROVE  Advances(t, AsPending(r))
<1> DEFINE c == cache[r.proc][r.id]
<1>1. /\ c \in Maybe(Titled) /\ r \in Request /\ r.proc \in Procs /\ r.id \in Ids
      /\ "pg" \in conf[r.proc]
  BY DEF ReadsTitled, Serving, SInv, DInv, EInv, LocalCalm
<1>2. CASE c # Absent
  <2>1. c \in Titled /\ Valid(c) /\ pg[r.id] = c
    BY <1>1, <1>2, TitledFacts DEF Maybe
  <2>2. Proceed(t, r, c, FALSE)
    BY <1>2, <2>1 DEF Read
  <2> QED
    BY <2>1, <2>2, ProceedAdvances
<1>3. CASE c = Absent
  <2> DEFINE n == [r EXCEPT !.pc = "pgRead"]
             q == AsPending(r)
  <2>1. task' = [task EXCEPT ![t] = n] /\ UNCHANGED cache
    BY <1>1, <1>3 DEF Read, GoTo
  <2>2. /\ n.pc = "pgRead" /\ n.proc = r.proc /\ n.id = r.id /\ n.op = r.op /\ n.arg = r.arg
       
    BY <1>1 DEF Request
  <2> HIDE DEF n
  <2>3. Sound(n, pg[r.id], c)
    BY <1>3, <2>2 DEF Sound
  <2>4. Carries(t, n)
    BY <1>1, <2>1, <2>2, <2>3 DEF Carries, Aside
  <2>5. AsRequest(n) = q /\ q.id = r.id
    BY <2>2 DEF AsRequest, AsPending, Wrote
  <2> QED
    BY <2>2, <2>4, <2>5 DEF Advances, Follows
<1> QED
  BY <1>2, <1>3

-----------------------------------------------------------------------------
(* The steps of a request that is under way.                               *)

LEMMA ReadStepAdvances ==
  ASSUME SInv, Sturdy, NEW t \in Tasks, PgRead(t) \/ Resume(t)
  PROVE  Advances(t, AsRequest(task[t]))
<1> DEFINE r == task[t]
           q == AsRequest(r)
           g == pg[r.id]
<1>0. r.pc \in {"pgRead", "got"} /\ UNCHANGED pg
  BY DEF PgRead, Resume, At, Stores
<1>1. ReadsTitled(r) /\ r.op \in {"get", "update", "delete"}
  BY <1>0, WaitingTitled DEF SInv, EInv, TInv, Shape
<1>2. /\ r \in Request /\ r.proc \in Procs /\ r.id \in Ids
      /\ cache[r.proc][r.id] \in {Absent, g} /\ (r.pc = "got" => r.row = g)
  BY <1>0, <1>1, Occupied DEF Sound
<1>3. q = AsPending(r) /\ q.id = r.id
  BY <1>0, <1>1 DEF AsRequest, AsPending, Wrote
<1>4. CASE PgRead(t)
  <2> DEFINE n == [r EXCEPT !.row = g, !.pc = "got"]
  <2>1. task' = [task EXCEPT ![t] = n] /\ UNCHANGED cache
    BY <1>4 DEF PgRead, GoTo
  <2>2. /\ n.pc = "got" /\ n.row = g /\ n.proc = r.proc /\ n.id = r.id /\ n.op = r.op
        /\ n.arg = r.arg
    BY <1>2 DEF Request
  <2> HIDE DEF n
  <2>3. Sound(n, g, cache[r.proc][r.id])
    BY <1>1, <1>2, <2>2 DEF Sound
  <2>4. Carries(t, n)
    BY <1>0, <1>2, <2>1, <2>2, <2>3 DEF Carries, Aside
  <2>5. AsRequest(n) = q
    BY <1>1, <1>3, <2>2 DEF AsRequest, AsPending, Wrote
  <2> QED
    BY <1>0, <1>3, <2>2, <2>4, <2>5 DEF Advances, Follows
<1>5. CASE Resume(t)
  <2>1. r.row = g /\ g \in Maybe(Titled)
    BY <1>2, <1>5 DEF Resume, At, SInv, EInv
  <2>2. CASE g = Absent
    BY <1>0, <1>1, <1>2, <1>3, <1>5, <2>1, <2>2, StopAdvances DEF Resume
  <2>3. CASE g # Absent
    <3> DEFINE n == [r EXCEPT !.row = Absent]
    <3>1. Proceed(t, n, g, TRUE) /\ g \in Titled
      BY <1>5, <2>1, <2>3 DEF Resume, Maybe
    <3>2. /\ n \in Request /\ n.row = Absent /\ n.ctx = r.ctx /\ n.proc = r.proc
          /\ n.id = r.id /\ n.op = r.op /\ n.arg = r.arg
      BY <1>2 DEF Request, Maybe
    <3> HIDE DEF n
    <3>3. ReadsTitled(n)
      BY <1>1, <3>2 DEF ReadsTitled, Serving, Maybe
    <3>4. Advances(t, AsPending(n))
      BY <1>0, <1>2, <3>1, <3>2, <3>3, ProceedAdvances DEF Sturdy
    <3>5. AsPending(n) = AsPending(r)
      BY <1>1, <3>2 DEF AsPending
    <3> QED
      BY <1>3, <3>2, <3>4, <3>5
  <2> QED
    BY <2>2, <2>3
<1> QED
  BY <1>4, <1>5

LEMMA PgStepAdvances ==
  ASSUME SInv, Sturdy, NEW t \in Tasks, PgSelect(t) \/ PgWrite(t)
  PROVE  Advances(t, AsRequest(task[t]))
<1> DEFINE r == task[t]
           q == AsRequest(r)
           g == pg[r.id]
<1>0. r.pc \in {"pgSelect", "pgWrite"} /\ UNCHANGED cache
  BY DEF PgSelect, PgWrite, At
<1>1. WritesTitled(r) /\ r.op \in {"create", "update", "delete"}
  BY <1>0, WaitingTitled DEF WritesTitled, Writing, SInv
<1>2. /\ r \in Request /\ r.proc \in Procs /\ r.id \in Ids
      /\ Intends(r, g) /\ cache[r.proc][r.id] \in {Absent, Target(r)}
      /\ r.pc = "pgWrite" => r.row = g
      /\ "pg" \in conf[r.proc]
  BY <1>0, <1>1, Occupied DEF Sound, SInv, DInv
<1>3. q = AsPending(r) /\ q.id = r.id /\ q.phase = "pending"
  BY <1>0, <1>1 DEF AsRequest, AsPending, Wrote
<1>4. CASE PgSelect(t)
  <2> DEFINE n == [r EXCEPT !.row = g, !.pc = "pgWrite"]
  <2>1. task' = [task EXCEPT ![t] = n] /\ UNCHANGED pg
    <3>1. ~(r.op = "delete" /\ g = Absent)
      BY <1>2 DEF Intends
    <3>2. [r EXCEPT !.row = g].op = r.op /\ [r EXCEPT !.row = g].row = g
      BY <1>2 DEF Request
    <3> QED
      BY <1>4, <3>1, <3>2 DEF PgSelect, GoTo, Stores
  <2>2. /\ n.pc = "pgWrite" /\ n.row = g /\ n.proc = r.proc /\ n.id = r.id
        /\ n.op = r.op /\ n.arg = r.arg /\ n.ctx = r.ctx
    BY <1>2 DEF Request
  <2> HIDE DEF n
  <2>3. Intends(n, g) /\ Target(n) = Target(r)
    BY <1>2, <2>2 DEF Intends, Target
  <2>4. Sound(n, g, cache[r.proc][r.id])
    BY <1>1, <1>2, <2>2, <2>3 DEF Sound
  <2>5. Carries(t, n)
    BY <1>0, <1>2, <2>1, <2>2, <2>4 DEF Carries, Aside
  <2>6. AsRequest(n) = q
    BY <1>1, <1>3, <2>2 DEF AsRequest, AsPending, Wrote
  <2> QED
    BY <1>3, <2>1, <2>2, <2>5, <2>6 DEF Advances, Follows
<1>5. CASE PgWrite(t)
  <2> DEFINE pc == IF "redis" \in conf[r.proc] THEN "rdWrite" ELSE "memory"
             n == [r EXCEPT !.row = Absent, !.pc = pc]
  <2>1. task' = [task EXCEPT ![t] = n]
    BY <1>5 DEF PgWrite, AfterPg, GoTo
  <2>2. /\ n.pc = pc /\ n.proc = r.proc /\ n.id = r.id
        /\ n.op = r.op /\ n.arg = r.arg /\ n.ctx = r.ctx
    BY <1>2 DEF Request
  <2>3. r.row = g /\ g \in Maybe(Titled)
    BY <1>2, <1>5 DEF PgWrite, At, SInv, EInv
  <2>4. (IF r.op = "delete" THEN Absent ELSE Merged(g, g, r.ctx)) = Target(r)
    <3>1. CASE r.op = "delete"
      BY <3>1 DEF Target
    <3>2. CASE r.op = "update"
      BY <1>1, <1>2, <2>3, <3>2, MergedSame DEF Target, Intends, WritesTitled, Maybe
    <3>3. CASE r.op = "create"
      BY <1>1, <1>2, <3>3, TitledFacts DEF Target, Intends, WritesTitled, Merged
    <3> QED
      BY <1>1, <3>1, <3>2, <3>3
  <2>5. pg' = [pg EXCEPT ![r.id] = Target(r)]
    BY <1>5, <2>3, <2>4 DEF PgWrite
  <2>6. pg'[r.id] = Target(r) /\ Aside(r.proc, r.id)
    BY <1>0, <1>2, <2>5 DEF Aside, SInv, EInv
  <2> HIDE DEF n
  <2>7. Target(n) = Target(r)
    BY <2>2 DEF Target
  <2>8. Sound(n, Target(r), cache[r.proc][r.id])
    BY <1>1, <1>2, <2>2, <2>7 DEF Sound
  <2>9. Carries(t, n)
    BY <1>0, <1>2, <2>1, <2>2, <2>6, <2>8 DEF Carries
  <2>10. AsRequest(n) = Atomic!Settled(r, Effect(r))
    <3>1. Wrote(n) /\ n.pc \notin {"idle", "done"}
      BY <1>2, <2>2 DEF Wrote
    <3> QED
      BY <2>2, <3>1 DEF AsRequest, Atomic!Settled, Effect, Atomic!Plain, Atomic!Found
  <2>11. Follows(q, AsRequest(n), g, pg'[r.id])
    BY <1>2, <1>3, <2>6, <2>10, IntendedEffect DEF Follows
  <2> QED
    BY <1>3, <2>2, <2>9, <2>11 DEF Advances
<1> QED
  BY <1>4, <1>5

(* The row is written; Redis and the dict follow, or fail to.              *)
LEMMA RdStepAdvances ==
  ASSUME SInv, Sturdy, NEW t \in Tasks, RdWrite(t) \/ RdWriteFails(t)
  PROVE  Advances(t, AsRequest(task[t]))
<1> DEFINE r == task[t]
           q == AsRequest(r)
<1>0. r.pc = "rdWrite" /\ UNCHANGED <<cache, pg>>
  BY DEF RdWrite, RdWriteFails, At
<1>1. r.op \in {"create", "update", "delete"}
  BY <1>0, WaitingTitled DEF WritesTitled, Writing, SInv
<1>2. /\ r \in Request /\ r.proc \in Procs /\ r.id \in Ids /\ "pg" \in conf[r.proc]
      /\ pg[r.id] = Target(r) /\ cache[r.proc][r.id] \in {Absent, Target(r)}
  BY <1>0, <1>1, Occupied DEF Sound, SInv, DInv
<1>3. PICK n : /\ task' = [task EXCEPT ![t] = n] /\ n.pc \in {"rdWrite", "memory"}
               /\ n.proc = r.proc /\ n.id = r.id /\ n.op = r.op /\ n.arg = r.arg
               /\ n.ctx = r.ctx
  <2>1. CASE RdWrite(t)
    <3> DEFINE n == [r EXCEPT !.pc = "memory"]
    <3>1. task' = [task EXCEPT ![t] = n]
      BY <2>1 DEF RdWrite, GoTo
    <3>2. /\ n.pc = "memory" /\ n.proc = r.proc /\ n.id = r.id /\ n.op = r.op /\ n.arg = r.arg
          /\ n.ctx = r.ctx
      BY <1>2 DEF Request
    <3> HIDE DEF n
    <3> QED
      BY <3>1, <3>2
  <2>2. CASE RdWriteFails(t)
    <3>1. PICK pc \in {"rdWrite", "memory"} :
            task' = [task EXCEPT ![t] = [r EXCEPT !.tries = @ + 1, !.pc = pc]]
      BY <2>2 DEF RdWriteFails, GoTo
    <3> DEFINE n == [r EXCEPT !.tries = @ + 1, !.pc = pc]
    <3>2. /\ n.pc = pc /\ n.proc = r.proc /\ n.id = r.id /\ n.op = r.op /\ n.arg = r.arg
          /\ n.ctx = r.ctx
      BY <1>2 DEF Request
    <3>3. task' = [task EXCEPT ![t] = n]
      BY <3>1
    <3> HIDE DEF n
    <3> QED
      BY <3>2, <3>3
  <2> QED
    BY <2>1, <2>2
<1>4. Target(n) = Target(r)
  BY <1>3 DEF Target
<1>5. Sound(n, pg[r.id], cache[r.proc][r.id])
  BY <1>1, <1>2, <1>3, <1>4 DEF Sound
<1>6. Carries(t, n)
  BY <1>0, <1>2, <1>3, <1>5 DEF Carries, Aside
<1>7. AsRequest(n) = q /\ q.id = r.id
  <2>1. Wrote(n) /\ Wrote(r)
    BY <1>0, <1>2, <1>3 DEF Wrote
  <2> QED
    BY <1>0, <1>3, <2>1 DEF AsRequest
<1> QED
  BY <1>0, <1>3, <1>6, <1>7 DEF Advances, Follows

LEMMA FinishAdvances ==
  ASSUME SInv, Sturdy, NEW t \in Tasks, Finish(t)
  PROVE  Advances(t, AsRequest(task[t]))
<1> DEFINE r == task[t]
           q == AsRequest(r)
<1>0. r.pc = "memory" /\ Conclude(t, r) /\ UNCHANGED <<cache, pg>>
  BY DEF Finish, At, Stores
<1>1. WritesTitled(r) /\ Serving(r) /\ r.op # "list"
  BY <1>0, WaitingTitled DEF WritesTitled, Writing, SInv
<1>2. pg[r.id] = Target(r) /\ cache[r.proc][r.id] \in {Absent, Target(r)}
  BY <1>0, <1>1, Occupied DEF Sound
<1>3. IF r.op = "delete" THEN Answer(t, r, "removed", Absent)
      ELSE Answer(t, r, "found", r.ctx)
  BY <1>0, <1>1, TitledFacts DEF Conclude, WritesTitled
<1>4. Aside(r.proc, r.id)
  BY <1>0 DEF Aside
<1>5. PICK n : /\ Carries(t, n) /\ n.id = r.id
               /\ AsRequest(n) = Atomic!Settled(r, Effect(r))
  BY <1>0, <1>1, <1>2, <1>3, <1>4, AnswerCarries DEF Effect, Atomic!Plain, Atomic!Found
<1>6. q = Atomic!Settled(r, Effect(r)) /\ q.id = r.id
  BY <1>0 DEF AsRequest, Wrote, Atomic!Settled, Effect, Atomic!Plain, Atomic!Found
<1> QED
  BY <1>0, <1>5, <1>6 DEF Advances, Follows

(* PostgreSQL does not fail, so that Redis is never read.                  *)
LEMMA StepAdvances ==
  ASSUME SInv, Sturdy, NEW t \in Tasks, Step(t), ~Reply(t), ~PgList(t)
  PROVE  /\ task[t].pc \notin {"idle", "done"} /\ task[t].op # "list"
         /\ Advances(t, AsRequest(task[t])) /\ UNCHANGED <<conf, seen>>
<1>1. /\ "pg" \notin Faulty
      /\ task[t].pc \notin {"rdRead", "rdKeys", "rdScan"}
  BY DEF Sturdy, PgSure, SInv, DInv, Safe
<1>2. \/ PgRead(t) \/ Resume(t) \/ PgSelect(t) \/ PgWrite(t)
      \/ RdWrite(t) \/ RdWriteFails(t) \/ Finish(t)
  <2>1. ~(\/ PgReadFails(t) \/ PgSelectFails(t) \/ PgWriteFails(t) \/ PgListFails(t))
    BY <1>1 DEF PgReadFails, PgSelectFails, PgWriteFails, PgListFails
  <2>2. RdRead(t) => task[t].pc = "rdRead"
    BY DEF At, RdRead
  <2>3. RdReadFails(t) => task[t].pc = "rdRead"
    BY DEF At, RdReadFails
  <2>4. RdKeys(t) \/ RdKeysFails(t) => task[t].pc = "rdKeys"
    BY DEF At, RdKeys, RdKeysFails
  <2>5. RdScan(t) \/ RdScanned(t) => task[t].pc = "rdScan"
    BY DEF At, RdScan, RdScanned
  <2> QED
    BY <1>1, <2>1, <2>2, <2>3, <2>4, <2>5 DEF Step
<1>3. /\ task[t].pc \in {"pgRead", "got", "pgSelect", "pgWrite", "rdWrite", "memory"}
      /\ UNCHANGED <<conf, seen>>
  BY <1>2 DEF At, PgRead, Resume, PgSelect, PgWrite, RdWrite, RdWriteFails, Finish
<1>4. task[t].op # "list"
  BY <1>3 DEF SInv, Steady, AllSound
<1> QED
  BY <1>2, <1>3, <1>4, ReadStepAdvances, PgStepAdvances, RdStepAdvances, FinishAdvances

-----------------------------------------------------------------------------
(* Requests arrive for contexts that nobody else is at.                    *)

Enters(t, a) == /\ Advances(t, Atomic!Pending(a)) /\ task[t].pc = "idle" /\ conf' = conf
                /\ a.id \in Ids /\ \A u \in Tasks : task[u].id # a.id
                /\ \A j \in Ids \ {a.id} : seen'[j] = seen[j]
                /\ seen'[a.id] # "free"

LEMMA RequestEnters ==
  ASSUME SInv, Sturdy, NEW p \in Procs, NEW t \in Tasks, NEW i \in Ids, NEW u \in Maybe(Patches),
         NEW op \in {"get", "update", "delete"}, op = "update" => u \in Patches,
         task[t].pc = "idle", Known(i), Free(i), Read(t, New(p, op, i, u)),
         seen' = seen \/ \E s \in Status \ {"free"} : seen' = [seen EXCEPT ![i] = s],
         UNCHANGED <<pg, conf>>
  PROVE  Enters(t, [op |-> op, id |-> i, arg |-> u])
<1> DEFINE r == New(p, op, i, u)
           a == [op |-> op, id |-> i, arg |-> u]
<1>1. Serving(r) /\ r.proc = p /\ r.op = op /\ r.id = i /\ r.arg = u
  BY NewServing DEF SInv, EInv, AllOps
<1>2. r.row \in Maybe(Titled) /\ r.ctx \in Maybe(Titled)
  BY DEF New, Idle, Maybe
<1>3. Read(t, r)
  OBVIOUS
<1>4. \A v \in Tasks : task[v].id # i
  BY DEF Free, Sturdy
<1>5. AsPending(r) = Atomic!Pending(a)
  BY <1>1 DEF AsPending, Atomic!Pending
<1> HIDE DEF r
<1>6. cache[r.proc][r.id] \in {Absent, pg[r.id]}
  BY <1>1, <1>4 DEF SInv, Steady, Mirrored
<1>7. Advances(t, AsPending(r))
  BY <1>1, <1>2, <1>3, <1>6, ReadAdvances DEF ReadsTitled, Sturdy
<1>8. seen[i] # "free" /\ seen \in [Ids -> Status]
  BY DEF Known, SInv, EInv, TInv, TypeOK
<1> QED
  BY <1>2, <1>4, <1>5, <1>7, <1>8 DEF Enters

LEMMA CreateEnters ==
  ASSUME SInv, Sturdy, NEW p \in Procs, NEW t \in Tasks, NEW i \in Ids, NEW title \in Titles,
         Create(p, t, i, title)
  PROVE  /\ Enters(t, [op |-> "create", id |-> i, arg |-> [title |-> title, done |-> FALSE]])
         /\ pg[i] = Absent
<1> DEFINE c == [title |-> title, done |-> FALSE]
           n == New(p, "create", i, Absent)
           r == [n EXCEPT !.ctx = c]
           a == [op |-> "create", id |-> i, arg |-> c]
<1>1. c \in Titled /\ c \in Context /\ c.done = FALSE
  BY DEF Titled, Context
<1>2. Serving(n) /\ n.proc = p /\ n.op = "create" /\ n.id = i
  BY NewServing DEF SInv, EInv, AllOps, Maybe
<1>3. n.row \in Maybe(Titled)
  BY DEF New, Idle, Maybe
<1>4. /\ task[t].pc = "idle" /\ seen[i] = "free" /\ seen' = [seen EXCEPT ![i] = "new"]
      /\ Remember(r, c) /\ Write(t, r) /\ UNCHANGED <<pg, conf>>
  BY DEF Create
<1> HIDE DEF c, n
<1>5. /\ WritesTitled(r) /\ r.proc = p /\ r.id = i /\ r.op = "create" /\ r.ctx = c
     
  BY <1>1, <1>2, <1>3 DEF WritesTitled, Writing, Serving, Request, Maybe
<1> HIDE DEF r
<1>6. pg[i] = Absent /\ \A u \in Tasks : task[u].id # i
  BY <1>4 DEF SInv, Steady, Newborn
<1>7. Aside(r.proc, r.id) /\ cache'[r.proc][r.id] = Target(r)
  BY <1>4, <1>5 DEF Remember, Aside, Target, SInv, EInv, LocalCalm
<1>8. Intends(r, pg[r.id])
  BY <1>1, <1>5, <1>6 DEF Intends
<1>9. Advances(t, AsPending(r))
  BY <1>4, <1>5, <1>7, <1>8, WriteAdvances
<1>10. AsPending(r) = Atomic!Pending(a)
  BY <1>5 DEF AsPending, Atomic!Pending
<1>11. seen' = [seen EXCEPT ![i] = "new"] /\ seen \in [Ids -> Status]
  BY <1>4 DEF SInv, EInv, TInv, TypeOK
<1> QED
  BY <1>4, <1>6, <1>9, <1>10, <1>11 DEF Enters, c

LEMMA ArriveEnters ==
  ASSUME SInv, Sturdy, DInv', NEW p \in Procs, NEW t \in Tasks, Arrive(p, t), ~List(p, t)
  PROVE  \E a \in Atomic!Requests : Enters(t, a)
<1>1. ASSUME NEW i \in Ids, NEW title \in Titles, Create(p, t, i, title)
      PROVE  \E a \in Atomic!Requests : Enters(t, a)
  <2> DEFINE a == [op |-> "create", id |-> i, arg |-> [title |-> title, done |-> FALSE]]
  <2>1. Enters(t, a) /\ pg[i] = Absent /\ "create" \in Ops
    BY <1>1, CreateEnters DEF Create
  <2>2. Primary[i] = Absent
    BY <2>1, PrimaryRow DEF SInv
  <2>3. a \in Atomic!Requests
    BY <2>1, <2>2 DEF Atomic!Requests
  <2> QED
    BY <2>1, <2>3
<1>2. ASSUME NEW i \in Ids, Get(p, t, i)
      PROVE  \E a \in Atomic!Requests : Enters(t, a)
  <2> DEFINE a == [op |-> "get", id |-> i, arg |-> Absent]
  <2>1. Enters(t, a) /\ "get" \in Ops
    BY <1>2, RequestEnters DEF Get, Maybe
  <2>2. a \in Atomic!Requests
    BY <2>1 DEF Atomic!Requests
  <2> QED
    BY <2>1, <2>2
<1>3. ASSUME NEW i \in Ids, NEW u \in Patches, Update(p, t, i, u)
      PROVE  \E a \in Atomic!Requests : Enters(t, a)
  <2> DEFINE a == [op |-> "update", id |-> i, arg |-> u]
  <2>1. Enters(t, a) /\ "update" \in Ops
    BY <1>3, RequestEnters DEF Update, Maybe
  <2>2. a \in Atomic!Requests
    BY <2>1 DEF Atomic!Requests
  <2> QED
    BY <2>1, <2>2
<1>4. ASSUME NEW i \in Ids, Delete(p, t, i)
      PROVE  \E a \in Atomic!Requests : Enters(t, a)
  <2> DEFINE a == [op |-> "delete", id |-> i, arg |-> Absent]
             s == IF seen[i] \in {"new", "live"} THEN "dying" ELSE seen[i]
  <2>1. s \in Status \ {"free"}
    BY <1>4 DEF Delete, Known, SInv, EInv, TInv, TypeOK, Status
  <2>2. seen' = [seen EXCEPT ![i] = s]
    BY <1>4 DEF Delete
  <2> HIDE DEF s
  <2>3. Enters(t, a) /\ "delete" \in Ops
    BY <1>4, <2>1, <2>2, RequestEnters DEF Delete, Maybe
  <2>4. a \in Atomic!Requests
    BY <2>3 DEF Atomic!Requests
  <2> QED
    BY <2>3, <2>4
<1> QED
  BY <1>1, <1>2, <1>3, <1>4 DEF Arrive

-----------------------------------------------------------------------------
(* The steps of the store are steps of the abstract one.                   *)

LEMMA Advanced ==
  ASSUME SInv, DInv', NEW t \in Tasks, NEW q, NEW b, Advances(t, q), conf' = conf
  PROVE  \E n :
           /\ Carries(t, n) /\ n.id = q.id
           /\ Seen' = [Seen EXCEPT ![t] = AsRequest(n)]
           /\ \/ AsRequest(n) = q /\ pg' = pg
              \/ /\ q.phase = "pending"
                 /\ AsRequest(n) = Atomic!Settled(q, Atomic!Response(q, pg[q.id]))
                 /\ pg' = [pg EXCEPT ![q.id] = Atomic!After(q, pg[q.id])]
<1>1. PICK n : /\ Carries(t, n) /\ n.id = q.id
               /\ Follows(q, AsRequest(n), pg[q.id], pg'[q.id])
  BY DEF Advances
<1>2. \A u \in Tasks : task'[u] = IF u = t THEN n ELSE task[u]
  BY <1>1 DEF Carries, SInv, EInv, TInv, TypeOK
<1>3. ASSUME NEW u \in Tasks
      PROVE  AsRequest(task[u])' = AsRequest(task'[u])
  BY DEF AsRequest, Wrote
<1>4. Seen' = [Seen EXCEPT ![t] = AsRequest(n)]
  BY <1>2, <1>3 DEF Seen
<1>5. pg \in [Ids -> Maybe(Context)] /\ pg' \in [Ids -> Maybe(Context)]
  BY DEF SInv, DInv, TInv, TypeOK
<1>6. pg' = [pg EXCEPT ![q.id] = pg'[q.id]]
  BY <1>1, <1>5 DEF Carries, Aside
<1> QED
  BY <1>1, <1>4, <1>5, <1>6 DEF Follows

LEMMA StepSteady ==
  ASSUME SInv, Sturdy, DInv', NEW t \in Tasks, Step(t), ~Reply(t), ~PgList(t)
  PROVE  /\ Steady'
         /\ Atomic!Perform(t) \/ UNCHANGED <<Primary, Seen>>
<1> DEFINE q == AsRequest(task[t])
<1>1. /\ task[t].pc # "idle" /\ task[t].op # "list"
      /\ Advances(t, q) /\ UNCHANGED <<conf, seen>>
  BY StepAdvances
<1>2. q.id = task[t].id /\ q.op = task[t].op /\ Seen[t] = q
  BY DEF AsRequest, Seen
<1>3. task[t].id \in Ids /\ seen[task[t].id] # "free"
  BY <1>1, Occupied
<1> HIDE DEF q
<1>4. PICK n :
        /\ Carries(t, n) /\ n.id = q.id
        /\ Seen' = [Seen EXCEPT ![t] = AsRequest(n)]
        /\ \/ AsRequest(n) = q /\ pg' = pg
           \/ /\ q.phase = "pending"
              /\ AsRequest(n) = Atomic!Settled(q, Atomic!Response(q, pg[q.id]))
              /\ pg' = [pg EXCEPT ![q.id] = Atomic!After(q, pg[q.id])]
  BY <1>1, Advanced
<1>5. Steady'
  BY <1>1, <1>2, <1>3, <1>4, Carried
<1>6. Primary = pg /\ Primary' = pg'
  BY PrimaryRow DEF SInv
<1>7. CASE AsRequest(n) = q /\ pg' = pg
  BY <1>2, <1>4, <1>5, <1>6, <1>7 DEF Seen
<1>8. CASE /\ q.phase = "pending"
           /\ AsRequest(n) = Atomic!Settled(q, Atomic!Response(q, pg[q.id]))
           /\ pg' = [pg EXCEPT ![q.id] = Atomic!After(q, pg[q.id])]
  BY <1>1, <1>2, <1>4, <1>5, <1>6, <1>8 DEF Atomic!Perform, Atomic!TakeEffect, Seen
<1> QED
  BY <1>4, <1>7, <1>8

LEMMA ArriveSteady ==
  ASSUME SInv, Sturdy, DInv', NEW p \in Procs, NEW t \in Tasks, Arrive(p, t), ~List(p, t)
  PROVE  Steady' /\ Atomic!Arrive(t)
<1>1. PICK a \in Atomic!Requests : Enters(t, a)
  BY ArriveEnters
<1> DEFINE q == Atomic!Pending(a)
<1>2. q.phase = "pending" /\ q.op = a.op /\ q.id = a.id /\ q.arg = a.arg
  BY DEF Atomic!Pending
<1>3. a.op # "list"
  <2>1. a.op = "list" => a.id = Absent
    BY <1>1 DEF Atomic!Requests
  <2> QED
    BY <1>1, <2>1 DEF Enters, Sturdy
<1>4. PICK n :
        /\ Carries(t, n) /\ n.id = q.id
        /\ Seen' = [Seen EXCEPT ![t] = AsRequest(n)]
        /\ \/ AsRequest(n) = q /\ pg' = pg
           \/ /\ q.phase = "pending"
              /\ AsRequest(n) = Atomic!Settled(q, Atomic!Response(q, pg[q.id]))
              /\ pg' = [pg EXCEPT ![q.id] = Atomic!After(q, pg[q.id])]
  BY <1>1, Advanced DEF Enters
<1>5. seen'[a.id] # "free" /\ \A j \in Ids : seen'[j] = "free" => seen[j] = "free"
  BY <1>1 DEF Enters
<1>6. Steady'
  BY <1>1, <1>2, <1>4, <1>5, Carried DEF Enters
<1>7. Primary = pg /\ Primary' = pg'
  BY PrimaryRow DEF SInv
<1>8. Seen[t].phase = "idle"
  BY <1>1 DEF Seen, AsRequest, Enters
<1>9. /\ Atomic!Settled(q, Atomic!Response(q, pg[a.id]))
           = Atomic!Settled(a, Atomic!Response(a, pg[a.id]))
      /\ Atomic!After(q, pg[a.id]) = Atomic!After(a, pg[a.id])
  BY <1>2 DEF Atomic!Settled, Atomic!Response, Atomic!After
<1> HIDE DEF q
<1>10. CASE AsRequest(n) = q /\ pg' = pg
  BY <1>4, <1>6, <1>7, <1>8, <1>10 DEF q, Atomic!Arrive, Seen
<1>11. CASE /\ AsRequest(n) = Atomic!Settled(q, Atomic!Response(q, pg[q.id]))
            /\ pg' = [pg EXCEPT ![q.id] = Atomic!After(q, pg[q.id])]
  <2>1. Atomic!TakeEffect(t, a)
    BY <1>2, <1>3, <1>4, <1>7, <1>9, <1>11 DEF Atomic!TakeEffect, Seen
  <2> QED
    BY <1>6, <1>8, <2>1 DEF Atomic!Arrive, Seen
<1> QED
  BY <1>4, <1>10, <1>11

(* A step that touches neither rows nor cache, of a request that is n from *)
(* then on: done with, or a listing.                                       *)
LEMMA Aloof ==
  ASSUME SInv, Sturdy, NEW t \in Tasks, NEW n, task' = [task EXCEPT ![t] = n],
         UNCHANGED <<cache, pg, conf>>, \A j \in Ids : seen'[j] = "free" => seen[j] = "free",
         n = Idle \/ (n.pc \in {"pgList", "done"} /\ n.op = "list" /\ n.id = Absent),
         task[t].pc \in {"idle", "done"} \/ task[t].op = "list"
  PROVE  Steady' /\ Seen' = [Seen EXCEPT ![t] = AsRequest(n)]
<1>1. \A u \in Tasks : task'[u] = IF u = t THEN n ELSE task[u]
  BY DEF SInv, EInv, TInv, TypeOK
<1>2. /\ n.id = Absent /\ (n.pc = "idle" => n = Idle)
      /\ n.pc # "idle" => n.op = "list" /\ n.pc \in {"pgList", "done"}
  BY DEF Idle
<1>3. AllSound'
  <2> SUFFICES ASSUME NEW u \in Tasks \ {t}, task[u].pc # "idle", task[u].op # "list"
               PROVE  Sound(task[u], pg[task[u].id], cache[task[u].proc][task[u].id])
    BY <1>1, <1>2 DEF AllSound, SInv, Steady
  <2> QED
    BY Occupied
<1>4. Apart' /\ Newborn'
  BY <1>1, <1>2 DEF Apart, Newborn, SInv, Steady, Sturdy
<1>5. Mirrored'
  <2> SUFFICES ASSUME NEW p \in Procs, NEW i \in Ids, \A u \in Tasks : task'[u].id # i
               PROVE  cache[p][i] \in {Absent, pg[i]}
    BY DEF Mirrored
  <2>1. CASE task[t].id = i
    <3>1. task[t].pc = "done" /\ task[t].op # "list"
      BY <2>1 DEF SInv, Steady, AllSound, Idle, Sturdy
    <3>2. Sound(task[t], pg[i], cache[p][i])
      BY <2>1, <3>1, Occupied DEF Sturdy
    <3> QED
      BY <3>1, <3>2 DEF Sound
  <2>2. CASE task[t].id # i
    BY <1>1, <2>2 DEF SInv, Steady, Mirrored
  <2> QED
    BY <2>1, <2>2
<1>6. ASSUME NEW u \in Tasks
      PROVE  AsRequest(task[u])' = AsRequest(task'[u])
  BY DEF AsRequest, Wrote
<1>7. ASSUME NEW u \in Tasks
      PROVE  AsRequest(task[u])' = IF u = t THEN AsRequest(n) ELSE AsRequest(task[u])
  BY <1>1, <1>6
<1>8. Seen' = [Seen EXCEPT ![t] = AsRequest(n)]
  BY <1>7 DEF Seen
<1> QED
  BY <1>3, <1>4, <1>5, <1>8 DEF Steady

LEMMA ListSteady ==
  ASSUME SInv, Sturdy, DInv', NEW p \in Procs, NEW t \in Tasks, List(p, t)
  PROVE  Steady' /\ Atomic!Arrive(t)
<1> DEFINE m == New(p, "list", Absent, Absent)
           n == [m EXCEPT !.pc = "pgList"]
           a == [op |-> "list", id |-> Absent, arg |-> Absent]
<1>1. /\ task[t].pc = "idle" /\ "list" \in Ops /\ task' = [task EXCEPT ![t] = n]
      /\ UNCHANGED <<cache, pg, conf, seen>>
  BY DEF List, GoTo, SInv, DInv
<1>2. n.pc = "pgList" /\ n.op = "list" /\ n.id = Absent /\ n.arg = Absent
  BY DEF New, Idle
<1> HIDE DEF n
<1>3. AsRequest(n) = Atomic!Pending(a) /\ AsRequest(task[t]).phase = "idle"
  BY <1>1, <1>2 DEF AsRequest, Wrote, Atomic!Pending
<1>4. Steady' /\ Seen' = [Seen EXCEPT ![t] = AsRequest(n)]
  BY <1>1, <1>2, Aloof
<1>5. a \in Atomic!Requests
  BY <1>1 DEF Atomic!Requests
<1>6. Primary' = Primary
  BY <1>1, PrimaryRow DEF SInv
<1> QED
  BY <1>3, <1>4, <1>5, <1>6 DEF Atomic!Arrive, Seen

LEMMA PgListSteady ==
  ASSUME SInv, Sturdy, DInv', NEW t \in Tasks, PgList(t)
  PROVE  Steady' /\ Atomic!Perform(t)
<1> DEFINE r == task[t]
           S == {i \in Ids : pg[i] # Absent}
           n == [Idle EXCEPT !.pc = "done", !.proc = r.proc, !.op = r.op, !.id = r.id,
                             !.before = r.before, !.res = [kind |-> "listed", body |-> S]]
<1>1. /\ r.pc = "pgList" /\ r.op = "list" /\ r.id = Absent
      /\ task' = [task EXCEPT ![t] = n] /\ UNCHANGED <<cache, pg, conf, seen>>
  <2>1. r.pc = "pgList" /\ Answer(t, r, "listed", S) /\ UNCHANGED <<cache, pg, conf, seen>>
    BY DEF PgList, At, Stores
  <2>2. r.op = "list"
    BY <2>1, Waiting DEF SInv, EInv
  <2> QED
    BY <2>1, <2>2 DEF Answer, SInv, Steady, AllSound
<1>2. /\ n.pc = "done" /\ n.op = "list" /\ n.id = Absent
      /\ n.res = [kind |-> "listed", body |-> S]
  BY <1>1 DEF Idle
<1> HIDE DEF n
<1>3. Steady' /\ Seen' = [Seen EXCEPT ![t] = AsRequest(n)]
  BY <1>1, <1>2, Aloof
<1>4. Primary = pg /\ Primary' = pg'
  BY PrimaryRow DEF SInv
<1>5. Atomic!Listed = [kind |-> "listed", body |-> S]
  BY <1>4 DEF Atomic!Listed
<1>6. AsRequest(r).phase = "pending" /\ AsRequest(r).op = "list"
  BY <1>1 DEF AsRequest, Wrote
<1>7. AsRequest(n) = Atomic!Settled(AsRequest(r), Atomic!Listed)
  BY <1>1, <1>2, <1>5 DEF AsRequest, Atomic!Settled
<1> QED
  BY <1>1, <1>3, <1>4, <1>6, <1>7 DEF Atomic!Perform, Atomic!TakeEffect, Seen

LEMMA ReplySteady ==
  ASSUME SInv, Sturdy, DInv', NEW t \in Tasks, Reply(t)
  PROVE  Steady' /\ Atomic!Return(t)
<1> DEFINE r == task[t]
<1>1. /\ r.pc = "done" /\ task' = [task EXCEPT ![t] = Idle] /\ UNCHANGED <<cache, pg, conf>>
  BY DEF Reply, At, Stores
<1>2. \A j \in Ids : seen'[j] = "free" => seen[j] = "free"
  BY DEF Reply, SInv, EInv, TInv, TypeOK
<1>3. Steady' /\ Seen' = [Seen EXCEPT ![t] = AsRequest(Idle)]
  BY <1>1, <1>2, Aloof
<1>4. AsRequest(Idle) = Atomic!Idle /\ AsRequest(r).phase = "settled"
  BY <1>1 DEF AsRequest, Idle, Atomic!Idle
<1>5. Primary' = Primary
  BY <1>1, PrimaryRow DEF SInv
<1> QED
  BY <1>3, <1>4, <1>5 DEF Atomic!Return, Seen

LEMMA ForgetSteady ==
  ASSUME SInv, Sturdy, NEW p \in Procs, NEW i \in Ids, Forget(p, i)
  PROVE  Steady' /\ UNCHANGED <<Primary, Seen>>
<1>1. UNCHANGED <<memory, pg, redis, conf, task, seen>>
  BY DEF Forget, Stores
<1>2. \A o \in Procs, j \in Ids : cache'[o][j] \in {cache[o][j], Absent}
  BY DEF Forget, SInv, EInv, LocalCalm
<1>3. AllSound'
  <2> SUFFICES ASSUME NEW u \in Tasks, task[u].pc # "idle", task[u].op # "list"
               PROVE  Sound(task[u], pg[task[u].id], cache'[task[u].proc][task[u].id])
    BY <1>1 DEF AllSound, SInv, Steady
  <2> DEFINE r == task[u]
  <2>1. /\ r.proc \in Procs /\ r.id \in Ids
        /\ Sound(r, pg[r.id], cache[r.proc][r.id])
    BY Occupied
  <2> QED
    BY <1>2, <2>1 DEF Sound
<1>4. Apart' /\ Newborn' /\ Mirrored'
  BY <1>1, <1>2 DEF SInv, Steady, Apart, Newborn, Mirrored
<1>5. UNCHANGED <<Primary, Seen>>
  BY <1>1 DEF Primary, Seen, AsRequest, Wrote
<1> QED
  BY <1>3, <1>4, <1>5 DEF Steady

(* A crash takes every request, and no row.                                *)
LEMMA RestartSteady ==
  ASSUME SInv, Sturdy, DInv', NEW p \in Procs, Restart(p)
  PROVE  Steady' /\ Atomic!Crash
<1>1. /\ restarts < MaxRestarts
      /\ cache' = [cache EXCEPT ![p] = Empty] /\ UNCHANGED <<pg, seen>>
      /\ task' = [t \in Tasks |-> IF task[t].proc = p THEN Idle ELSE task[t]]
  BY DEF Restart, Stores
<1>2. \A t \in Tasks : task'[t] = Idle
  <2> SUFFICES ASSUME NEW t \in Tasks, task[t].proc # p
               PROVE  task[t] = Idle
    BY <1>1
  <2>1. task[t].pc = "idle"
    BY DEF SInv, EInv, TInv, Shape, Sturdy
  <2> QED
    BY <2>1 DEF SInv, Steady, AllSound
<1>3. \A q \in Procs, i \in Ids : cache'[q][i] = Absent
  BY <1>1 DEF Empty, Sturdy, SInv, EInv, LocalCalm
<1>4. Idle.pc = "idle" /\ Idle.id = Absent
  BY DEF Idle
<1>5. Steady'
  BY <1>1, <1>2, <1>3, <1>4 DEF Steady, AllSound, Apart, Newborn, Mirrored, SInv, Sturdy
<1>6. Primary' = Primary
  BY <1>1, PrimaryRow DEF SInv
<1>7. Seen' = [t \in Tasks |-> Atomic!Idle]
  <2>1. ASSUME NEW t \in Tasks
        PROVE  AsRequest(task[t])' = Atomic!Idle
    BY <1>2, <1>4 DEF AsRequest, Idle, Atomic!Idle
  <2> QED
    BY <2>1 DEF Seen
<1>8. MaxRestarts > 0
  BY <1>1, StorageAssumption DEF SInv, EInv, TInv, TypeOK
<1> QED
  BY <1>5, <1>6, <1>7, <1>8 DEF Atomic!Crash, Seen

LEMMA NextSteady ==
  ASSUME Sturdy, SInv, [Next]_vars
  PROVE  SInv' /\ [Atomic!Next]_(Atomic!vars)
<1>1. DInv' /\ EInv'
  BY NextKeeps, NextCalm DEF SInv, Sturdy
<1> SUFFICES Steady' /\ (Atomic!Next \/ UNCHANGED <<Primary, Seen>>)
  BY <1>1 DEF SInv, Atomic!vars, Seen
<1>2. ASSUME NEW p \in Procs, NEW t \in Tasks, Arrive(p, t)
      PROVE  Steady' /\ Atomic!Next
  BY <1>1, <1>2, ArriveSteady, ListSteady DEF Atomic!Next
<1>3. ASSUME NEW t \in Tasks, Step(t)
      PROVE  Steady' /\ (Atomic!Next \/ UNCHANGED <<Primary, Seen>>)
  BY <1>1, <1>3, StepSteady, PgListSteady, ReplySteady DEF Atomic!Next
<1>4. ASSUME NEW p \in Procs, NEW i \in Ids, Forget(p, i)
      PROVE  Steady' /\ UNCHANGED <<Primary, Seen>>
  BY <1>4, ForgetSteady
<1>5. ASSUME NEW p \in Procs, Restart(p)
      PROVE  Steady' /\ Atomic!Next
  BY <1>1, <1>5, RestartSteady DEF Atomic!Next
<1>6. CASE UNCHANGED vars
  BY <1>6 DEF vars, SInv, Steady, AllSound, Apart, Newborn, Mirrored, Primary, Seen,
              AsRequest, Wrote
<1> QED
  BY <1>2, <1>3, <1>4, <1>5, <1>6 DEF Next

LEMMA InitSteady ==
  ASSUME Sturdy, Init
  PROVE  SInv /\ Atomic!Init
<1>1. DInv /\ EInv
  BY InitSafe, InitCalm DEF Sturdy
<1>2. Idle.pc = "idle" /\ Idle.id = Absent /\ \A t \in Tasks : task[t] = Idle
  BY DEF Init, Idle
<1>3. AllSound /\ Apart
  BY <1>2 DEF AllSound, Apart
<1>4. Newborn /\ Mirrored
  BY <1>2 DEF Newborn, Mirrored, Init, Empty, Sturdy
<1>5. Primary = [i \in Ids |-> Absent]
  BY <1>1, PrimaryRow DEF Init, Empty
<1>6. Seen = [t \in Tasks |-> Atomic!Idle]
  <2>1. AsRequest(Idle) = Atomic!Idle
    BY DEF AsRequest, Idle, Atomic!Idle
  <2> QED
    BY <1>2, <2>1 DEF Seen
<1> QED
  BY <1>1, <1>3, <1>4, <1>5, <1>6 DEF SInv, Steady, Atomic!Init, Seen

(* With a PostgreSQL that does not fail, one process and clients that do   *)
(* not overlap two requests for a context, the service is one map whose    *)
(* operations are atomic, listings included: whatever Redis does, whatever *)
(* the cache forgets and however often the process dies, even in the       *)
(* middle of a write.                                                      *)
THEOREM CrashesAreAtomic == ASSUME Sturdy PROVE Spec => ImplementsContextStore
<1>1. Init => SInv /\ Atomic!Init
  BY InitSteady
<1>2. SInv /\ [Next]_vars => SInv' /\ [Atomic!Next]_(Atomic!vars)
  BY NextSteady
<1> QED
  BY <1>1, <1>2, PTL DEF Spec, ImplementsContextStore, Atomic!Spec

-----------------------------------------------------------------------------
(* What a coroutine never forgets: which request it is, and when it began. *)
Named(r) == {"pc", "op", "id", "before"} \subseteq DOMAIN r
SameAs(n, r) == n.op = r.op /\ n.id = r.id /\ n.before = r.before
Continues(t, r) == \E n : task' = [task EXCEPT ![t] = n] /\ n.pc # "idle" /\ SameAs(n, r)

LEMMA AnswerContinues ==
  ASSUME NEW t \in Tasks, NEW r, NEW kind, NEW body, Answer(t, r, kind, body)
  PROVE  Continues(t, r)
<1> DEFINE n == [Idle EXCEPT !.pc = "done", !.proc = r.proc, !.op = r.op, !.id = r.id,
                             !.before = r.before, !.res = [kind |-> kind, body |-> body]]
<1>1. n.pc # "idle" /\ SameAs(n, r)
  BY DEF Idle, SameAs
<1>2. task' = [task EXCEPT ![t] = n]
  BY DEF Answer
<1> HIDE DEF n
<1> QED
  BY <1>1, <1>2 DEF Continues

LEMMA GoToContinues ==
  ASSUME NEW t \in Tasks, NEW r, NEW pc, Named(r), pc # "idle", GoTo(t, r, pc)
  PROVE  Continues(t, r)
<1> DEFINE n == [r EXCEPT !.pc = pc]
<1>1. n.pc # "idle" /\ SameAs(n, r)
  BY DEF Named, SameAs
<1>2. task' = [task EXCEPT ![t] = n]
  BY DEF GoTo
<1> HIDE DEF n
<1> QED
  BY <1>1, <1>2 DEF Continues

LEMMA WriteContinues ==
  ASSUME NEW t \in Tasks, NEW r, Named(r), Conclude(t, r) \/ Write(t, r) \/ AfterPg(t, r)
  PROVE  Continues(t, r)
<1>1. ASSUME Conclude(t, r)
      PROVE  Continues(t, r)
  BY <1>1, AnswerContinues DEF Conclude
<1>2. CASE Write(t, r)
  BY <1>1, <1>2, GoToContinues DEF Write
<1>3. CASE AfterPg(t, r)
  <2> DEFINE n == [r EXCEPT !.row = Absent]
  <2>1. Named(n) /\ SameAs(n, r)
    BY DEF Named, SameAs
  <2>2. \E pc \in {"rdWrite", "memory"} : GoTo(t, n, pc)
    BY <1>3 DEF AfterPg
  <2> HIDE DEF n
  <2> QED
    BY <2>1, <2>2, GoToContinues DEF Continues, SameAs
<1> QED
  BY <1>1, <1>2, <1>3

LEMMA ReadContinues ==
  ASSUME NEW t \in Tasks, NEW r, Named(r),
         \/ \E c, fill : Proceed(t, r, c, fill)
         \/ FromMemory(t, r) \/ Read(t, r)
  PROVE  Continues(t, r)
<1>1. ASSUME NEW c, NEW fill, Proceed(t, r, c, fill)
      PROVE  Continues(t, r)
  <2>1. CASE Answer(t, r, "found", c)
    BY <2>1, AnswerContinues
  <2>2. CASE Write(t, r)
    BY <2>2, WriteContinues
  <2>3. CASE Write(t, [r EXCEPT !.ctx = Patched(c, r.arg)])
    <3> DEFINE n == [r EXCEPT !.ctx = Patched(c, r.arg)]
    <3>1. Named(n) /\ SameAs(n, r)
      BY DEF Named, SameAs
    <3>2. Write(t, n)
      BY <2>3
    <3> HIDE DEF n
    <3> QED
      BY <3>1, <3>2, WriteContinues DEF Continues, SameAs
  <2> QED
    BY <1>1, <2>1, <2>2, <2>3 DEF Proceed
<1>2. ASSUME FromMemory(t, r)
      PROVE  Continues(t, r)
  BY <1>1, <1>2, AnswerContinues DEF FromMemory, Stop
<1>3. CASE Read(t, r)
  BY <1>1, <1>2, <1>3, AnswerContinues, GoToContinues DEF Read, Stop
<1> QED
  BY <1>1, <1>2, <1>3

LEMMA StepContinues ==
  ASSUME TInv, NEW t \in Tasks, Step(t), ~Reply(t)
  PROVE  Continues(t, task[t]) /\ task[t].pc # "idle" /\ UNCHANGED <<conf, seen>>
<1> DEFINE r == task[t]
<1>1. Named(r) /\ \A c : Named([r EXCEPT !.row = c]) /\ SameAs([r EXCEPT !.row = c], r)
  <2>1. r \in Request
    BY DEF TInv, TypeOK
  <2> QED
    BY <2>1 DEF Request, Named, SameAs
<1>2. ASSUME NEW n, Named(n), SameAs(n, r), Continues(t, n)
      PROVE  Continues(t, r)
  BY <1>2 DEF Continues, SameAs
<1> HIDE DEF r
<1>3. CASE PgRead(t) \/ PgReadFails(t) \/ RdRead(t) \/ RdReadFails(t) \/ Resume(t)
  <2>1. /\ r.pc # "idle" /\ UNCHANGED <<conf, seen>>
        /\ \/ GoTo(t, [r EXCEPT !.row = pg[r.id]], "got") \/ GoTo(t, r, "rdRead")
           \/ GoTo(t, [r EXCEPT !.row = redis[r.id]], "got") \/ FromMemory(t, r)
           \/ Answer(t, r, "none", Absent) \/ Proceed(t, [r EXCEPT !.row = Absent], r.row, TRUE)
    BY <1>3 DEF r, PgRead, PgReadFails, RdRead, RdReadFails, Resume, Stop, At
  <2>2. \A c : Named([r EXCEPT !.row = c]) /\ SameAs([r EXCEPT !.row = c], r)
    BY <1>1
  <2>3. ASSUME NEW c, GoTo(t, [r EXCEPT !.row = c], "got")
        PROVE  Continues(t, r)
    BY <1>2, <2>2, <2>3, GoToContinues
  <2>4. ASSUME Proceed(t, [r EXCEPT !.row = Absent], r.row, TRUE)
        PROVE  Continues(t, r)
    BY <1>2, <2>2, <2>4, ReadContinues
  <2> QED
    BY <1>1, <2>1, <2>3, <2>4, GoToContinues, AnswerContinues, ReadContinues DEF r
<1>4. CASE PgSelect(t) \/ PgSelectFails(t) \/ PgWrite(t) \/ PgWriteFails(t) \/ Finish(t)
  <2>1. /\ r.pc # "idle" /\ UNCHANGED <<conf, seen>>
        /\ \/ AfterPg(t, [r EXCEPT !.row = pg[r.id]]) \/ AfterPg(t, r) \/ Conclude(t, r)
           \/ GoTo(t, [r EXCEPT !.row = pg[r.id]], "pgWrite")
    BY <1>4 DEF r, PgSelect, PgSelectFails, PgWrite, PgWriteFails, Finish, At
  <2> QED
    BY <1>1, <1>2, <2>1, GoToContinues, WriteContinues DEF r
<1>5. CASE RdWrite(t) \/ RdWriteFails(t) \/ RdKeys(t) \/ RdScan(t)
  <2>1. /\ r.pc # "idle" /\ UNCHANGED <<conf, seen>>
        /\ \E n, pc : Named(n) /\ SameAs(n, r) /\ pc # "idle" /\ GoTo(t, n, pc)
    <3>1. CASE RdWrite(t)
      BY <1>1, <3>1 DEF r, RdWrite, At, SameAs
    <3>2. CASE RdWriteFails(t)
      <4> DEFINE n == [r EXCEPT !.tries = @ + 1]
      <4>1. Named(n) /\ SameAs(n, r)
        BY <1>1 DEF Named, SameAs
      <4>2. /\ r.pc # "idle" /\ UNCHANGED <<conf, seen>>
            /\ \E pc \in {"rdWrite", "memory"} : GoTo(t, n, pc)
        BY <3>2 DEF r, RdWriteFails, At
      <4> HIDE DEF n
      <4> QED
        BY <4>1, <4>2
    <3>3. CASE RdKeys(t)
      <4> DEFINE n == [r EXCEPT !.todo = {i \in Ids : redis[i] # Absent}]
      <4>1. Named(n) /\ SameAs(n, r)
        BY <1>1 DEF Named, SameAs
      <4>2. r.pc # "idle" /\ UNCHANGED <<conf, seen>> /\ GoTo(t, n, "rdScan")
        BY <3>3 DEF r, RdKeys, At
      <4> HIDE DEF n
      <4> QED
        BY <4>1, <4>2
    <3>4. CASE RdScan(t)
      <4>1. r.pc # "idle" /\ UNCHANGED <<conf, seen>>
        BY <3>4 DEF r, RdScan, At
      <4>2. PICK i, a :
              \/ GoTo(t, [[r EXCEPT !.todo = @ \ {i}] EXCEPT !.acc = a], "rdScan")
              \/ GoTo(t, [r EXCEPT !.todo = @ \ {i}], "rdScan")
        <5>1. PICK i \in r.todo :
                \/ \E got \in BOOLEAN :
                     GoTo(t, [[r EXCEPT !.todo = @ \ {i}]
                                EXCEPT !.acc = IF got THEN @ \union {i} ELSE @], "rdScan")
                \/ GoTo(t, [r EXCEPT !.todo = @ \ {i}], "rdScan")
          BY <3>4 DEF r, RdScan
        <5>2. [r EXCEPT !.todo = @ \ {i}].acc = r.acc
          BY <1>1 DEF Named
        <5> QED
          BY <5>1, <5>2
      <4> DEFINE m == [r EXCEPT !.todo = @ \ {i}]
                 n == [m EXCEPT !.acc = a]
      <4>3. Named(m) /\ SameAs(m, r)
        BY <1>1 DEF Named, SameAs
      <4>4. Named(n) /\ SameAs(n, r)
        BY <4>3 DEF Named, SameAs
      <4>5. GoTo(t, n, "rdScan") \/ GoTo(t, m, "rdScan")
        BY <4>2
      <4> HIDE DEF m, n
      <4> QED
        BY <4>1, <4>3, <4>4, <4>5
    <3> QED
      BY <1>5, <3>1, <3>2, <3>3, <3>4
  <2> QED
    BY <1>2, <2>1, GoToContinues DEF r
<1>6. CASE PgList(t) \/ PgListFails(t) \/ RdKeysFails(t) \/ RdScanned(t)
  <2>1. /\ r.pc # "idle" /\ UNCHANGED <<conf, seen>>
        /\ (\E kind, body : Answer(t, r, kind, body)) \/ GoTo(t, r, "rdKeys")
    BY <1>6 DEF r, PgList, PgListFails, RdKeysFails, RdScanned, ListMemory, At
  <2> QED
    BY <1>1, <2>1, AnswerContinues, GoToContinues DEF r
<1> QED
  BY <1>3, <1>4, <1>5, <1>6 DEF Step

(* A request arrives: it is a from then on.                                *)
Begins(t, a) == /\ Continues(t, a) /\ a.before = seen /\ task[t].pc = "idle" /\ conf' = conf
                /\ \A i \in Ids : /\ i # a.id => seen'[i] = seen[i]
                                  /\ seen'[i] = "dead" <=> seen[i] = "dead"
                /\ a.op = "create" => a.id \in Ids /\ seen'[a.id] = "new"

LEMMA ArriveBegins ==
  ASSUME TInv, NEW p \in Procs, NEW t \in Tasks, Arrive(p, t)
  PROVE  \E a : Begins(t, a)
<1>1. \A op, i, u : LET a == New(p, op, i, u)
                    IN Named(a) /\ a.op = op /\ a.id = i /\ a.before = seen
  BY DEF New, Idle, Named
<1>2. ASSUME NEW i \in Ids, NEW title \in Titles, Create(p, t, i, title)
      PROVE  \E a : Begins(t, a)
  <2> DEFINE n == New(p, "create", i, Absent)
             a == [n EXCEPT !.ctx = [title |-> title, done |-> FALSE]]
  <2>1. Named(n) /\ n.op = "create" /\ n.id = i /\ n.before = seen
    BY <1>1
  <2>2. /\ Write(t, a) /\ task[t].pc = "idle" /\ conf' = conf
        /\ seen[i] = "free" /\ seen' = [seen EXCEPT ![i] = "new"]
    BY <1>2 DEF Create
  <2> HIDE DEF n
  <2>3. Named(a) /\ a.op = "create" /\ a.id = i /\ a.before = seen
    BY <2>1 DEF Named
  <2> HIDE DEF a
  <2> QED
    BY <2>2, <2>3, WriteContinues DEF Begins, TInv, TypeOK
<1>3. ASSUME NEW op \in {"get", "update", "delete"}, NEW i \in Ids, NEW u,
             Read(t, New(p, op, i, u)), task[t].pc = "idle", conf' = conf,
             \/ seen' = seen
             \/ seen' = [seen EXCEPT ![i] = IF @ \in {"new", "live"} THEN "dying" ELSE @]
      PROVE  \E a : Begins(t, a)
  <2> DEFINE a == New(p, op, i, u)
  <2>1. Named(a) /\ a.op = op /\ a.id = i /\ a.before = seen /\ Read(t, a)
    BY <1>1, <1>3
  <2> HIDE DEF a
  <2> QED
    BY <1>3, <2>1, ReadContinues DEF Begins, TInv, TypeOK
<1>4. CASE List(p, t)
  <2> DEFINE a == New(p, "list", Absent, Absent)
  <2>1. Named(a) /\ a.op = "list" /\ a.before = seen
    BY <1>1
  <2>2. /\ task[t].pc = "idle" /\ UNCHANGED <<conf, seen>>
        /\ \/ GoTo(t, a, "pgList") \/ GoTo(t, a, "rdKeys")
           \/ \E kind, body : Answer(t, a, kind, body)
    BY <1>4 DEF List, ListMemory
  <2> HIDE DEF a
  <2> QED
    BY <2>1, <2>2, GoToContinues, AnswerContinues DEF Begins
<1> QED
  BY <1>2, <1>3, <1>4 DEF Arrive, Get, Update, Delete

-----------------------------------------------------------------------------
(* Wherever the store is the abstract one and clients do not overlap two   *)
(* requests for a context, what is deleted stays deleted: its row is gone, *)
(* and whoever began since then is not shown it.  All that is needed of    *)
(* the coroutines is what they are for the abstract store.                 *)

(* A request that is a there and began when the clients knew b, the        *)
(* contexts being g and what the clients know s.                           *)
Past(a, b, g, s) ==
  /\ \A i \in Ids : b[i] = "dead" =>
       /\ s[i] = "dead"
       /\ a.phase = "settled" => ~Shows(a, i)
  /\ a.phase = "settled" /\ a.res.kind = "removed" => a.op = "delete" /\ g[a.id] = Absent
  /\ a.phase # "idle" /\ a.op = "create" => s[a.id] = "new"

Buried == /\ \A i \in Ids : seen[i] = "dead" => Primary[i] = Absent
          /\ \A t \in Tasks : Past(Seen[t], task[t].before, Primary, seen)

(* One process and clients of that kind.                                   *)
Ground == /\ TInv /\ Apart /\ Absent \notin Ids /\ \E p : Procs = {p}
          /\ \A t \in Tasks : task[t].pc # "idle" /\ task[t].op = "list" => task[t].id = Absent

(* A request q takes effect and is a, the contexts being g before and g2   *)
(* after.                                                                  *)
Acts(q, a, g, g2) ==
  /\ q.id \in Ids /\ g \in [Ids -> Maybe(Context)]
  /\ a = Atomic!Settled(q, Atomic!Response(q, g[q.id]))
  /\ g2 = [g EXCEPT ![q.id] = Atomic!After(q, g[q.id])]

LEMMA PastEffect ==
  ASSUME NEW q, NEW a, NEW b, NEW g, NEW g2, NEW s, Acts(q, a, g, g2),
         \A i \in Ids : b[i] = "dead" => s[i] = "dead",
         \A i \in Ids : s[i] = "dead" => g[i] = Absent,
         q.op = "create" => s[q.id] = "new"
  PROVE  Past(a, b, g2, s) /\ \A i \in Ids : s[i] = "dead" => g2[i] = Absent
<1> DEFINE c == g[q.id]
           res == Atomic!Response(q, c)
<1>1. a.phase = "settled" /\ a.op = q.op /\ a.id = q.id /\ a.id \in Ids /\ a.res = res
  BY DEF Atomic!Settled, Acts
<1>2. /\ res.kind \in {"found", "none", "removed"}
      /\ q.op # "create" /\ c = Absent => res.kind = "none" /\ Atomic!After(q, c) = Absent
      /\ res.kind = "removed" => q.op = "delete" /\ Atomic!After(q, c) = Absent
  BY DEF Atomic!Response, Atomic!After, Atomic!Found, Atomic!Plain
<1>3. \A i \in Ids : g2[i] = IF i = q.id THEN Atomic!After(q, c) ELSE g[i]
  BY DEF Acts
<1> HIDE DEF c, res
<1>4. \A i \in Ids : s[i] = "dead" => g2[i] = Absent
  BY <1>2, <1>3 DEF c
<1>5. \A i \in Ids : s[i] = "dead" => ~Shows(a, i)
  BY <1>1, <1>2 DEF Shows, c
<1> QED
  BY <1>1, <1>2, <1>3, <1>4, <1>5 DEF Past

LEMMA PastListing ==
  ASSUME NEW q, NEW a, NEW b, NEW s, a = Atomic!Settled(q, Atomic!Listed), q.op = "list",
         q.id \notin Ids, \A i \in Ids : b[i] = "dead" => s[i] = "dead",
         \A i \in Ids : s[i] = "dead" => Primary[i] = Absent
  PROVE  Past(a, b, Primary, s)
<1>1. /\ a.phase = "settled" /\ a.op = "list" /\ a.id = q.id /\ a.res.kind = "listed"
      /\ a.res.body = {i \in Ids : Primary[i] # Absent}
  BY DEF Atomic!Settled, Atomic!Listed
<1>2. \A i \in Ids : s[i] = "dead" => ~Shows(a, i)
  BY <1>1 DEF Shows
<1> QED
  BY <1>1, <1>2 DEF Past

LEMMA IdlePast ==
  ASSUME NEW g, NEW s
  PROVE  Past(Atomic!Idle, Idle.before, g, s)
BY DEF Idle, Atomic!Idle, Past

LEMMA SeenIs ==
  ASSUME NEW t \in Tasks
  PROVE  /\ Seen[t].op = task[t].op /\ Seen[t].id = task[t].id
         /\ Seen[t].phase = "idle" <=> task[t].pc = "idle"
         /\ Seen'[t].op = task'[t].op /\ Seen'[t].id = task'[t].id
         /\ Seen'[t].phase = "idle" <=> task'[t].pc = "idle"
         /\ task'[t] = task[t] /\ conf' = conf => Seen'[t] = Seen[t]
BY DEF Seen, AsRequest, Wrote

LEMMA PrimaryTyped ==
  ASSUME TInv, \E p : Procs = {p}
  PROVE  Primary \in [Ids -> Maybe(Context)]
<1>1. PICK p \in Procs : p = CHOOSE x \in Procs : TRUE
  OBVIOUS
<1>2. /\ memory[p] \in [Ids -> Maybe(Context)] /\ pg \in [Ids -> Maybe(Context)]
      /\ redis \in [Ids -> Maybe(Context)]
  BY DEF TInv, TypeOK
<1> QED
  BY <1>1, <1>2 DEF Primary

(* Request t of the abstract store arrives or takes effect.                *)
Moves(t) ==
  \E q : /\ q.phase = "pending" /\ IF q.op = "list" THEN q.id \notin Ids ELSE q.id \in Ids
         /\ Seen[t] = q \/ Seen[t].phase = "idle"
         /\ \/ Seen' = [Seen EXCEPT ![t] = q] /\ UNCHANGED Primary
            \/ /\ q.op # "list"
               /\ Seen' = [Seen EXCEPT ![t] =
                             Atomic!Settled(q, Atomic!Response(q, Primary[q.id]))]
               /\ Primary' = [Primary EXCEPT ![q.id] = Atomic!After(q, Primary[q.id])]
            \/ /\ q.op = "list" /\ UNCHANGED Primary
               /\ Seen' = [Seen EXCEPT ![t] = Atomic!Settled(q, Atomic!Listed)]

LEMMA AtomicSteps ==
  ASSUME Ground, [Atomic!Next]_(Atomic!vars)
  PROVE  \/ UNCHANGED <<Primary, Seen>>
         \/ UNCHANGED Primary /\ Seen' = [t \in Tasks |-> Atomic!Idle]
         \/ \E t \in Tasks : Moves(t)
         \/ \E t \in Tasks : Seen' = [Seen EXCEPT ![t] = Atomic!Idle] /\ UNCHANGED Primary
<1>1. ASSUME NEW t \in Tasks, Atomic!Arrive(t)
      PROVE  Moves(t)
  <2>1. PICK a \in Atomic!Requests :
          \/ Seen' = [Seen EXCEPT ![t] = Atomic!Pending(a)] /\ UNCHANGED Primary
          \/ Atomic!TakeEffect(t, a)
    BY <1>1 DEF Atomic!Arrive, Seen
  <2> DEFINE q == Atomic!Pending(a)
  <2>2. q.phase = "pending" /\ q.op = a.op /\ q.id = a.id /\ q.arg = a.arg
    BY DEF Atomic!Pending
  <2>3. IF a.op = "list" THEN a.id \notin Ids ELSE a.id \in Ids
    BY DEF Atomic!Requests, Ground
  <2>4. \A c : /\ Atomic!Settled(q, Atomic!Response(q, c))
                    = Atomic!Settled(a, Atomic!Response(a, c))
               /\ Atomic!Settled(q, Atomic!Listed) = Atomic!Settled(a, Atomic!Listed)
               /\ Atomic!After(q, c) = Atomic!After(a, c)
    BY <2>2 DEF Atomic!Settled, Atomic!Response, Atomic!After
  <2>5. Seen[t].phase = "idle"
    BY <1>1 DEF Atomic!Arrive, Seen
  <2> HIDE DEF q
  <2>6. CASE Seen' = [Seen EXCEPT ![t] = Atomic!Pending(a)] /\ UNCHANGED Primary
    BY <2>2, <2>3, <2>5, <2>6 DEF Moves, q
  <2>7. CASE Atomic!TakeEffect(t, a)
    <3>1. CASE a.op # "list"
      <4>1. /\ Seen' = [Seen EXCEPT ![t] = Atomic!Settled(q, Atomic!Response(q, Primary[a.id]))]
            /\ Primary' = [Primary EXCEPT ![a.id] = Atomic!After(q, Primary[a.id])]
        BY <2>4, <2>7, <3>1 DEF Atomic!TakeEffect, Seen
      <4> QED
        BY <2>2, <2>3, <2>5, <3>1, <4>1 DEF Moves
    <3>2. CASE a.op = "list"
      <4>1. /\ Seen' = [Seen EXCEPT ![t] = Atomic!Settled(q, Atomic!Listed)]
            /\ UNCHANGED Primary
        BY <2>4, <2>7, <3>2 DEF Atomic!TakeEffect, Seen
      <4> QED
        BY <2>2, <2>3, <2>5, <3>2, <4>1 DEF Moves
    <3> QED
      BY <3>1, <3>2
  <2> QED
    BY <2>1, <2>6, <2>7
<1>2. ASSUME NEW t \in Tasks, Atomic!Perform(t)
      PROVE  Moves(t)
  <2> DEFINE q == Seen[t]
  <2>1. q.phase = "pending" /\ Atomic!TakeEffect(t, q)
    BY <1>2 DEF Atomic!Perform, Seen
  <2>2. IF q.op = "list" THEN q.id \notin Ids ELSE q.id \in Ids
    BY <2>1, SeenIs DEF Ground, TInv, Shape
  <2>3. Primary' = [Primary EXCEPT ![q.id] = Atomic!After(q, @)] =>
          Primary' = [Primary EXCEPT ![q.id] = Atomic!After(q, Primary[q.id])]
    OBVIOUS
  <2> HIDE DEF q
  <2> QED
    BY <2>1, <2>2 DEF Moves, Atomic!TakeEffect, Seen, q
<1> QED
  BY <1>1, <1>2 DEF Atomic!Next, Atomic!Crash, Atomic!Return, Atomic!vars, Seen

(* Which of these a step of the program is shows in the requests.          *)
LEMMA Idles ==
  ASSUME Ground, [Atomic!Next]_(Atomic!vars),
         \A u \in Tasks : Seen'[u] \in {Seen[u], Atomic!Idle}
  PROVE  UNCHANGED Primary
<1>1. ASSUME NEW t \in Tasks, Moves(t)
      PROVE  UNCHANGED Primary
  <2>1. Seen'[t].phase # "settled" \/ Seen'[t] = Seen[t]
    BY DEF Atomic!Idle
  <2>2. \A r, res : Atomic!Settled(r, res).phase = "settled"
    BY DEF Atomic!Settled
  <2>3. \A a : Seen' = [Seen EXCEPT ![t] = a] => Seen'[t] = a
    BY DEF Seen
  <2> QED
    BY <1>1, <2>1, <2>2, <2>3 DEF Moves
<1> QED
  BY <1>1, AtomicSteps

LEMMA Narrow ==
  ASSUME Ground, [Atomic!Next]_(Atomic!vars), NEW t \in Tasks, Seen'[t].phase # "idle",
         \A u \in Tasks \ {t} : Seen'[u] = Seen[u]
  PROVE  UNCHANGED <<Primary, Seen>> \/ Moves(t)
<1>1. \A u \in Tasks : \A a : Seen' = [Seen EXCEPT ![u] = a] => Seen'[u] = a
  BY DEF Seen
<1>2. \A u \in Tasks : \A a : a = Seen[u] => [Seen EXCEPT ![u] = a] = Seen
  BY DEF Seen
<1>3. Atomic!Idle.phase = "idle" /\ \A r, res : Atomic!Settled(r, res).phase = "settled"
  BY DEF Atomic!Settled, Atomic!Idle
<1>4. ASSUME NEW u \in Tasks \ {t}, Moves(u)
      PROVE  UNCHANGED <<Primary, Seen>>
  BY <1>1, <1>2, <1>3, <1>4 DEF Moves
<1>5. ASSUME NEW u \in Tasks, Seen' = [Seen EXCEPT ![u] = Atomic!Idle], UNCHANGED Primary
      PROVE  UNCHANGED <<Primary, Seen>>
  BY <1>1, <1>2, <1>3, <1>5
<1>6. Seen' # [u \in Tasks |-> Atomic!Idle]
  BY <1>3
<1> QED
  BY <1>4, <1>5, <1>6, AtomicSteps

LEMMA MovesBuried ==
  ASSUME Ground, TInv', Apart', Buried, NEW t \in Tasks, Moves(t),
         \A u \in Tasks \ {t} : task'[u] = task[u] /\ Seen'[u] = Seen[u],
         \A i \in Ids : task'[t].before[i] = "dead" => seen[i] = "dead",
         \A i \in Ids : /\ i # task'[t].id => seen'[i] = seen[i]
                        /\ seen'[i] = "dead" <=> seen[i] = "dead",
         task'[t].op = "create" => seen'[task'[t].id] = "new"
  PROVE  Buried'
<1> DEFINE m == task'[t]
<1>1. PICK q :
        /\ q.phase = "pending" /\ IF q.op = "list" THEN q.id \notin Ids ELSE q.id \in Ids
        /\ \/ Seen' = [Seen EXCEPT ![t] = q] /\ UNCHANGED Primary
           \/ /\ q.op # "list"
              /\ Seen' = [Seen EXCEPT ![t] =
                            Atomic!Settled(q, Atomic!Response(q, Primary[q.id]))]
              /\ Primary' = [Primary EXCEPT ![q.id] = Atomic!After(q, Primary[q.id])]
           \/ /\ q.op = "list" /\ UNCHANGED Primary
              /\ Seen' = [Seen EXCEPT ![t] = Atomic!Settled(q, Atomic!Listed)]
  BY DEF Moves
<1>2. \A a : Seen' = [Seen EXCEPT ![t] = a] => Seen'[t] = a
  BY DEF Seen
<1>3. m.op = q.op /\ m.id = q.id
  <2>1. \A res : /\ Atomic!Settled(q, res).op = q.op
                 /\ Atomic!Settled(q, res).id = q.id
    BY DEF Atomic!Settled
  <2> QED
    BY <1>1, <1>2, <2>1, SeenIs
<1>4. Primary \in [Ids -> Maybe(Context)]
  BY PrimaryTyped DEF Ground
<1>5. /\ \A i \in Ids : seen'[i] = "dead" => Primary[i] = Absent
      /\ \A i \in Ids : m.before[i] = "dead" => seen'[i] = "dead"
      /\ q.op = "create" => seen'[q.id] = "new"
  BY <1>3 DEF Buried
<1> HIDE DEF m
<1>6. /\ Past(Seen'[t], m.before, Primary', seen')
      /\ \A i \in Ids : seen'[i] = "dead" => Primary'[i] = Absent
      /\ \A i \in Ids \ {q.id} : Primary'[i] = Primary[i]
  <2>1. CASE Seen' = [Seen EXCEPT ![t] = q] /\ UNCHANGED Primary
    <3>1. Past(q, m.before, Primary, seen')
      BY <1>1, <1>5 DEF Past
    <3> QED
      BY <1>2, <1>5, <2>1, <3>1
  <2>2. CASE /\ q.op # "list"
             /\ Seen' = [Seen EXCEPT ![t] =
                           Atomic!Settled(q, Atomic!Response(q, Primary[q.id]))]
             /\ Primary' = [Primary EXCEPT ![q.id] = Atomic!After(q, Primary[q.id])]
    <3>1. Acts(q, Seen'[t], Primary, Primary')
      BY <1>1, <1>2, <1>4, <2>2 DEF Acts
    <3>2. /\ Past(Seen'[t], m.before, Primary', seen')
          /\ \A i \in Ids : seen'[i] = "dead" => Primary'[i] = Absent
      BY <1>5, <3>1, PastEffect
    <3> QED
      BY <1>4, <2>2, <3>2
  <2>3. CASE /\ q.op = "list" /\ UNCHANGED Primary
             /\ Seen' = [Seen EXCEPT ![t] = Atomic!Settled(q, Atomic!Listed)]
    <3>1. Past(Seen'[t], m.before, Primary, seen')
      BY <1>1, <1>2, <1>5, <2>3, PastListing
    <3> QED
      BY <1>5, <2>3, <3>1
  <2> QED
    BY <1>1, <2>1, <2>2, <2>3
<1>7. ASSUME NEW u \in Tasks \ {t}
      PROVE  Past(Seen[u], task[u].before, Primary', seen')
  <2>1. Past(Seen[u], task[u].before, Primary, seen)
    BY DEF Buried
  <2>2. /\ Seen[u].op = task[u].op /\ Seen[u].id = task[u].id
        /\ Seen[u].phase # "idle" => task[u].pc # "idle"
    BY SeenIs
  <2>3. task[u].pc # "idle" /\ task[u].op # "list" => task[u].id \in Ids \ {q.id}
    BY <1>3 DEF Ground, TInv, Shape, Apart, m
  <2>4. \A i \in Ids \ {q.id} : seen'[i] = seen[i] /\ Primary'[i] = Primary[i]
    BY <1>3, <1>6 DEF m
  <2> QED
    BY <2>1, <2>2, <2>3, <2>4 DEF Past
<1> QED
  BY <1>6, <1>7 DEF Buried, m

(* Requests that end, and requests that stay as they are.                  *)
Creates(r) == r.pc # "idle" /\ r.op = "create"

LEMMA EndsBuried ==
  ASSUME Ground, [Atomic!Next]_(Atomic!vars), Buried,
         \A u \in Tasks :
           \/ task'[u] = Idle
           \/ /\ task'[u] = task[u] /\ Seen'[u] = Seen[u]
              /\ Creates(task[u]) => seen'[task[u].id] = seen[task[u].id],
         \A i \in Ids : /\ seen[i] = "dead" => seen'[i] = "dead"
                        /\ seen'[i] = "dead" => Primary[i] = Absent
  PROVE  Buried'
<1>1. ASSUME NEW u \in Tasks, task'[u] = Idle
      PROVE  Seen'[u] = Atomic!Idle
  <2>1. Idle.pc = "idle"
    BY DEF Idle
  <2>2. AsRequest(task[u])' = Atomic!Idle
    BY <1>1, <2>1 DEF AsRequest, Idle, Atomic!Idle
  <2> QED
    BY <2>2 DEF Seen
<1>2. UNCHANGED Primary
  BY <1>1, Idles
<1>3. ASSUME NEW u \in Tasks
      PROVE  Past(Seen'[u], task'[u].before, Primary, seen')
  <2>1. CASE task'[u] = Idle
    BY <1>1, <2>1, IdlePast
  <2>2. CASE /\ task'[u] = task[u] /\ Seen'[u] = Seen[u]
             /\ Creates(task[u]) => seen'[task[u].id] = seen[task[u].id]
    <3>1. Past(Seen[u], task[u].before, Primary, seen)
      BY DEF Buried
    <3>2. Past(Seen[u], task[u].before, Primary, seen')
      BY <2>2, <3>1, SeenIs DEF Past, Creates
    <3> QED
      BY <2>2, <3>2
  <2> QED
    BY <2>1, <2>2
<1> QED
  BY <1>2, <1>3 DEF Buried

LEMMA ReplyBuried ==
  ASSUME Ground, [Atomic!Next]_(Atomic!vars), Buried, NEW t \in Tasks, Reply(t)
  PROVE  Buried'
<1> DEFINE r == task[t]
<1>1. /\ r.pc = "done" /\ task' = [task EXCEPT ![t] = Idle] /\ conf' = conf
      /\ seen' = IF r.op = "create" /\ seen[r.id] = "new" THEN [seen EXCEPT ![r.id] = "live"]
                 ELSE IF r.res.kind = "removed" THEN [seen EXCEPT ![r.id] = "dead"]
                 ELSE seen
  BY DEF Reply, At
<1>2. Seen[t].phase = "settled" /\ Seen[t].res = r.res /\ Seen[t].op = r.op /\ Seen[t].id = r.id
  BY <1>1 DEF Seen, AsRequest
<1>3. Past(Seen[t], r.before, Primary, seen)
  BY DEF Buried
<1>4. /\ r.res.kind = "removed" => r.op = "delete" /\ Primary[r.id] = Absent
      /\ r.op = "create" => seen[r.id] = "new"
  BY <1>2, <1>3 DEF Past
<1>5. r.op # "list" => r.id \in Ids
  BY <1>1 DEF Ground, TInv, Shape
<1>6. /\ \A i \in Ids : i # r.id => seen'[i] = seen[i]
      /\ \A i \in Ids : /\ seen[i] = "dead" => seen'[i] = "dead"
                        /\ seen'[i] = "dead" => Primary[i] = Absent
  BY <1>1, <1>4, <1>5 DEF Ground, TInv, TypeOK, Buried
<1>7. ASSUME NEW u \in Tasks, u # t
      PROVE  /\ task'[u] = task[u] /\ Seen'[u] = Seen[u]
             /\ Creates(task[u]) => seen'[task[u].id] = seen[task[u].id]
  <2>1. task'[u] = task[u]
    BY <1>1, <1>7
  <2>2. Seen'[u] = Seen[u]
    BY <1>1, <2>1, SeenIs
  <2>3. Creates(task[u]) => task[u].id \in Ids /\ task[u].id # r.id
    BY <1>7 DEF Creates, Ground, TInv, Shape, Apart
  <2> QED
    BY <1>6, <2>1, <2>2, <2>3
<1>8. task'[t] = Idle
  BY <1>1 DEF Ground, TInv, TypeOK
<1> QED
  BY <1>6, <1>7, <1>8, EndsBuried

LEMMA RestartBuried ==
  ASSUME Ground, [Atomic!Next]_(Atomic!vars), Buried, NEW p \in Procs, Restart(p)
  PROVE  Buried'
<1>1. /\ task' = [t \in Tasks |-> IF task[t].proc = p THEN Idle ELSE task[t]]
      /\ seen' = seen
  BY DEF Restart
<1>2. ASSUME NEW u \in Tasks, task[u].proc # p
      PROVE  task'[u] = task[u] /\ Seen'[u] = Seen[u]
  <2>1. task'[u] = task[u] /\ task[u].pc = "idle"
    BY <1>1, <1>2 DEF Ground, TInv, Shape
  <2> QED
    BY <2>1 DEF Seen, AsRequest
<1>3. \A u \in Tasks : task[u].proc = p => task'[u] = Idle
  BY <1>1
<1> QED
  BY <1>1, <1>2, <1>3, EndsBuried DEF Buried

LEMMA ArriveBuried ==
  ASSUME Ground, TInv', Apart', [Atomic!Next]_(Atomic!vars), Buried,
         NEW p \in Procs, NEW t \in Tasks, Arrive(p, t)
  PROVE  Buried'
<1>1. PICK a : Begins(t, a)
  BY ArriveBegins DEF Ground
<1>2. PICK n : task' = [task EXCEPT ![t] = n] /\ n.pc # "idle" /\ SameAs(n, a)
  BY <1>1 DEF Begins, Continues
<1>3. task'[t] = n
  BY <1>2 DEF Ground, TInv, TypeOK
<1>4. /\ conf' = conf /\ task[t].pc = "idle" /\ n.before = seen
      /\ \A i \in Ids : /\ i # n.id => seen'[i] = seen[i]
                        /\ seen'[i] = "dead" <=> seen[i] = "dead"
      /\ n.op = "create" => seen'[n.id] = "new"
  BY <1>1, <1>2 DEF Begins, SameAs
<1>5. \A u \in Tasks \ {t} : task'[u] = task[u] /\ Seen'[u] = Seen[u]
  BY <1>2, <1>4, SeenIs
<1>6. Seen'[t].phase # "idle" /\ Seen[t].phase = "idle"
  BY <1>2, <1>3, <1>4, SeenIs
<1>7. Moves(t)
  BY <1>5, <1>6, Narrow
<1> QED
  BY <1>3, <1>4, <1>5, <1>7, MovesBuried

LEMMA StepBuried ==
  ASSUME Ground, TInv', Apart', [Atomic!Next]_(Atomic!vars), Buried,
         NEW t \in Tasks, Step(t), ~Reply(t)
  PROVE  Buried'
<1> DEFINE r == task[t]
<1>1. Continues(t, r) /\ r.pc # "idle" /\ conf' = conf /\ seen' = seen
  BY StepContinues DEF Ground
<1>2. PICK n : task' = [task EXCEPT ![t] = n] /\ n.pc # "idle" /\ SameAs(n, r)
  BY <1>1 DEF Continues
<1>3. task'[t] = n /\ n.op = r.op /\ n.id = r.id /\ n.before = r.before
  BY <1>2 DEF Ground, TInv, TypeOK, SameAs
<1>4. \A u \in Tasks \ {t} : task'[u] = task[u] /\ Seen'[u] = Seen[u]
  BY <1>1, <1>2, SeenIs
<1>5. Seen'[t].phase # "idle" /\ Seen[t].phase # "idle"
  BY <1>1, <1>2, <1>3, SeenIs
<1>6. CASE UNCHANGED <<Primary, Seen>>
  <2>1. \A u \in Tasks : task'[u].before = task[u].before
    BY <1>3, <1>4
  <2> QED
    BY <1>1, <1>6, <2>1 DEF Buried
<1>7. CASE Moves(t)
  <2>1. Past(Seen[t], r.before, Primary, seen)
    BY DEF Buried
  <2>2. /\ \A i \in Ids : n.before[i] = "dead" => seen[i] = "dead"
        /\ n.op = "create" => seen'[n.id] = "new"
    BY <1>1, <1>3, <1>5, <2>1, SeenIs DEF Past
  <2> QED
    BY <1>1, <1>3, <1>4, <1>7, <2>2, MovesBuried
<1> QED
  BY <1>4, <1>5, <1>6, <1>7, Narrow

LEMMA NextBuried ==
  ASSUME Ground, TInv', Apart', [Next]_vars, [Atomic!Next]_(Atomic!vars), Buried
  PROVE  Buried'
<1>1. CASE UNCHANGED <<conf, task, seen>>
  <2>1. \A u \in Tasks : task'[u] = task[u] /\ Seen'[u] = Seen[u]
    BY <1>1, SeenIs
  <2> QED
    BY <1>1, <2>1, EndsBuried DEF Buried
<1>2. ASSUME NEW p \in Procs, NEW i \in Ids, Forget(p, i)
      PROVE  UNCHANGED <<conf, task, seen>>
  BY <1>2 DEF Forget
<1> QED
  BY <1>1, <1>2, ArriveBuried, StepBuried, ReplyBuried, RestartBuried DEF Next, vars

LEMMA InitBuried ==
  ASSUME Init, Atomic!Init
  PROVE  Buried
<1>1. /\ \A t \in Tasks : task[t] = Idle
      /\ \A i \in Ids : seen[i] = "free" /\ Primary[i] = Absent
  BY DEF Init, Atomic!Init
<1>2. \A t \in Tasks : Seen[t] = Atomic!Idle
  BY <1>1 DEF Seen, AsRequest, Idle, Atomic!Idle
<1>3. \A t \in Tasks : Past(Seen[t], task[t].before, Primary, seen)
  BY <1>1, <1>2, IdlePast
<1> QED
  BY <1>1, <1>3 DEF Buried

LEMMA BuriedIsGone ==
  ASSUME Buried
  PROVE  DeletedIsGone
<1> SUFFICES ASSUME NEW t \in Tasks, At(t, "done"), NEW i \in Ids, task[t].before[i] = "dead"
             PROVE  ~Shows(task[t], i)
  BY DEF DeletedIsGone
<1>1. Past(Seen[t], task[t].before, Primary, seen)
  BY DEF Buried
<1>2. /\ Seen[t].phase = "settled" /\ Seen[t].id = task[t].id
      /\ Seen[t].res = task[t].res
  BY DEF Seen, AsRequest, At
<1> QED
  BY <1>1, <1>2 DEF Past, Shows

(* A context whose deletion was confirmed is never shown again to a        *)
(* request that comes later, by a read, an update, a delete or a listing,  *)
(* in either of the settings in which the store is one atomic map.         *)
THEOREM DeletedStaysGone == ASSUME Alone \/ Sturdy PROVE Spec => []DeletedIsGone
<1>1. Buried => DeletedIsGone
  BY BuriedIsGone
<1>2. CASE Alone
  <2>1. AInv => Ground
    BY <1>2 DEF AInv, EInv, Orderly, AllFine, Ground, Alone, Fine
  <2>2. Init => AInv /\ Buried
    BY <1>2, InitRefines, InitBuried
  <2>3. AInv /\ Buried /\ [Next]_vars => AInv' /\ Buried'
    <3>1. AInv' => TInv' /\ Apart'
      BY DEF AInv, EInv, Orderly
    <3> QED
      BY <1>2, <2>1, <3>1, NextRefines, NextBuried
  <2> QED
    BY <1>1, <2>2, <2>3, PTL DEF Spec
<1>3. CASE Sturdy
  <2>1. SInv => Ground
    BY <1>3 DEF SInv, EInv, Steady, AllSound, Ground, Sturdy
  <2>2. Init => SInv /\ Buried
    BY <1>3, InitSteady, InitBuried
  <2>3. SInv /\ Buried /\ [Next]_vars => SInv' /\ Buried'
    <3>1. SInv' => TInv' /\ Apart'
      BY DEF SInv, EInv, Steady
    <3> QED
      BY <1>3, <2>1, <3>1, NextSteady, NextBuried
  <2> QED
    BY <1>1, <2>2, <2>3, PTL DEF Spec
<1> QED
  BY <1>2, <1>3

-----------------------------------------------------------------------------
(* What a request is about to write is what the row becomes: the row is as *)
(* the request read it, and no other request is for that context.          *)
Poised(t) == LET r == task[t]
             IN /\ r.id \in Ids /\ pg \in [Ids -> Maybe(Titled)]
                /\ WritesTitled(r) /\ Intends(r, pg[r.id]) /\ r.row = pg[r.id]
                /\ \A u \in Tasks : u # t => task[u].id # r.id

LEMMA PoisedAlone ==
  ASSUME AInv, Alone, NEW t \in Tasks, At(t, "pgWrite")
  PROVE  Poised(t)
<1> DEFINE r == task[t]
<1>1. r.pc = "pgWrite" /\ pg \in [Ids -> Maybe(Titled)]
  BY DEF At, AInv, EInv
<1>2. /\ r.id \in Ids /\ r.row = pg[r.id] /\ Intends(r, pg[r.id])
      /\ \A u \in Tasks : u # t => task[u].id # r.id
  BY <1>1, Busy DEF Fine, Same
<1>3. WritesTitled(r)
  BY <1>1, WaitingTitled DEF AInv
<1> QED
  BY <1>1, <1>2, <1>3 DEF Poised

LEMMA PoisedSturdy ==
  ASSUME SInv, Sturdy, NEW t \in Tasks, At(t, "pgWrite")
  PROVE  Poised(t)
<1> DEFINE r == task[t]
<1>1. r.pc = "pgWrite" /\ r.op # "list" /\ pg \in [Ids -> Maybe(Titled)]
  BY DEF At, SInv, EInv, Steady, AllSound
<1>2. /\ r.id \in Ids /\ r.row = pg[r.id] /\ Intends(r, pg[r.id])
      /\ \A u \in Tasks : u # t => task[u].id # r.id
  BY <1>1, Occupied DEF Sound
<1>3. WritesTitled(r)
  BY <1>1, WaitingTitled DEF SInv
<1> QED
  BY <1>1, <1>2, <1>3 DEF Poised

Others(r, was, now) == /\ r.arg.title = Unset => now.title = was.title
                       /\ r.arg.done = Unset => now.done = was.done

LEMMA WritePatches ==
  ASSUME NEW t \in Tasks, Poised(t), PgWrite(t), task[t].op = "update", pg[task[t].id] # Absent
  PROVE  Others(task[t], pg[task[t].id], pg'[task[t].id])
<1> DEFINE r == task[t]
           g == pg[r.id]
<1>1. g \in Titled /\ WritesTitled(r)
  BY DEF Poised, Maybe
<1>2. pg'[r.id] = Merged(g, g, r.ctx)
  BY DEF PgWrite, Poised
<1>3. Merged(g, g, r.ctx) = r.ctx /\ r.ctx = Patched(g, r.arg)
  BY <1>1, MergedSame DEF Intends, WritesTitled, Poised
<1>4. Others(r, g, Patched(g, r.arg))
  BY DEF Others, Patched
<1> QED
  BY <1>2, <1>3, <1>4

LEMMA RowsAside ==
  ASSUME NEW t \in Tasks, Poised(t), [Next]_vars
  PROVE  PgWrite(t) \/ pg'[task[t].id] = pg[task[t].id]
<1>1. ASSUME NEW p \in Procs, NEW u \in Tasks, Arrive(p, u)
      PROVE  UNCHANGED pg
  BY <1>1 DEF Arrive, Create, Get, Update, Delete, List, Stores
<1>2. ASSUME NEW u \in Tasks, Step(u), ~PgWrite(u)
      PROVE  UNCHANGED pg
  BY <1>2
  DEF Step, PgRead, PgReadFails, RdRead, RdReadFails, Resume, PgSelect, PgSelectFails,
      PgWriteFails, RdWrite, RdWriteFails, Finish, PgList, PgListFails, RdKeys, RdKeysFails,
      RdScan, RdScanned, Reply, Stores
<1>3. ASSUME NEW u \in Tasks, PgWrite(u), u # t
      PROVE  pg'[task[t].id] = pg[task[t].id]
  BY <1>3 DEF PgWrite, Poised
<1> QED
  BY <1>1, <1>2, <1>3 DEF Next, Forget, Restart, Stores, vars

(* The commit of a PUT changes in PostgreSQL the fields its body has, and  *)
(* no other.                                                               *)
OnlyPassedFields ==
  [][\A t \in Tasks :
       LET r == task[t]
           was == pg[r.id]
           now == pg'[r.id]
       IN At(t, "pgWrite") /\ task'[t] # r /\ r.op = "update" /\ was # Absent =>
            /\ r.arg.title = Unset => now.title = was.title
            /\ r.arg.done = Unset => now.done = was.done]_vars

(* Where the store is one atomic map, an update changes in PostgreSQL the  *)
(* fields its body has, and no other.                                      *)
THEOREM PatchesOnlyPassed == ASSUME Alone \/ Sturdy PROVE Spec => OnlyPassedFields
<1> DEFINE Poise == \A t \in Tasks : At(t, "pgWrite") => Poised(t)
<1>1. Poise /\ [Next]_vars =>
        [\A t \in Tasks :
           LET r == task[t]
               was == pg[r.id]
               now == pg'[r.id]
           IN At(t, "pgWrite") /\ task'[t] # r /\ r.op = "update" /\ was # Absent =>
                /\ r.arg.title = Unset => now.title = was.title
                /\ r.arg.done = Unset => now.done = was.done]_vars
  BY WritePatches, RowsAside DEF Others
<1>2. Spec => []Poise
  <2>1. CASE Alone
    <3>1. AInv => Poise
      BY <2>1, PoisedAlone
    <3> QED
      BY <2>1, <3>1, AtomicInvariant, PTL
  <2>2. CASE Sturdy
    <3>1. SInv => Poise
      BY <2>2, PoisedSturdy
    <3>2. Init => SInv
      BY <2>2, InitSteady
    <3>3. SInv /\ [Next]_vars => SInv'
      BY <2>2, NextSteady
    <3> QED
      BY <3>1, <3>2, <3>3, PTL DEF Spec
  <2> QED
    BY <2>1, <2>2
<1> QED
  BY <1>1, <1>2, PTL DEF Spec, OnlyPassedFields
-----------------------------------------------------------------------------
(* Deletion and the caches, where any number of processes serve            *)
(* overlapping requests.  The row of a context that nobody updates is gone *)
(* for good once its deletion was confirmed: a create that has yet to write *)
(* it is known to nobody, so there is nobody who could have deleted it.    *)
Nowhere(i) == pg[i] = Absent /\ redis[i] = Absent /\ \A p \in Procs : memory[p][i] = Absent
Creator(r, i) == r.pc # "idle" /\ r.op = "create" /\ r.id = i
Deleted(r, i) == /\ r.op = "delete" /\ r.id = i
                 /\ \/ r.pc \in {"rdWrite", "memory"}
                    \/ r.pc = "done" /\ r.res.kind = "removed"

(* One request, the row of i being g, and i nowhere if none is true; s is  *)
(* what the clients know of i.                                             *)
Clear(r, i, g, none, s) ==
  /\ Creator(r, i) /\ r.pc \in {"pgSelect", "pgWrite"} => s = "new" /\ none
  /\ Deleted(r, i) => g = Absent
  /\ r.before[i] = "dead" => s = "dead"
  /\ r.before[i] = "dead" /\ r.pc = "got" /\ r.id = i => r.row = Absent

WInv(i) == /\ seen[i] = "dead" => pg[i] = Absent
           /\ seen[i] = "free" => Nowhere(i)
           /\ \A t, u \in Tasks : Creator(task[t], i) /\ Creator(task[u], i) => t = u
           /\ \A t \in Tasks : Clear(task[t], i, pg[i], Nowhere(i), seen[i])

Unaltered(i) == \A t \in Tasks : task[t].id = i => task[t].op # "update"

(* What may happen to i when request t makes a step.                       *)
Tends(t, i) ==
  /\ seen[i] = "dead" => seen'[i] = "dead"
  /\ seen'[i] = "dead" => pg'[i] = Absent
  /\ seen'[i] = "free" => Nowhere(i)'
  /\ pg[i] = Absent /\ pg'[i] # Absent => seen[i] = "new"
  /\ seen[i] = "new" /\ Nowhere(i) => (seen'[i] = "new" /\ Nowhere(i)') \/ Creator(task[t], i)

LEMMA OneClear ==
  ASSUME NEW i \in Ids, DInv, WInv(i), NEW t \in Tasks, NEW n, task' = [task EXCEPT ![t] = n],
         Tends(t, i), Clear(n, i, pg'[i], Nowhere(i)', seen'[i]),
         Creator(n, i) => Creator(task[t], i) \/ seen[i] = "free"
  PROVE  WInv(i)'
<1>1. task'[t] = n /\ \A u \in Tasks \ {t} : task'[u] = task[u]
  BY DEF DInv, TInv, TypeOK
<1>2. ASSUME NEW u \in Tasks \ {t}
      PROVE  /\ Clear(task[u], i, pg'[i], Nowhere(i)', seen'[i])
             /\ ~(Creator(task[u], i) /\ Creator(n, i))
  <2> DEFINE r == task[u]
  <2>1. /\ Clear(r, i, pg[i], Nowhere(i), seen[i]) /\ Safe(r, pg, seen)
        /\ Creator(r, i) => ~Creator(task[t], i) /\ seen[i] # "free"
    BY DEF WInv, DInv, Safe, Creating, Creator
  <2>2. Deleted(r, i) => seen[i] \in {"dying", "dead"}
    BY <2>1 DEF Deleted, Safe, Deleting
  <2>3. /\ Clear(r, i, pg'[i], Nowhere(i)', seen'[i])
        /\ ~(Creator(r, i) /\ Creator(n, i))
    <3> HIDE DEF r
    <3> QED
      BY <2>1, <2>2 DEF Clear, Tends
  <2> QED
    BY <2>3
<1>3. \A u \in Tasks : Clear(task'[u], i, pg'[i], Nowhere(i)', seen'[i])
  BY <1>1, <1>2
<1>4. \A u, v \in Tasks : Creator(task'[u], i) /\ Creator(task'[v], i) => u = v
  BY <1>1, <1>2 DEF WInv
<1> QED
  BY <1>3, <1>4 DEF WInv, Tends

-----------------------------------------------------------------------------
(* What a request that reads becomes, as long as its process has           *)
(* PostgreSQL, and what it does to the caches.                             *)
Turns(t, r) == \E n : /\ task' = [task EXCEPT ![t] = n] /\ SameAs(n, r)
                      /\ n.pc \in {"pgRead", "pgSelect", "done"}
                      /\ n.pc = "done" => n.res.kind # "removed"

Refills(p, i) == cache[p][i] = Absent /\ cache'[p][i] # Absent

LEMMA AnswerTurns ==
  ASSUME NEW t \in Tasks, NEW r, NEW kind, kind # "removed", NEW body, Answer(t, r, kind, body)
  PROVE  Turns(t, r)
<1> DEFINE n == [Idle EXCEPT !.pc = "done", !.proc = r.proc, !.op = r.op, !.id = r.id,
                             !.before = r.before, !.res = [kind |-> kind, body |-> body]]
<1>1. n.pc = "done" /\ SameAs(n, r) /\ n.res.kind = kind
  BY DEF Idle, SameAs
<1>2. task' = [task EXCEPT ![t] = n]
  BY DEF Answer
<1> HIDE DEF n
<1> QED
  BY <1>1, <1>2 DEF Turns

LEMMA GoToTurns ==
  ASSUME NEW t \in Tasks, NEW r, Named(r), NEW pc \in {"pgRead", "pgSelect"}, GoTo(t, r, pc)
  PROVE  Turns(t, r)
<1> DEFINE n == [r EXCEPT !.pc = pc]
<1>1. n.pc = pc /\ SameAs(n, r)
  BY DEF Named, SameAs
<1>2. task' = [task EXCEPT ![t] = n]
  BY DEF GoTo
<1> HIDE DEF n
<1> QED
  BY <1>1, <1>2 DEF Turns

LEMMA ProceedTurns ==
  ASSUME TInv, NEW t \in Tasks, NEW r, Named(r), "pg" \in conf[r.proc], NEW c, NEW fill,
         Proceed(t, r, c, fill)
  PROVE  /\ Turns(t, r) /\ UNCHANGED memory
         /\ \A p \in Procs, i \in Ids : Refills(p, i) => i = r.id /\ p = r.proc
                                                         /\ (r.op = "update" \/ fill)
<1>1. ASSUME NEW n, Named(n), SameAs(n, r), n.proc = r.proc, Write(t, n)
      PROVE  Turns(t, r) /\ UNCHANGED memory
  <2>1. GoTo(t, n, "pgSelect") /\ UNCHANGED memory
    BY <1>1 DEF Write
  <2> QED
    BY <1>1, <2>1, GoToTurns DEF Turns, SameAs
<1>2. ASSUME NEW x, Remember(r, x)
      PROVE  \A p \in Procs, i \in Ids : /\ Refills(p, i) => i = r.id /\ p = r.proc
                                         /\ x = Absent => ~Refills(p, i)
  BY <1>2 DEF Remember, Refills, TInv, TypeOK
<1>3. CASE /\ r.op = "get" /\ Answer(t, r, "found", c) /\ UNCHANGED memory
           /\ IF fill THEN Remember(r, c) ELSE UNCHANGED cache
  <2>1. Turns(t, r)
    BY <1>3, AnswerTurns
  <2> QED
    BY <1>2, <1>3, <2>1 DEF Refills
<1>4. CASE /\ r.op = "update" /\ Remember(r, Patched(c, r.arg))
           /\ Write(t, [r EXCEPT !.ctx = Patched(c, r.arg)])
  <2> DEFINE n == [r EXCEPT !.ctx = Patched(c, r.arg)]
  <2>1. Named(n) /\ SameAs(n, r) /\ n.proc = r.proc
    BY DEF Named, SameAs
  <2> HIDE DEF n
  <2>2. Turns(t, r) /\ UNCHANGED memory
    BY <1>1, <1>4, <2>1 DEF n
  <2> QED
    BY <1>2, <1>4, <2>2
<1>5. CASE r.op = "delete" /\ Remember(r, Absent) /\ Write(t, r)
  <2>1. Turns(t, r) /\ UNCHANGED memory
    BY <1>1, <1>5 DEF SameAs
  <2> QED
    BY <1>2, <1>5, <2>1
<1> QED
  BY <1>3, <1>4, <1>5 DEF Proceed

LEMMA ReadTurns ==
  ASSUME TInv, NEW t \in Tasks, NEW r, Named(r), "pg" \in conf[r.proc], Read(t, r)
  PROVE  Turns(t, r) /\ UNCHANGED memory /\ \A p \in Procs, i \in Ids : ~Refills(p, i)
<1> DEFINE c == cache[r.proc][r.id]
<1>1. CASE c # Absent /\ Proceed(t, r, c, FALSE)
  <2>1. \A p \in Procs, i \in Ids : Refills(p, i) => i = r.id /\ p = r.proc
    BY <1>1, ProceedTurns
  <2> QED
    BY <1>1, <2>1, ProceedTurns DEF Refills
<1>2. CASE Stop(t, r, "error")
  BY <1>2, AnswerTurns DEF Stop, Refills
<1>3. CASE GoTo(t, r, "pgRead") /\ UNCHANGED <<cache, memory>>
  BY <1>3, GoToTurns DEF Refills
<1> QED
  BY <1>1, <1>2, <1>3 DEF Read
(* The rows and dicts stay, and so does what the clients know of i, or     *)
(* somebody asks to delete it who has seen it.                             *)
LEMMA StaysTends ==
  ASSUME NEW i \in Ids, WInv(i), NEW t \in Tasks, UNCHANGED <<pg, redis, memory>>,
         \/ seen'[i] = seen[i]
         \/ seen[i] \in {"new", "live"} /\ seen'[i] = "dying" /\ (seen[i] = "new" => ~Nowhere(i))
  PROVE  Tends(t, i)
<1>1. Nowhere(i)' = Nowhere(i)
  BY DEF Nowhere
<1> QED
  BY <1>1 DEF Tends, WInv

LEMMA RequestClear ==
  ASSUME NEW i \in Ids, DInv, WInv(i), Unaltered(i)', NEW p \in Procs, NEW t \in Tasks,
         NEW op \in {"get", "update", "delete"}, NEW j \in Ids, NEW u,
         Read(t, New(p, op, j, u)), Known(j), UNCHANGED <<pg, redis, conf>>,
         \/ seen' = seen
         \/ seen' = [seen EXCEPT ![j] = IF @ \in {"new", "live"} THEN "dying" ELSE @]
  PROVE  WInv(i)' /\ \A q \in Procs : ~Refills(q, i)
<1> DEFINE r == New(p, op, j, u)
<1>1. Named(r) /\ r.op = op /\ r.id = j /\ r.before = seen /\ "pg" \in conf[r.proc] /\ Read(t, r)
  BY DEF New, Idle, Named, DInv
<1> HIDE DEF r
<1>2. Turns(t, r) /\ UNCHANGED memory /\ \A q \in Procs : ~Refills(q, i)
  BY <1>1, ReadTurns DEF DInv
<1>3. PICK n : /\ task' = [task EXCEPT ![t] = n] /\ SameAs(n, r)
               /\ n.pc \in {"pgRead", "pgSelect", "done"}
               /\ n.pc = "done" => n.res.kind # "removed"
  BY <1>2 DEF Turns
<1>4. \/ seen'[i] = seen[i]
      \/ seen[i] \in {"new", "live"} /\ seen'[i] = "dying" /\ (seen[i] = "new" => ~Nowhere(i))
  BY DEF DInv, TInv, TypeOK, Known, Nowhere
<1>5. Tends(t, i)
  BY <1>2, <1>4, StaysTends
<1>6. Clear(n, i, pg'[i], Nowhere(i)', seen'[i]) /\ ~Creator(n, i)
  BY <1>1, <1>3, <1>4 DEF Clear, Creator, Deleted, SameAs
<1> QED
  BY <1>2, <1>3, <1>5, <1>6, OneClear

LEMMA CreateClear ==
  ASSUME NEW i \in Ids, DInv, WInv(i), NEW p \in Procs, NEW t \in Tasks,
         NEW j \in Ids, NEW title \in Titles, Create(p, t, j, title)
  PROVE  WInv(i)' /\ \A q \in Procs : seen[i] = "dead" => ~Refills(q, i)
<1> DEFINE c == [title |-> title, done |-> FALSE]
           r == [New(p, "create", j, Absent) EXCEPT !.ctx = c]
           n == [r EXCEPT !.pc = "pgSelect"]
<1>1. /\ r.proc = p /\ r.id = j /\ n.pc = "pgSelect" /\ n.op = "create" /\ n.id = j
      /\ n.before = seen
  BY DEF New, Idle
<1>2. /\ seen[j] = "free" /\ seen' = [seen EXCEPT ![j] = "new"]
      /\ Remember(r, c) /\ Write(t, r) /\ UNCHANGED <<pg, redis>>
  BY DEF Create
<1>3. task' = [task EXCEPT ![t] = n] /\ UNCHANGED memory
  BY <1>1, <1>2 DEF Write, GoTo, DInv
<1> HIDE DEF c, r, n
<1>4. \A q \in Procs : seen[i] = "dead" => ~Refills(q, i)
  BY <1>1, <1>2 DEF Remember, Refills, DInv, TInv, TypeOK
<1>5. seen'[i] = IF i = j THEN "new" ELSE seen[i]
  BY <1>2 DEF DInv, TInv, TypeOK
<1>6. Nowhere(i)' = Nowhere(i) /\ pg'[i] = pg[i]
  BY <1>2, <1>3 DEF Nowhere
<1>7. Tends(t, i)
  BY <1>2, <1>5, <1>6 DEF Tends, WInv
<1>8. Clear(n, i, pg'[i], Nowhere(i)', seen'[i]) /\ (Creator(n, i) => seen[i] = "free")
  BY <1>1, <1>2, <1>5, <1>6 DEF Clear, Creator, Deleted, WInv
<1> QED
  BY <1>3, <1>4, <1>7, <1>8, OneClear

LEMMA ArriveClear ==
  ASSUME NEW i \in Ids, DInv, WInv(i), Unaltered(i)',
         NEW p \in Procs, NEW t \in Tasks, Arrive(p, t)
  PROVE  WInv(i)' /\ \A q \in Procs : seen[i] = "dead" => ~Refills(q, i)
<1>1. ASSUME NEW j \in Ids, NEW title \in Titles, Create(p, t, j, title)
      PROVE  WInv(i)' /\ \A q \in Procs : seen[i] = "dead" => ~Refills(q, i)
  BY <1>1, CreateClear
<1>2. ASSUME NEW j \in Ids, Get(p, t, j) \/ Delete(p, t, j) \/ \E u \in Patches : Update(p, t, j, u)
      PROVE  WInv(i)' /\ \A q \in Procs : seen[i] = "dead" => ~Refills(q, i)
  BY <1>2, RequestClear DEF Get, Update, Delete
<1>3. CASE List(p, t)
  <2> DEFINE r == New(p, "list", Absent, Absent)
             n == [r EXCEPT !.pc = "pgList"]
  <2>1. n.pc = "pgList" /\ n.op = "list" /\ n.before = seen
    BY DEF New, Idle
  <2>2. task' = [task EXCEPT ![t] = n] /\ UNCHANGED <<cache, memory, pg, redis, seen>>
    BY <1>3 DEF List, GoTo, DInv
  <2> HIDE DEF n
  <2>3. Clear(n, i, pg'[i], Nowhere(i)', seen'[i]) /\ ~Creator(n, i)
    BY <2>1, <2>2 DEF Clear, Creator, Deleted
  <2> QED
    BY <2>2, <2>3, StaysTends, OneClear DEF Refills
<1> QED
  BY <1>1, <1>2, <1>3 DEF Arrive
-----------------------------------------------------------------------------
(* The steps of a request that waited for a backend.                       *)
Shifts(t, pcs) == \E n : /\ task' = [task EXCEPT ![t] = n] /\ SameAs(n, task[t])
                         /\ n.pc \in pcs

LEMMA GoToShifts ==
  ASSUME NEW t \in Tasks, NEW r, Named(r), SameAs(r, task[t]), NEW pc, NEW pcs, pc \in pcs,
         GoTo(t, r, pc)
  PROVE  Shifts(t, pcs)
<1> DEFINE n == [r EXCEPT !.pc = pc]
<1>1. n.pc = pc /\ SameAs(n, r)
  BY DEF Named, SameAs
<1>2. task' = [task EXCEPT ![t] = n]
  BY DEF GoTo
<1> HIDE DEF n
<1> QED
  BY <1>1, <1>2 DEF Shifts, SameAs

LEMMA AfterPgShifts ==
  ASSUME NEW t \in Tasks, NEW r, Named(r), SameAs(r, task[t]), AfterPg(t, r)
  PROVE  Shifts(t, {"rdWrite", "memory"})
<1> DEFINE n == [r EXCEPT !.row = Absent]
<1>1. Named(n) /\ SameAs(n, task[t])
  BY DEF Named, SameAs
<1>2. PICK pc \in {"rdWrite", "memory"} : GoTo(t, n, pc)
  BY DEF AfterPg
<1> HIDE DEF n
<1> QED
  BY <1>1, <1>2, GoToShifts

(* A write that leaves i alone, or is made by its creator or a deletion.   *)
LEMMA WriteTends ==
  ASSUME NEW i \in Ids, WInv(i), NEW t \in Tasks, seen'[i] = seen[i],
         \/ /\ pg'[i] = pg[i] /\ redis'[i] = redis[i]
            /\ \A p \in Procs : memory'[p][i] = memory[p][i]
         \/ /\ Creator(task[t], i) /\ seen[i] # "free"
            /\ pg'[i] = pg[i] \/ seen[i] = "new"
         \/ /\ seen[i] \in {"dying", "dead"}
            /\ pg'[i] \in {pg[i], Absent}
  PROVE  Tends(t, i)
<1>1. CASE /\ pg'[i] = pg[i] /\ redis'[i] = redis[i]
           /\ \A p \in Procs : memory'[p][i] = memory[p][i]
  <2>1. Nowhere(i)' = Nowhere(i)
    BY <1>1 DEF Nowhere
  <2> QED
    BY <1>1, <2>1 DEF Tends, WInv
<1>2. CASE /\ Creator(task[t], i) /\ seen[i] # "free"
           /\ pg'[i] = pg[i] \/ seen[i] = "new"
  BY <1>2 DEF Tends, WInv
<1>3. CASE seen[i] \in {"dying", "dead"} /\ pg'[i] \in {pg[i], Absent}
  BY <1>3 DEF Tends, WInv
<1> QED
  BY <1>1, <1>2, <1>3

LEMMA WaitClear ==
  ASSUME NEW i \in Ids, DInv, WInv(i), NEW t \in Tasks, PgRead(t) \/ PgSelect(t) \/ PgList(t)
  PROVE  WInv(i)' /\ \A q \in Procs : ~Refills(q, i)
<1> DEFINE r == task[t]
<1>1. /\ r \in Request /\ Named(r) /\ r.before \in [Ids -> Status]
      /\ Clear(r, i, pg[i], Nowhere(i), seen[i]) /\ Safe(r, pg, seen)
  BY DEF DInv, TInv, TypeOK, Request, Named, WInv
<1>2. UNCHANGED <<cache, memory, pg, redis, seen>>
  BY DEF PgRead, PgSelect, PgList, Stores
<1>3. Tends(t, i)
  BY <1>2, StaysTends
<1>4. Nowhere(i)' = Nowhere(i)
  BY <1>2 DEF Nowhere
<1>5. \E n : /\ task' = [task EXCEPT ![t] = n] /\ Clear(n, i, pg[i], Nowhere(i), seen[i])
             /\ Creator(n, i) => Creator(r, i)
  <2>1. CASE PgRead(t)
    <3> DEFINE n == [r EXCEPT !.row = pg[r.id], !.pc = "got"]
    <3>1. task' = [task EXCEPT ![t] = n]
      BY <1>1, <2>1 DEF PgRead, GoTo, Request
    <3>2. n.pc = "got" /\ n.row = pg[r.id] /\ SameAs(n, r)
      BY <1>1 DEF SameAs, Request
    <3>3. r.pc = "pgRead"
      BY <2>1 DEF PgRead, At
    <3> HIDE DEF n, r
    <3>4. Clear(n, i, pg[i], Nowhere(i), seen[i]) /\ (Creator(n, i) => Creator(r, i))
      BY <1>1, <3>2, <3>3 DEF Clear, Creator, Deleted, SameAs, WInv
    <3> QED
      BY <3>1, <3>4
  <2>2. CASE PgSelect(t)
    <3> DEFINE m == [r EXCEPT !.row = pg[r.id]]
    <3>1. /\ Named(m) /\ SameAs(m, r) /\ m.row = pg[r.id] /\ r.pc = "pgSelect"
          /\ \/ m.op = "delete" /\ m.row = Absent /\ AfterPg(t, m)
             \/ GoTo(t, m, "pgWrite")
      BY <1>1, <2>2 DEF Named, SameAs, Request, PgSelect, At
    <3> HIDE DEF m
    <3>2. CASE GoTo(t, m, "pgWrite")
      <4>1. PICK n : task' = [task EXCEPT ![t] = n] /\ SameAs(n, r) /\ n.pc \in {"pgWrite"}
        BY <3>1, <3>2, GoToShifts DEF Shifts
      <4> HIDE DEF r
      <4>2. Clear(n, i, pg[i], Nowhere(i), seen[i]) /\ (Creator(n, i) => Creator(r, i))
        BY <1>1, <3>1, <4>1 DEF Clear, Creator, Deleted, SameAs
      <4> QED
        BY <4>1, <4>2
    <3>3. CASE m.op = "delete" /\ m.row = Absent /\ AfterPg(t, m)
      <4>1. PICK n : /\ task' = [task EXCEPT ![t] = n] /\ SameAs(n, r)
                     /\ n.pc \in {"rdWrite", "memory"}
        BY <3>1, <3>3, AfterPgShifts DEF Shifts
      <4> HIDE DEF r
      <4>2. Clear(n, i, pg[i], Nowhere(i), seen[i]) /\ (Creator(n, i) => Creator(r, i))
        BY <1>1, <3>1, <3>3, <4>1 DEF Clear, Creator, Deleted, SameAs
      <4> QED
        BY <4>1, <4>2
    <3> QED
      BY <3>1, <3>2, <3>3
  <2>3. CASE PgList(t)
    <3>1. Turns(t, r)
      BY <2>3, AnswerTurns DEF PgList
    <3>2. PICK n : /\ task' = [task EXCEPT ![t] = n] /\ SameAs(n, r)
                   /\ n.pc \in {"pgRead", "pgSelect", "done"}
                   /\ n.pc = "done" => n.res.kind # "removed"
      BY <3>1 DEF Turns
    <3>3. r.pc = "pgList" /\ r.op = "list"
      BY <2>3 DEF PgList, At, DInv, TInv, Shape
    <3> HIDE DEF r
    <3>4. Clear(n, i, pg[i], Nowhere(i), seen[i]) /\ (Creator(n, i) => Creator(r, i))
      BY <1>1, <3>2, <3>3 DEF Clear, Creator, Deleted, SameAs
    <3> QED
      BY <3>2, <3>4
  <2> QED
    BY <2>1, <2>2, <2>3
<1>6. WInv(i)'
  <2>1. PICK n : /\ task' = [task EXCEPT ![t] = n] /\ Clear(n, i, pg[i], Nowhere(i), seen[i])
                 /\ Creator(n, i) => Creator(r, i)
    BY <1>5
  <2> QED
    BY <1>2, <1>3, <1>4, <2>1, OneClear
<1> QED
  BY <1>2, <1>6 DEF Refills

LEMMA ResumeClear ==
  ASSUME NEW i \in Ids, DInv, WInv(i), Unaltered(i), NEW t \in Tasks, Resume(t)
  PROVE  /\ WInv(i)'
         /\ \A q \in Procs : Refills(q, i) => task[t].id = i /\ task[t].before[i] # "dead"
<1> DEFINE r == task[t]
           m == [r EXCEPT !.row = Absent]
<1>1. /\ r \in Request /\ Named(r) /\ r.pc = "got" /\ r.proc \in Procs /\ r.op # "create"
      /\ Clear(r, i, pg[i], Nowhere(i), seen[i]) /\ "pg" \in conf[r.proc]
      /\ r.id = i => r.op # "update"
  BY DEF DInv, TInv, TypeOK, Request, Named, WInv, Resume, At, Shape, Unaltered
<1>2. UNCHANGED <<pg, redis, seen>>
  BY DEF Resume, Stores
<1>3. Named(m) /\ SameAs(m, r) /\ m.proc = r.proc
  BY <1>1 DEF Named, SameAs, Request
<1>4. /\ Turns(t, r) /\ UNCHANGED memory
      /\ \A q \in Procs : Refills(q, i) => r.id = i /\ r.row # Absent
  <2>1. CASE Stop(t, r, "none")
    <3>1. Turns(t, r)
      BY <2>1, AnswerTurns DEF Stop
    <3> QED
      BY <2>1, <3>1 DEF Stop, Refills
  <2>2. CASE r.row # Absent /\ Proceed(t, m, r.row, TRUE)
    <3> HIDE DEF m, r
    <3>1. /\ Turns(t, m) /\ UNCHANGED memory
          /\ \A q \in Procs : Refills(q, i) => i = m.id
      BY <1>1, <1>3, <2>2, ProceedTurns DEF DInv
    <3> QED
      BY <1>3, <2>2, <3>1 DEF Turns, SameAs
  <2> QED
    BY <2>1, <2>2 DEF Resume
<1>5. PICK n : /\ task' = [task EXCEPT ![t] = n] /\ SameAs(n, r)
               /\ n.pc \in {"pgRead", "pgSelect", "done"}
               /\ n.pc = "done" => n.res.kind # "removed"
  BY <1>4 DEF Turns
<1>6. Tends(t, i) /\ Nowhere(i)' = Nowhere(i)
  BY <1>2, <1>4, StaysTends DEF Nowhere
<1> HIDE DEF r
<1>7. Clear(n, i, pg[i], Nowhere(i), seen[i]) /\ ~Creator(n, i)
  BY <1>1, <1>5 DEF Clear, Creator, Deleted, SameAs
<1>8. WInv(i)'
  BY <1>2, <1>5, <1>6, <1>7, OneClear
<1> QED
  BY <1>1, <1>4, <1>8 DEF Clear, r

(* Whether the process goes on from a write to i or to another context.    *)
LEMMA WriteClear ==
  ASSUME NEW i \in Ids, DInv, WInv(i), Unaltered(i), NEW t \in Tasks,
         PgWrite(t) \/ RdWrite(t) \/ RdWriteFails(t) \/ Finish(t)
  PROVE  WInv(i)' /\ \A q \in Procs : ~Refills(q, i)
<1> DEFINE r == task[t]
<1>1. /\ r \in Request /\ Named(r) /\ r.id \in Ids /\ r.op \in {"create", "update", "delete"}
      /\ Clear(r, i, pg[i], Nowhere(i), seen[i]) /\ Safe(r, pg, seen)
      /\ r.pc \in {"pgWrite", "rdWrite", "memory"}
      /\ r.id = i => r.op # "update"
  BY Waiting DEF DInv, TInv, TypeOK, Request, Named, WInv, Unaltered, At, Writing, Serving,
     PgWrite, RdWrite, RdWriteFails, Finish
<1>2. UNCHANGED <<cache, seen>>
  BY DEF PgWrite, RdWrite, RdWriteFails, Finish, Stores
<1>3. /\ \A j \in Ids \ {r.id} : /\ pg'[j] = pg[j] /\ redis'[j] = redis[j]
                                 /\ \A p \in Procs : memory'[p][j] = memory[p][j]
      /\ r.pc # "pgWrite" => pg' = pg
      /\ r.pc = "pgWrite" /\ r.op = "delete" => pg'[r.id] = Absent
  BY <1>1 DEF DInv, TInv, TypeOK, PgWrite, RdWrite, RdWriteFails, Finish, Stores, At,
     Overwritten, Conclude
<1>4. Tends(t, i)
  <2>1. CASE r.id # i
    BY <1>2, <1>3, <2>1, WriteTends
  <2>2. CASE r.id = i /\ r.op = "create"
    <3>1. Creator(r, i) /\ seen[i] # "free" /\ (pg'[i] = pg[i] \/ seen[i] = "new")
      BY <1>1, <1>3, <2>2 DEF Creator, Clear, Safe, Creating
    <3> QED
      BY <1>2, <3>1, WriteTends
  <2>3. CASE r.id = i /\ r.op = "delete"
    <3>1. seen[i] \in {"dying", "dead"} /\ pg'[i] \in {pg[i], Absent}
      BY <1>1, <1>3, <2>3 DEF Safe, Deleting
    <3> QED
      BY <1>2, <3>1, WriteTends
  <2> QED
    BY <1>1, <2>1, <2>2, <2>3
<1>5. \E n : /\ task' = [task EXCEPT ![t] = n] /\ SameAs(n, r)
             /\ n.pc \in {"rdWrite", "memory", "done"}
             /\ n.pc = "done" => r.pc = "memory" /\ (n.res.kind = "removed" => r.op = "delete")
  <2>1. CASE PgWrite(t)
    <3>1. Shifts(t, {"rdWrite", "memory"})
      BY <1>1, <2>1, AfterPgShifts DEF PgWrite, SameAs
    <3> QED
      BY <3>1 DEF Shifts
  <2>2. CASE RdWrite(t)
    <3>1. Shifts(t, {"rdWrite", "memory"})
      BY <1>1, <2>2, GoToShifts DEF RdWrite, SameAs
    <3> QED
      BY <3>1 DEF Shifts
  <2>3. CASE RdWriteFails(t)
    <3> DEFINE m == [r EXCEPT !.tries = @ + 1]
    <3>1. Named(m) /\ SameAs(m, r)
      BY <1>1 DEF Named, SameAs
    <3>2. PICK pc \in {"rdWrite", "memory"} : GoTo(t, m, pc)
      BY <2>3 DEF RdWriteFails
    <3> HIDE DEF m
    <3>3. Shifts(t, {"rdWrite", "memory"})
      BY <3>1, <3>2, GoToShifts
    <3> QED
      BY <3>3 DEF Shifts
  <2>4. CASE Finish(t)
    <3>1. PICK kind, body : Answer(t, r, kind, body) /\ (kind = "removed" => r.op = "delete")
      BY <2>4 DEF Finish, Conclude
    <3> DEFINE n == [Idle EXCEPT !.pc = "done", !.proc = r.proc, !.op = r.op, !.id = r.id,
                                 !.before = r.before, !.res = [kind |-> kind, body |-> body]]
    <3>2. n.pc = "done" /\ SameAs(n, r) /\ n.res.kind = kind
      BY DEF Idle, SameAs
    <3>3. task' = [task EXCEPT ![t] = n] /\ r.pc = "memory"
      BY <2>4, <3>1 DEF Answer, Finish, At
    <3> HIDE DEF n
    <3> QED
      BY <3>1, <3>2, <3>3
  <2> QED
    BY <2>1, <2>2, <2>3, <2>4
<1>6. PICK n : /\ task' = [task EXCEPT ![t] = n] /\ SameAs(n, r)
               /\ n.pc \in {"rdWrite", "memory", "done"}
               /\ n.pc = "done" => r.pc = "memory" /\ (n.res.kind = "removed" => r.op = "delete")
  BY <1>5
<1>7. Creator(n, i) => Creator(r, i)
  BY <1>1, <1>6 DEF Creator, SameAs
<1>8. Clear(n, i, pg'[i], Nowhere(i)', seen'[i])
  <2> HIDE DEF r
  <2>1. Deleted(n, i) => pg'[i] = Absent
    BY <1>1, <1>3, <1>6 DEF Deleted, SameAs, Clear
  <2> QED
    BY <1>1, <1>2, <1>6, <2>1 DEF Clear, SameAs
<1>9. WInv(i)'
  BY <1>4, <1>6, <1>7, <1>8, OneClear
<1> QED
  BY <1>2, <1>9 DEF Refills

LEMMA ReplyClear ==
  ASSUME NEW i \in Ids, DInv, WInv(i), NEW t \in Tasks, Reply(t)
  PROVE  WInv(i)' /\ \A q \in Procs : ~Refills(q, i)
<1> DEFINE r == task[t]
<1>1. /\ r.pc = "done" /\ r.op # "list" => r.id \in Ids
      /\ Clear(r, i, pg[i], Nowhere(i), seen[i]) /\ Safe(r, pg, seen) /\ seen \in [Ids -> Status]
  BY DEF DInv, TInv, TypeOK, WInv, Shape
<1>2. /\ task' = [task EXCEPT ![t] = Idle] /\ UNCHANGED <<cache, memory, pg, redis>>
      /\ r.pc = "done"
      /\ seen' = IF r.op = "create" /\ seen[r.id] = "new" THEN [seen EXCEPT ![r.id] = "live"]
                 ELSE IF r.res.kind = "removed" THEN [seen EXCEPT ![r.id] = "dead"]
                 ELSE seen
  BY DEF Reply, At, Stores
<1>3. Nowhere(i)' = Nowhere(i)
  BY <1>2 DEF Nowhere
<1>4. Tends(t, i)
  <2>1. CASE seen'[i] = seen[i]
    BY <1>2, <2>1, StaysTends
  <2>2. CASE r.op = "create" /\ r.id = i /\ seen[i] = "new" /\ seen'[i] = "live"
    BY <1>2, <2>2 DEF Tends, Creator
  <2>3. CASE r.res.kind = "removed" /\ r.id = i /\ seen'[i] = "dead"
    <3>1. pg[i] = Absent /\ seen[i] \in {"dying", "dead"}
      BY <1>1, <1>2, <2>3 DEF Safe, Deleting, Clear, Deleted
    <3> QED
      BY <1>2, <2>3, <3>1 DEF Tends
  <2> QED
    BY <1>1, <1>2, <2>1, <2>2, <2>3
<1>5. Clear(Idle, i, pg'[i], Nowhere(i)', seen'[i]) /\ ~Creator(Idle, i)
  BY StorageAssumption DEF Clear, Creator, Deleted, Idle
<1>6. WInv(i)'
  BY <1>2, <1>4, <1>5, OneClear
<1> QED
  BY <1>2, <1>6 DEF Refills

LEMMA StepClear ==
  ASSUME PgSure, NEW i \in Ids, DInv, WInv(i), Unaltered(i), NEW t \in Tasks, Step(t)
  PROVE  /\ WInv(i)'
         /\ \A q \in Procs : Refills(q, i) =>
              At(t, "got") /\ task[t].id = i /\ task[t].before[i] # "dead"
<1>1. CASE PgRead(t) \/ PgSelect(t) \/ PgList(t)
  BY <1>1, WaitClear
<1>2. CASE Resume(t)
  BY <1>2, ResumeClear DEF Resume
<1>3. CASE PgWrite(t) \/ RdWrite(t) \/ RdWriteFails(t) \/ Finish(t)
  BY <1>3, WriteClear
<1>4. CASE Reply(t)
  BY <1>4, ReplyClear
<1>5. /\ "pg" \notin Faulty
      /\ ~At(t, "rdRead") /\ ~At(t, "rdKeys") /\ ~At(t, "rdScan")
  BY DEF PgSure, DInv, Safe, At
<1> QED
  BY <1>1, <1>2, <1>3, <1>4, <1>5
  DEF Step, PgReadFails, PgSelectFails, PgWriteFails, PgListFails,
      RdRead, RdReadFails, RdKeys, RdKeysFails, RdScan, RdScanned

LEMMA RestartClear ==
  ASSUME NEW i \in Ids, DInv, WInv(i), NEW p \in Procs, Restart(p)
  PROVE  WInv(i)' /\ \A q \in Procs : ~Refills(q, i)
<1>1. /\ UNCHANGED <<pg, redis, seen>>
      /\ \A q \in Procs : /\ memory'[q][i] \in {memory[q][i], Absent}
                          /\ cache'[q][i] \in {cache[q][i], Absent}
      /\ \A t \in Tasks : task'[t] \in {task[t], Idle}
  BY DEF Restart, Stores, Empty, DInv, TInv, TypeOK
<1>2. Nowhere(i) => Nowhere(i)'
  BY <1>1 DEF Nowhere
<1>3. Clear(Idle, i, pg[i], Nowhere(i)', seen[i]) /\ ~Creator(Idle, i)
  BY StorageAssumption DEF Clear, Creator, Deleted, Idle
<1>4. \A t \in Tasks : Clear(task'[t], i, pg'[i], Nowhere(i)', seen'[i])
  <2> TAKE t \in Tasks
  <2>1. Clear(task[t], i, pg[i], Nowhere(i), seen[i])
    BY DEF WInv
  <2>2. Clear(task[t], i, pg[i], Nowhere(i)', seen[i])
    BY <1>2, <2>1 DEF Clear
  <2> QED
    BY <1>1, <1>3, <2>2
<1>5. \A t, u \in Tasks : Creator(task'[t], i) /\ Creator(task'[u], i) => t = u
  <2>1. \A t \in Tasks : Creator(task'[t], i) => Creator(task[t], i)
    BY <1>1, <1>3
  <2> QED
    BY <2>1 DEF WInv
<1> QED
  BY <1>1, <1>2, <1>4, <1>5 DEF WInv, Refills

(* A step by which a cache comes to hold i, once i is known to be deleted. *)
Refilled(i) == seen[i] = "dead" => \A p \in Procs : Refills(p, i) =>
                 \E t \in Tasks : At(t, "got") /\ task[t].id = i /\ task[t].before[i] # "dead"

LEMMA NextClear ==
  ASSUME NEW i \in Ids
  PROVE  PgSure /\ DInv /\ WInv(i) /\ Unaltered(i) /\ Unaltered(i)' /\ [Next]_vars
           => WInv(i)' /\ Refilled(i)
<1> SUFFICES ASSUME PgSure, DInv, WInv(i), Unaltered(i), Unaltered(i)', [Next]_vars
             PROVE  WInv(i)' /\ Refilled(i)
  OBVIOUS
<1>1. ASSUME NEW p \in Procs, NEW t \in Tasks, Arrive(p, t)
      PROVE  WInv(i)' /\ Refilled(i)
  BY <1>1, ArriveClear DEF Refilled
<1>2. ASSUME NEW t \in Tasks, Step(t)
      PROVE  WInv(i)' /\ Refilled(i)
  BY <1>2, StepClear DEF Refilled
<1>3. ASSUME NEW p \in Procs, NEW j \in Ids, Forget(p, j)
      PROVE  WInv(i)' /\ Refilled(i)
  <2>1. UNCHANGED <<memory, pg, redis, task, seen>>
    BY <1>3 DEF Forget, Stores
  <2>2. \A q \in Procs : ~Refills(q, i)
    BY <1>3 DEF Forget, Refills, DInv, TInv, TypeOK
  <2> QED
    BY <2>1, <2>2 DEF WInv, Nowhere, Refilled
<1>4. ASSUME NEW p \in Procs, Restart(p)
      PROVE  WInv(i)' /\ Refilled(i)
  BY <1>4, RestartClear DEF Refilled
<1>5. CASE UNCHANGED vars
  BY <1>5 DEF vars, WInv, Nowhere, Refilled, Refills
<1> QED
  BY <1>1, <1>2, <1>3, <1>4, <1>5 DEF Next

(* Once the client was told that a context is deleted, a cache that does   *)
(* not hold it comes to hold it only from a request that was under way     *)
(* when the client was told: one that began before and resumes with the    *)
(* row it had read.  Nothing else brings it back, not a fallback, a crash  *)
(* or a Redis write that comes late, however many processes serve it and   *)
(* however requests overlap.  Together with the lifetime of a cache entry  *)
(* and the end of every request (RequestsRunOut), this is why a deletion   *)
(* reaches the caches, which DeletionReachesCaches says under fairness.    *)
(* The premise is the same: nobody updates the context.                    *)
THEOREM DeletedLeavesCaches ==
  ASSUME PgSure, NEW i \in Ids
  PROVE  Spec /\ NeverUpdated(i) => [][Refilled(i)]_vars
<1>1. Init => DInv /\ WInv(i)
  <2>1. Init => WInv(i)
    BY StorageAssumption DEF Init, Idle, Empty, WInv, Nowhere, Clear, Creator, Deleted
  <2> QED
    BY <2>1, InitSafe
<1>2. DInv /\ [Next]_vars => DInv'
  BY NextKeeps
<1>3. DInv /\ WInv(i) /\ Unaltered(i) /\ Unaltered(i)' /\ [Next]_vars => WInv(i)' /\ Refilled(i)
  BY NextClear
<1>4. NeverUpdated(i) <=> []Unaltered(i)
  BY PTL DEF NeverUpdated, Unaltered
<1> QED
  BY <1>1, <1>2, <1>3, <1>4, PTL DEF Spec
=============================================================================
