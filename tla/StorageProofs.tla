---------------------------- MODULE StorageProofs ----------------------------
(* Proofs about the context store, for any processes, requests and ids.    *)
EXTENDS Storage, TLAPS, FiniteSetTheorems

(* What a request carries at each point of its coroutine.                  *)
Shape(r) ==
  /\ r.pc # "idle" => r.proc \in Procs /\ r.op \in AllOps /\ (r.op # "list" => r.id \in Ids)
  /\ r.pc \in {"pgRead", "rdRead", "got"}
       => r.op \in {"get", "update", "delete"} /\ (r.op = "update" => r.arg \in Patches)
  /\ r.pc \in {"pgSelect", "pgWrite", "rdWrite", "memory"}
       => r.op \in {"create", "update", "delete"} /\ (r.op # "delete" => r.ctx \in Context)
  /\ r.pc \in {"pgList", "rdKeys", "rdScan"} => r.op = "list"
  /\ r.pc \in {"pgRead", "rdRead", "got", "pgSelect", "pgWrite", "rdWrite"} => r.tries < Retries
  /\ r.pc = "done" => r.res \in Responses

Good(r) == r \in Request /\ Shape(r)

TInv == TypeOK /\ \A t \in Tasks : Shape(task[t])

(* A request in the making: what its coroutine needs to go on to a write.  *)
Serving(r) == r \in Request /\ r.proc \in Procs /\ r.op \in AllOps /\ r.id \in Ids
Writing(r) == /\ Serving(r)
              /\ r.op \in {"create", "update", "delete"}
              /\ r.op # "delete" => r.ctx \in Context

LEMMA IdleGood == Good(Idle)
  BY StorageAssumption DEF Good, Idle, Request, Shape, Pcs, Maybe, Status

LEMMA AnswerGood ==
  ASSUME TInv, NEW t \in Tasks, NEW r \in Request, NEW kind, NEW body,
         r.proc \in Procs, r.op \in AllOps, r.op # "list" => r.id \in Ids,
         [kind |-> kind, body |-> body] \in Responses, Answer(t, r, kind, body)
  PROVE  task' \in [Tasks -> Request] /\ \A u \in Tasks : Shape(task'[u])
<1> DEFINE done == [Idle EXCEPT !.pc = "done", !.proc = r.proc, !.op = r.op, !.id = r.id,
                                !.before = r.before, !.res = [kind |-> kind, body |-> body]]
<1>1. done \in Request
  BY IdleGood DEF Good, Request, Pcs, Maybe
<1>2. Shape(done)
  BY IdleGood DEF Shape, Good, Request, Idle
<1>3. task' = [task EXCEPT ![t] = done]
  BY DEF Answer
<1> HIDE DEF done
<1> QED
  BY <1>1, <1>2, <1>3 DEF TInv, TypeOK

LEMMA GoToGood ==
  ASSUME TInv, NEW t \in Tasks, NEW r \in Request, NEW pc \in Pcs,
         Shape([r EXCEPT !.pc = pc]), GoTo(t, r, pc)
  PROVE  task' \in [Tasks -> Request] /\ \A u \in Tasks : Shape(task'[u])
<1> DEFINE next == [r EXCEPT !.pc = pc]
<1>1. next \in Request
  BY DEF Request
<1>2. task' = [task EXCEPT ![t] = next]
  BY DEF GoTo
<1> HIDE DEF next
<1> QED
  BY <1>1, <1>2 DEF TInv, TypeOK, next

LEMMA PatchedContext ==
  ASSUME NEW c \in Context, NEW u \in Patches
  PROVE  Patched(c, u) \in Context
<1>1. /\ u.title \in Titles \union {Null, Unset} /\ u.done \in BOOLEAN \union {Unset}
      /\ c.title \in Titles \union {Null} /\ c.done \in BOOLEAN
  BY StorageAssumption DEF Context
<1>2. (IF u.title = Unset THEN c.title ELSE u.title) \in Titles \union {Null}
  BY <1>1
<1>3. (IF u.done = Unset THEN c.done ELSE u.done) \in BOOLEAN
  <2>1. CASE u.done = Unset
    BY <1>1, <2>1
  <2>2. CASE u.done # Unset
    BY <1>1, <2>2
  <2> QED
    BY <2>1, <2>2
<1> QED
  BY <1>2, <1>3 DEF Patched, Context

(* The parts of TypeOK that a piece of coroutine code can disturb.         *)
LocalOK == /\ cache \in [Procs -> [Ids -> Maybe(Context)]]
           /\ memory \in [Procs -> [Ids -> Maybe(Context)]]
           /\ task \in [Tasks -> Request]
           /\ \A u \in Tasks : Shape(task[u])

LEMMA RememberGood ==
  ASSUME TInv, NEW r, r.proc \in Procs, r.id \in Ids, NEW c \in Maybe(Context), Remember(r, c)
  PROVE  cache' \in [Procs -> [Ids -> Maybe(Context)]]
  BY DEF TInv, TypeOK, Remember

LEMMA ConcludeGood ==
  ASSUME TInv, NEW t \in Tasks, NEW r, Writing(r), Conclude(t, r)
  PROVE  /\ memory' \in [Procs -> [Ids -> Maybe(Context)]]
         /\ task' \in [Tasks -> Request] /\ \A u \in Tasks : Shape(task'[u])
<1> DEFINE Post == /\ memory' \in [Procs -> [Ids -> Maybe(Context)]]
                   /\ task' \in [Tasks -> Request] /\ \A u \in Tasks : Shape(task'[u])
<1>0. r \in Request /\ r.proc \in Procs /\ r.op \in AllOps /\ r.id \in Ids
  BY DEF Writing, Serving
<1>1. CASE r.op = "delete"
  <2>1. /\ memory' = [memory EXCEPT ![r.proc][r.id] = Absent]
        /\ Answer(t, r, "removed", Absent)
    BY <1>1 DEF Conclude
  <2>2. memory' \in [Procs -> [Ids -> Maybe(Context)]]
    BY <1>0, <2>1 DEF TInv, TypeOK, Maybe
  <2>3. [kind |-> "removed", body |-> Absent] \in Responses
    BY DEF Responses
  <2> QED
    BY <1>0, <2>1, <2>2, <2>3, AnswerGood
<1>2. CASE r.op # "delete"
  <2>1. /\ memory' = [memory EXCEPT ![r.proc][r.id] = r.ctx]
        /\ Answer(t, r, "found", r.ctx) \/ Answer(t, r, "error", Absent)
    BY <1>2 DEF Conclude
  <2>2. memory' \in [Procs -> [Ids -> Maybe(Context)]]
    BY <1>0, <1>2, <2>1 DEF TInv, TypeOK, Maybe, Writing
  <2>3. /\ [kind |-> "found", body |-> r.ctx] \in Responses
        /\ [kind |-> "error", body |-> Absent] \in Responses
    BY <1>2 DEF Responses, Writing
  <2> QED
    BY <1>0, <2>1, <2>2, <2>3, AnswerGood
<1> QED
  BY <1>1, <1>2

LEMMA WriteGood ==
  ASSUME TInv, NEW t \in Tasks, NEW r, Writing(r), r.tries < Retries, Write(t, r)
  PROVE  /\ memory' \in [Procs -> [Ids -> Maybe(Context)]]
         /\ task' \in [Tasks -> Request] /\ \A u \in Tasks : Shape(task'[u])
<1>1. CASE conf[r.proc] = {}
  BY <1>1, ConcludeGood DEF Write
<1>2. CASE conf[r.proc] # {}
  <2> DEFINE pc == IF "pg" \in conf[r.proc] THEN "pgSelect" ELSE "rdWrite"
  <2>1. GoTo(t, r, pc) /\ UNCHANGED memory
    BY <1>2 DEF Write
  <2>2. pc \in Pcs /\ pc \in {"pgSelect", "rdWrite"}
    BY DEF Pcs
  <2> HIDE DEF pc
  <2>3. Shape([r EXCEPT !.pc = pc])
    BY <2>2 DEF Writing, Serving, Request, Shape
  <2> QED
    BY <2>1, <2>2, <2>3, GoToGood DEF Writing, Serving, TInv, TypeOK
<1> QED
  BY <1>1, <1>2

LEMMA AfterPgGood ==
  ASSUME TInv, NEW t \in Tasks, NEW r, Writing(r), r.tries < Retries, AfterPg(t, r)
  PROVE  task' \in [Tasks -> Request] /\ \A u \in Tasks : Shape(task'[u])
<1> DEFINE pc == IF "redis" \in conf[r.proc] THEN "rdWrite" ELSE "memory"
           next == [r EXCEPT !.row = Absent]
<1>1. GoTo(t, next, pc)
  BY DEF AfterPg
<1>2. pc \in Pcs /\ pc \in {"rdWrite", "memory"} /\ next \in Request
  BY DEF Pcs, Writing, Serving, Request, Maybe
<1>3. Shape([next EXCEPT !.pc = pc])
  <2>1. pc \in {"rdWrite", "memory"}
    BY <1>2
  <2> HIDE DEF pc
  <2> QED
    BY <2>1 DEF Writing, Serving, Request, Shape
<1> HIDE DEF pc, next
<1> QED
  BY <1>1, <1>2, <1>3, GoToGood

LEMMA ProceedGood ==
  ASSUME TInv, NEW t \in Tasks, NEW r, Serving(r), r.tries < Retries, NEW c \in Context,
         NEW fill \in BOOLEAN, r.op = "update" => r.arg \in Patches, Proceed(t, r, c, fill)
  PROVE  LocalOK'
<1>0. r \in Request /\ r.proc \in Procs /\ r.op \in AllOps /\ r.id \in Ids
  BY DEF Serving
<1>1. CASE r.op = "get" /\ Answer(t, r, "found", c)
                        /\ (Remember(r, c) \/ UNCHANGED cache) /\ UNCHANGED memory
  <2>1. [kind |-> "found", body |-> c] \in Responses /\ c \in Maybe(Context)
    BY DEF Responses, Maybe
  <2>2. cache' \in [Procs -> [Ids -> Maybe(Context)]]
    BY <1>0, <1>1, <2>1, RememberGood DEF TInv, TypeOK
  <2>3. task' \in [Tasks -> Request] /\ \A u \in Tasks : Shape(task'[u])
    BY <1>0, <1>1, <2>1, AnswerGood
  <2> QED
    BY <1>1, <2>2, <2>3 DEF LocalOK, TInv, TypeOK
<1>2. CASE r.op = "update" /\ Remember(r, Patched(c, r.arg))
                           /\ Write(t, [r EXCEPT !.ctx = Patched(c, r.arg)])
  <2> DEFINE next == [r EXCEPT !.ctx = Patched(c, r.arg)]
  <2>1. Patched(c, r.arg) \in Context /\ Patched(c, r.arg) \in Maybe(Context)
    BY <1>2, PatchedContext DEF Maybe
  <2>2. cache' \in [Procs -> [Ids -> Maybe(Context)]]
    BY <1>0, <1>2, <2>1, RememberGood
  <2>3. Writing(next) /\ next.tries < Retries
    BY <1>0, <1>2, <2>1 DEF Writing, Serving, Request
  <2> HIDE DEF next
  <2>4. /\ memory' \in [Procs -> [Ids -> Maybe(Context)]]
        /\ task' \in [Tasks -> Request] /\ \A u \in Tasks : Shape(task'[u])
    BY <1>2, <2>3, WriteGood DEF next
  <2> QED
    BY <2>2, <2>4 DEF LocalOK
<1>3. CASE r.op = "delete" /\ Remember(r, Absent) /\ Write(t, r)
  <2>1. Writing(r) /\ Absent \in Maybe(Context)
    BY <1>0, <1>3 DEF Writing, Serving, Maybe
  <2>2. cache' \in [Procs -> [Ids -> Maybe(Context)]]
    BY <1>0, <1>3, <2>1, RememberGood
  <2>3. /\ memory' \in [Procs -> [Ids -> Maybe(Context)]]
        /\ task' \in [Tasks -> Request] /\ \A u \in Tasks : Shape(task'[u])
    BY <1>3, <2>1, WriteGood
  <2> QED
    BY <2>2, <2>3 DEF LocalOK
<1> QED
  BY <1>1, <1>2, <1>3 DEF Proceed

LEMMA StopGood ==
  ASSUME TInv, NEW t \in Tasks, NEW r, Serving(r),
         NEW kind \in {"none", "error"}, Stop(t, r, kind)
  PROVE  LocalOK'
<1>1. [kind |-> kind, body |-> Absent] \in Responses
  BY DEF Responses
<1>2. task' \in [Tasks -> Request] /\ \A u \in Tasks : Shape(task'[u])
  BY <1>1, AnswerGood DEF Stop, Serving
<1> QED
  BY <1>2 DEF Stop, LocalOK, TInv, TypeOK

LEMMA FromMemoryGood ==
  ASSUME TInv, NEW t \in Tasks, NEW r, Serving(r), r.tries < Retries,
         r.op = "update" => r.arg \in Patches, FromMemory(t, r)
  PROVE  LocalOK'
<1> DEFINE c == memory[r.proc][r.id]
<1>1. c \in Maybe(Context)
  BY DEF Serving, TInv, TypeOK
<1>2. CASE Stop(t, r, "none") \/ Stop(t, r, "error")
  BY <1>2, StopGood
<1>3. CASE c # Absent /\ Proceed(t, r, c, FALSE)
  <2>1. c \in Context
    BY <1>1, <1>3 DEF Maybe
  <2> QED
    BY <1>3, <2>1, ProceedGood
<1> QED
  BY <1>2, <1>3 DEF FromMemory

LEMMA ReadGood ==
  ASSUME TInv, NEW t \in Tasks, NEW r, Serving(r), r.tries < Retries,
         r.op \in {"get", "update", "delete"}, r.op = "update" => r.arg \in Patches,
         Read(t, r)
  PROVE  LocalOK'
<1> DEFINE c == cache[r.proc][r.id]
<1>1. c \in Maybe(Context)
  BY DEF Serving, TInv, TypeOK
<1>2. CASE c # Absent /\ Valid(c) /\ Proceed(t, r, c, FALSE)
  <2>1. c \in Context
    BY <1>1, <1>2 DEF Maybe
  <2> QED
    BY <1>2, <2>1, ProceedGood
<1>3. CASE Stop(t, r, "error")
  BY <1>3, StopGood
<1>4. ASSUME NEW pc \in {"pgRead", "rdRead"}, GoTo(t, r, pc), UNCHANGED <<cache, memory>>
      PROVE  LocalOK'
  <2>1. pc \in Pcs /\ Shape([r EXCEPT !.pc = pc])
    BY <1>4 DEF Pcs, Serving, Request, Shape
  <2>2. task' \in [Tasks -> Request] /\ \A u \in Tasks : Shape(task'[u])
    BY <1>4, <2>1, GoToGood DEF Serving
  <2> QED
    BY <1>4, <2>2 DEF LocalOK, TInv, TypeOK
<1>5. CASE FromMemory(t, r)
  BY <1>5, FromMemoryGood
<1> QED
  BY <1>2, <1>3, <1>4, <1>5 DEF Read

LEMMA ListMemoryGood ==
  ASSUME TInv, NEW t \in Tasks, NEW r \in Request, r.proc \in Procs, r.op = "list",
         ListMemory(t, r)
  PROVE  task' \in [Tasks -> Request] /\ \A u \in Tasks : Shape(task'[u])
<1>1. \E S \in SUBSET Ids : Answer(t, r, "listed", S) \/ Answer(t, r, "error", Absent)
  BY DEF ListMemory
<1>2. PICK S \in SUBSET Ids : Answer(t, r, "listed", S) \/ Answer(t, r, "error", Absent)
  BY <1>1
<1>3. /\ [kind |-> "listed", body |-> S] \in Responses
      /\ [kind |-> "error", body |-> Absent] \in Responses
      /\ r.op \in AllOps
  BY DEF Responses, AllOps
<1> QED
  BY <1>2, <1>3, AnswerGood

-----------------------------------------------------------------------------
(* Type correctness, action by action.                                     *)

LEMMA NewServing ==
  ASSUME TInv, NEW p \in Procs, NEW op \in AllOps, NEW i \in Ids, NEW u \in Maybe(Patches)
  PROVE  LET r == New(p, op, i, u)
         IN /\ Serving(r) /\ r.tries < Retries
            /\ r.proc = p /\ r.op = op /\ r.id = i /\ r.arg = u
<1> DEFINE r == New(p, op, i, u)
<1>1. r = [Idle EXCEPT !.proc = p, !.op = op, !.id = i, !.arg = u, !.before = seen]
  BY DEF New
<1>2. Idle \in Request /\ Idle.tries = 0
  BY IdleGood DEF Good, Idle
<1>3. seen \in [Ids -> Status]
  BY DEF TInv, TypeOK
<1> HIDE DEF r
<1>4. r \in Request
  BY <1>1, <1>2, <1>3 DEF Request, Maybe
<1>5. r.proc = p /\ r.op = op /\ r.id = i /\ r.arg = u /\ r.tries = 0
  BY <1>1, <1>2 DEF Request
<1> QED
  BY <1>4, <1>5, StorageAssumption DEF r, Serving

LEMMA CreateTyped ==
  ASSUME TInv, NEW p \in Procs, NEW t \in Tasks, NEW i \in Ids, NEW title \in Titles,
         Create(p, t, i, title)
  PROVE  TInv'
<1> DEFINE c == [title |-> title, done |-> FALSE]
           n == New(p, "create", i, Absent)
           r == [n EXCEPT !.ctx = c]
<1>1. c \in Context /\ c \in Maybe(Context)
  BY DEF Context, Maybe
<1>2. Serving(n) /\ n.tries < Retries /\ n.proc = p /\ n.op = "create" /\ n.id = i
  BY NewServing DEF AllOps, Maybe
<1>3. Writing(r) /\ r.tries < Retries /\ r.proc = p /\ r.id = i
  <2> HIDE DEF n, c
  <2> QED
    BY <1>1, <1>2 DEF Writing, Serving, Request
<1>4. Remember(r, c) /\ Write(t, r) /\ UNCHANGED <<pg, redis, conf, restarts>>
      /\ seen' = [seen EXCEPT ![i] = "new"]
  BY DEF Create
<1> HIDE DEF r, c, n
<1>5. cache' \in [Procs -> [Ids -> Maybe(Context)]]
  BY <1>1, <1>3, <1>4, RememberGood
<1>6. /\ memory' \in [Procs -> [Ids -> Maybe(Context)]]
      /\ task' \in [Tasks -> Request] /\ \A u \in Tasks : Shape(task'[u])
  BY <1>3, <1>4, WriteGood
<1>7. seen' \in [Ids -> Status]
  BY <1>4 DEF TInv, TypeOK, Status
<1> QED
  BY <1>4, <1>5, <1>6, <1>7 DEF TInv, TypeOK

LEMMA RequestTyped ==
  ASSUME TInv, NEW p \in Procs, NEW t \in Tasks, NEW i \in Ids, NEW u \in Maybe(Patches),
         NEW op \in {"get", "update", "delete"}, op = "update" => u \in Patches,
         Read(t, New(p, op, i, u)), seen' \in [Ids -> Status],
         UNCHANGED <<pg, redis, conf, restarts>>
  PROVE  TInv'
<1> DEFINE r == New(p, op, i, u)
<1>1. Serving(r) /\ r.tries < Retries /\ r.op = op /\ r.arg = u
  BY NewServing DEF AllOps
<1>2. Read(t, r)
  OBVIOUS
<1> HIDE DEF r
<1>3. LocalOK'
  BY <1>1, <1>2, ReadGood
<1> QED
  BY <1>3 DEF LocalOK, TInv, TypeOK

LEMMA ListTyped ==
  ASSUME TInv, NEW p \in Procs, NEW t \in Tasks, List(p, t)
  PROVE  TInv'
<1> DEFINE r == New(p, "list", Absent, Absent)
<1>1. r \in Request /\ r.proc = p /\ r.op = "list" /\ r.tries = 0
  BY IdleGood DEF New, Good, Request, Idle, Maybe, AllOps, TInv, TypeOK
<1>2. /\ GoTo(t, r, "pgList") \/ GoTo(t, r, "rdKeys") \/ ListMemory(t, r)
      /\ UNCHANGED <<cache, memory, pg, redis, conf, seen, restarts>>
  BY DEF List
<1> HIDE DEF r
<1>3. \A pc \in {"pgList", "rdKeys"} : pc \in Pcs /\ Shape([r EXCEPT !.pc = pc])
  BY <1>1 DEF Shape, Pcs, Request, AllOps
<1>4. task' \in [Tasks -> Request] /\ \A u \in Tasks : Shape(task'[u])
  BY <1>1, <1>2, <1>3, GoToGood, ListMemoryGood
<1> QED
  BY <1>2, <1>4 DEF TInv, TypeOK

LEMMA ArriveTyped ==
  ASSUME TInv, NEW p \in Procs, NEW t \in Tasks, Arrive(p, t)
  PROVE  TInv'
<1>1. ASSUME NEW i \in Ids, NEW title \in Titles, Create(p, t, i, title)
      PROVE  TInv'
  BY <1>1, CreateTyped
<1>2. ASSUME NEW i \in Ids, Get(p, t, i)
      PROVE  TInv'
  <2>1. Absent \in Maybe(Patches) /\ seen' \in [Ids -> Status]
    BY <1>2 DEF Get, Maybe, TInv, TypeOK
  <2> QED
    BY <1>2, <2>1, RequestTyped DEF Get
<1>3. ASSUME NEW i \in Ids, NEW u \in Patches, Update(p, t, i, u)
      PROVE  TInv'
  <2>1. u \in Maybe(Patches) /\ seen' \in [Ids -> Status]
    BY <1>3 DEF Update, Maybe, TInv, TypeOK
  <2> QED
    BY <1>3, <2>1, RequestTyped DEF Update
<1>4. ASSUME NEW i \in Ids, Delete(p, t, i)
      PROVE  TInv'
  <2>1. Absent \in Maybe(Patches) /\ seen' \in [Ids -> Status]
    BY <1>4 DEF Delete, Maybe, TInv, TypeOK, Status
  <2> QED
    BY <1>4, <2>1, RequestTyped DEF Delete
<1> QED
  BY <1>1, <1>2, <1>3, <1>4, ListTyped DEF Arrive

(* What TInv says of a request that waits at a given point.                *)
LEMMA Waiting ==
  ASSUME TInv, NEW t \in Tasks, task[t].pc # "idle"
  PROVE  LET r == task[t]
         IN /\ r \in Request /\ r.proc \in Procs /\ r.op \in AllOps
            /\ r.pc \in {"pgRead", "rdRead", "got"}
                 => /\ Serving(r) /\ r.tries < Retries
                    /\ r.op \in {"get", "update", "delete"}
                    /\ r.op = "update" => r.arg \in Patches
            /\ r.pc \in {"pgSelect", "pgWrite", "rdWrite", "memory"} => Writing(r)
            /\ r.pc \in {"pgSelect", "pgWrite", "rdWrite"} => r.tries < Retries
            /\ r.pc \in {"pgList", "rdKeys", "rdScan"} => r.op = "list"
  BY DEF TInv, TypeOK, Shape, Serving, Writing

LEMMA OnlyTask ==
  ASSUME TInv, UNCHANGED <<cache, memory, Stores, conf, seen, restarts>>,
         task' \in [Tasks -> Request] /\ \A u \in Tasks : Shape(task'[u])
  PROVE  TInv'
  BY DEF Stores, TInv, TypeOK

LEMMA OnlyLocal ==
  ASSUME TInv, UNCHANGED <<Stores, conf, seen, restarts>>, LocalOK'
  PROVE  TInv'
  BY DEF Stores, LocalOK, TInv, TypeOK

LEMMA ReadsTyped ==
  ASSUME TInv, NEW t \in Tasks,
         PgRead(t) \/ PgReadFails(t) \/ RdRead(t) \/ RdReadFails(t) \/ Resume(t)
  PROVE  TInv'
<1> DEFINE r == task[t]
<1>1. ASSUME NEW c \in Maybe(Context), r.pc \in {"pgRead", "rdRead"},
             GoTo(t, [r EXCEPT !.row = c], "got")
      PROVE  task' \in [Tasks -> Request] /\ \A u \in Tasks : Shape(task'[u])
  <2> DEFINE n == [r EXCEPT !.row = c]
  <2>1. /\ r \in Request /\ Serving(r) /\ r.tries < Retries
        /\ r.op \in {"get", "update", "delete"} /\ (r.op = "update" => r.arg \in Patches)
    BY <1>1, Waiting
  <2>2. n \in Request /\ "got" \in Pcs
    BY <2>1 DEF Request, Pcs
  <2>3. Shape([n EXCEPT !.pc = "got"])
    BY <2>1 DEF Shape, Request, Serving
  <2> HIDE DEF n
  <2> QED
    BY <1>1, <2>2, <2>3, GoToGood DEF n
<1>2. CASE PgRead(t)
  <2>1. pg[r.id] \in Maybe(Context)
    BY <1>2, Waiting DEF PgRead, At, Serving, TInv, TypeOK
  <2> QED
    BY <1>1, <1>2, <2>1, OnlyTask DEF PgRead, At
<1>3. CASE RdRead(t)
  <2>1. redis[r.id] \in Maybe(Context)
    BY <1>3, Waiting DEF RdRead, At, Serving, TInv, TypeOK
  <2> QED
    BY <1>1, <1>3, <2>1, OnlyTask DEF RdRead, At
<1>4. CASE PgReadFails(t)
  <2>1. CASE GoTo(t, r, "rdRead") /\ UNCHANGED <<cache, memory>>
    <3>1. r \in Request /\ "rdRead" \in Pcs /\ Shape([r EXCEPT !.pc = "rdRead"])
      BY <1>4, Waiting DEF PgReadFails, At, Shape, Request, Serving, Pcs
    <3> QED
      BY <1>4, <2>1, <3>1, GoToGood, OnlyTask DEF PgReadFails
  <2>2. CASE FromMemory(t, r)
    <3>1. LocalOK'
      BY <1>4, <2>2, Waiting, FromMemoryGood DEF PgReadFails, At
    <3> QED
      BY <1>4, <3>1, OnlyLocal DEF PgReadFails
  <2> QED
    BY <1>4, <2>1, <2>2 DEF PgReadFails
<1>5. CASE RdReadFails(t)
  <2>1. LocalOK'
    BY <1>5, Waiting, FromMemoryGood DEF RdReadFails, At
  <2> QED
    BY <1>5, <2>1, OnlyLocal DEF RdReadFails
<1>6. CASE Resume(t)
  <2> DEFINE n == [r EXCEPT !.row = Absent]
  <2>1. /\ r \in Request /\ Serving(r) /\ r.tries < Retries
        /\ r.op \in {"get", "update", "delete"} /\ (r.op = "update" => r.arg \in Patches)
    BY <1>6, Waiting DEF Resume, At
  <2>2. Serving(n) /\ n.tries < Retries /\ (n.op = "update" => n.arg \in Patches)
    BY <2>1 DEF Serving, Request, Maybe
  <2>3. CASE Stop(t, r, "none")
    BY <1>6, <2>1, <2>3, StopGood, OnlyLocal DEF Resume
  <2>4. CASE r.row # Absent /\ Proceed(t, n, r.row, TRUE)
    <3>1. r.row \in Context
      BY <2>1, <2>4 DEF Request, Maybe
    <3>2. LocalOK'
      <4> HIDE DEF n
      <4> QED
        BY <2>2, <2>4, <3>1, ProceedGood
    <3> QED
      BY <1>6, <3>2, OnlyLocal DEF Resume
  <2> QED
    BY <1>6, <2>3, <2>4 DEF Resume
<1> QED
  BY <1>2, <1>3, <1>4, <1>5, <1>6

LEMMA MergedContext ==
  ASSUME NEW c \in Maybe(Context), NEW old \in Maybe(Context), NEW new \in Context
  PROVE  Merged(c, old, new) \in Maybe(Context)
<1>1. CASE old # Absent /\ c # Absent
  <2>1. c \in Context /\ old \in Context
    BY <1>1 DEF Maybe
  <2>2. /\ (IF new.title = old.title THEN c.title ELSE new.title) \in Titles \union {Null}
        /\ (IF new.done = old.done THEN c.done ELSE new.done) \in BOOLEAN
    <3>1. /\ c.title \in Titles \union {Null} /\ new.title \in Titles \union {Null}
          /\ c.done \in BOOLEAN /\ new.done \in BOOLEAN
      BY <2>1 DEF Context
    <3>2. (IF new.done = old.done THEN c.done ELSE new.done) \in {c.done, new.done}
      OBVIOUS
    <3>3. (IF new.title = old.title THEN c.title ELSE new.title) \in {c.title, new.title}
      OBVIOUS
    <3> QED
      BY <3>1, <3>2, <3>3
  <2>3. [title |-> IF new.title = old.title THEN c.title ELSE new.title,
         done  |-> IF new.done = old.done THEN c.done ELSE new.done] \in Context
    BY <2>2 DEF Context
  <2> QED
    BY <2>3 DEF Merged, Maybe
<1>2. CASE old = Absent \/ c = Absent
  BY <1>2 DEF Merged, Maybe
<1> QED
  BY <1>1, <1>2

LEMMA PgWritesTyped ==
  ASSUME TInv, NEW t \in Tasks,
         PgSelect(t) \/ PgSelectFails(t) \/ PgWrite(t) \/ PgWriteFails(t)
  PROVE  TInv'
<1> DEFINE r == task[t]
<1>0. /\ r.pc \in {"pgSelect", "pgWrite"}
      /\ r \in Request /\ Writing(r) /\ r.tries < Retries
      /\ r.proc \in Procs /\ r.id \in Ids
  <2>1. r.pc \in {"pgSelect", "pgWrite"}
    BY DEF PgSelect, PgSelectFails, PgWrite, PgWriteFails, At
  <2> QED
    BY <2>1, Waiting DEF Writing, Serving
<1>1. CASE PgSelect(t)
  <2> DEFINE n == [r EXCEPT !.row = pg[r.id]]
  <2>1. pg[r.id] \in Maybe(Context)
    BY <1>0 DEF TInv, TypeOK
  <2>2. n \in Request /\ Writing(n) /\ n.tries < Retries
    BY <1>0, <2>1 DEF Writing, Serving, Request
  <2>3. /\ AfterPg(t, n) \/ GoTo(t, n, "pgWrite")
        /\ UNCHANGED <<cache, memory, Stores, conf, seen, restarts>>
    BY <1>1 DEF PgSelect
  <2> HIDE DEF n
  <2>4. Shape([n EXCEPT !.pc = "pgWrite"]) /\ "pgWrite" \in Pcs
    BY <2>2 DEF Writing, Serving, Shape, Request, Pcs
  <2> QED
    BY <2>2, <2>3, <2>4, AfterPgGood, GoToGood, OnlyTask
<1>2. CASE PgSelectFails(t) \/ PgWriteFails(t)
  BY <1>0, <1>2, AfterPgGood, OnlyTask DEF PgSelectFails, PgWriteFails
<1>3. CASE PgWrite(t)
  <2>1. pg[r.id] \in Maybe(Context) /\ r.row \in Maybe(Context)
    BY <1>0 DEF TInv, TypeOK, Request
  <2>2. (IF r.op = "delete" THEN Absent ELSE Merged(pg[r.id], r.row, r.ctx)) \in Maybe(Context)
    BY <1>0, <2>1, MergedContext DEF Writing, Maybe
  <2>3. pg' = [pg EXCEPT ![r.id] = IF r.op = "delete" THEN Absent
                                   ELSE Merged(pg[r.id], r.row, r.ctx)]
    BY <1>3 DEF PgWrite
  <2>4. pg' \in [Ids -> Maybe(Context)]
    BY <2>2, <2>3 DEF TInv, TypeOK
  <2>5. task' \in [Tasks -> Request] /\ \A u \in Tasks : Shape(task'[u])
    BY <1>0, <1>3, AfterPgGood DEF PgWrite
  <2> QED
    BY <1>3, <2>4, <2>5 DEF PgWrite, TInv, TypeOK
<1> QED
  BY <1>1, <1>2, <1>3

LEMMA RdWritesTyped ==
  ASSUME TInv, NEW t \in Tasks, RdWrite(t) \/ RdWriteFails(t) \/ Finish(t)
  PROVE  TInv'
<1> DEFINE r == task[t]
<1>1. ASSUME r.pc = "rdWrite"
      PROVE  /\ r \in Request /\ Writing(r) /\ r.tries < Retries
             /\ Overwritten(r) \in [Ids -> Maybe(Context)]
  <2>1. r \in Request /\ Writing(r) /\ r.tries < Retries
    BY <1>1, Waiting
  <2> QED
    BY <2>1 DEF Overwritten, Writing, Maybe, TInv, TypeOK
<1>2. CASE RdWrite(t)
  <2>1. Shape([r EXCEPT !.pc = "memory"]) /\ "memory" \in Pcs
    BY <1>1, <1>2 DEF RdWrite, At, Writing, Serving, Shape, Request, Pcs
  <2>2. task' \in [Tasks -> Request] /\ \A u \in Tasks : Shape(task'[u])
    BY <1>1, <1>2, <2>1, GoToGood DEF RdWrite, At
  <2> QED
    BY <1>1, <1>2, <2>2 DEF RdWrite, At, TInv, TypeOK
<1>3. CASE RdWriteFails(t)
  <2> DEFINE n == [r EXCEPT !.tries = @ + 1]
             pc == IF n.tries < Retries THEN "rdWrite" ELSE "memory"
  <2>0. r \in Request /\ Writing(r) /\ r.tries < Retries /\ r.tries \in 0 .. Retries
    BY <1>1, <1>3 DEF RdWriteFails, At, Request
  <2>1. /\ n \in Request /\ n.tries = r.tries + 1
        /\ Overwritten(n) = Overwritten(r)
    BY <2>0, StorageAssumption DEF Request, Overwritten
  <2>2. pc \in Pcs /\ Shape([n EXCEPT !.pc = pc])
    BY <2>0, <2>1 DEF Writing, Serving, Shape, Request, Pcs
  <2>3. GoTo(t, n, pc) /\ redis' \in {redis, Overwritten(n)}
        /\ UNCHANGED <<cache, memory, pg, conf, seen, restarts>>
    BY <1>3 DEF RdWriteFails
  <2> HIDE DEF n, pc
  <2>4. task' \in [Tasks -> Request] /\ \A u \in Tasks : Shape(task'[u])
    BY <2>1, <2>2, <2>3, GoToGood
  <2>5. redis' \in [Ids -> Maybe(Context)]
    BY <1>1, <1>3, <2>1, <2>3 DEF RdWriteFails, At, TInv, TypeOK
  <2> QED
    BY <2>3, <2>4, <2>5 DEF TInv, TypeOK
<1>4. CASE Finish(t)
  <2>1. /\ memory' \in [Procs -> [Ids -> Maybe(Context)]]
        /\ task' \in [Tasks -> Request] /\ \A u \in Tasks : Shape(task'[u])
    BY <1>4, Waiting, ConcludeGood DEF Finish, At
  <2> QED
    BY <1>4, <2>1 DEF Finish, Stores, TInv, TypeOK
<1> QED
  BY <1>2, <1>3, <1>4

LEMMA ListsTyped ==
  ASSUME TInv, NEW t \in Tasks,
         PgList(t) \/ PgListFails(t) \/ RdKeys(t) \/ RdKeysFails(t) \/ RdScan(t) \/ RdScanned(t)
  PROVE  TInv'
<1> DEFINE r == task[t]
<1>0. /\ r.pc \in {"pgList", "rdKeys", "rdScan"}
      /\ r \in Request /\ r.proc \in Procs /\ r.op = "list" /\ r.op \in AllOps
  <2>1. r.pc \in {"pgList", "rdKeys", "rdScan"}
    BY DEF PgList, PgListFails, RdKeys, RdKeysFails, RdScan, RdScanned, At
  <2> QED
    BY <2>1, Waiting
<1>1. ASSUME NEW S \in SUBSET Ids, Answer(t, r, "listed", S)
      PROVE  task' \in [Tasks -> Request] /\ \A u \in Tasks : Shape(task'[u])
  <2>1. [kind |-> "listed", body |-> S] \in Responses
    BY DEF Responses
  <2> QED
    BY <1>0, <1>1, <2>1, AnswerGood
<1>2. ASSUME NEW n \in Request, n.proc = r.proc, n.op = "list", NEW pc \in {"rdKeys", "rdScan"},
             GoTo(t, n, pc)
      PROVE  task' \in [Tasks -> Request] /\ \A u \in Tasks : Shape(task'[u])
  <2>1. Shape([n EXCEPT !.pc = pc]) /\ pc \in Pcs
    BY <1>0, <1>2 DEF Shape, Request, Pcs
  <2> QED
    BY <1>2, <2>1, GoToGood
<1>3. task' \in [Tasks -> Request] /\ \A u \in Tasks : Shape(task'[u])
  <2>1. CASE PgList(t)
    BY <1>1, <2>1 DEF PgList
  <2>2. CASE PgListFails(t)
    BY <1>0, <1>2, <2>2, ListMemoryGood DEF PgListFails
  <2>3. CASE RdKeys(t)
    <3> DEFINE n == [r EXCEPT !.todo = {i \in Ids : redis[i] # Absent}]
    <3>1. n \in Request /\ n.proc = r.proc /\ n.op = "list" /\ GoTo(t, n, "rdScan")
      BY <1>0, <2>3 DEF RdKeys, Request
    <3> HIDE DEF n
    <3> QED
      BY <1>2, <3>1
  <2>4. CASE RdKeysFails(t)
    BY <1>0, <2>4, ListMemoryGood DEF RdKeysFails
  <2>5. CASE RdScan(t)
    <3>1. \E n \in Request : n.proc = r.proc /\ n.op = "list" /\ GoTo(t, n, "rdScan")
      <4> DEFINE m(i) == [r EXCEPT !.todo = @ \ {i}]
                 k(i) == [m(i) EXCEPT !.acc = @ \union {i}]
                 same(i) == [m(i) EXCEPT !.acc = @]
      <4>1. PICK i \in r.todo : \/ GoTo(t, [m(i) EXCEPT !.acc =
                                     IF redis[i] # Absent /\ Valid(redis[i])
                                     THEN @ \union {i} ELSE @], "rdScan")
                                \/ GoTo(t, m(i), "rdScan")
        BY <2>5 DEF RdScan
      <4>2. i \in Ids
        BY <1>0, <4>1 DEF Request
      <4>3. m(i) \in Request /\ m(i).proc = r.proc /\ m(i).op = "list"
        BY <1>0 DEF Request
      <4>4. k(i) \in Request /\ k(i).proc = r.proc /\ k(i).op = "list"
        BY <1>0, <4>2 DEF Request
      <4>5. same(i) \in Request /\ same(i).proc = r.proc /\ same(i).op = "list"
        BY <1>0 DEF Request
      <4>6. GoTo(t, k(i), "rdScan") \/ GoTo(t, same(i), "rdScan") \/ GoTo(t, m(i), "rdScan")
        BY <4>1
      <4> HIDE DEF m, k, same
      <4> QED
        BY <4>3, <4>4, <4>5, <4>6
    <3> QED
      BY <1>2, <3>1
  <2>6. CASE RdScanned(t)
    BY <1>0, <1>1, <2>6 DEF RdScanned, Request
  <2> QED
    BY <2>1, <2>2, <2>3, <2>4, <2>5, <2>6
<1> QED
  BY <1>3, OnlyTask DEF PgList, PgListFails, RdKeys, RdKeysFails, RdScan, RdScanned

LEMMA NextTyped == TInv /\ [Next]_vars => TInv'
<1> SUFFICES ASSUME TInv, [Next]_vars
             PROVE  TInv'
  OBVIOUS
<1>1. ASSUME NEW p \in Procs, NEW t \in Tasks, Arrive(p, t)
      PROVE  TInv'
  BY <1>1, ArriveTyped
<1>2. ASSUME NEW t \in Tasks, Step(t)
      PROVE  TInv'
  <2>1. CASE Reply(t)
    <3>1. task' = [task EXCEPT ![t] = Idle] /\ Idle \in Request /\ Shape(Idle)
      BY <2>1, IdleGood DEF Reply, Good
    <3>2. task' \in [Tasks -> Request] /\ \A u \in Tasks : Shape(task'[u])
      BY <3>1 DEF TInv, TypeOK
    <3>3. seen' \in [Ids -> Status]
      BY <2>1 DEF Reply, TInv, TypeOK, Status
    <3> QED
      BY <2>1, <3>2, <3>3 DEF Reply, Stores, TInv, TypeOK
  <2> QED
    BY <1>2, <2>1, ReadsTyped, PgWritesTyped, RdWritesTyped, ListsTyped DEF Step
<1>3. ASSUME NEW p \in Procs, NEW i \in Ids, Forget(p, i)
      PROVE  TInv'
  BY <1>3 DEF Forget, Stores, TInv, TypeOK, Maybe
<1>4. ASSUME NEW p \in Procs, Restart(p)
      PROVE  TInv'
  <2>1. Idle \in Request /\ Shape(Idle)
    BY IdleGood DEF Good
  <2>2. task' = [t \in Tasks |-> IF task[t].proc = p THEN Idle ELSE task[t]]
    BY <1>4 DEF Restart
  <2>3. task' \in [Tasks -> Request] /\ \A u \in Tasks : Shape(task'[u])
    BY <2>1, <2>2 DEF TInv, TypeOK
  <2>4. /\ cache' \in [Procs -> [Ids -> Maybe(Context)]]
        /\ memory' \in [Procs -> [Ids -> Maybe(Context)]]
        /\ conf' \in [Procs -> SUBSET Configured]
    BY <1>4 DEF Restart, Empty, Connected, Maybe, TInv, TypeOK
  <2>5. restarts' \in 0 .. MaxRestarts
    BY <1>4, StorageAssumption DEF Restart, TInv, TypeOK
  <2> QED
    BY <1>4, <2>3, <2>4, <2>5 DEF Restart, Stores, TInv, TypeOK
<1>5. CASE UNCHANGED vars
  BY <1>5 DEF vars, TInv, TypeOK
<1> QED
  BY <1>1, <1>2, <1>3, <1>4, <1>5 DEF Next

LEMMA InitTyped == Init => TInv
  BY IdleGood, StorageAssumption
  DEF Init, TInv, TypeOK, Good, Empty, Connected, Maybe, Status

THEOREM Typed == Spec => []TInv
  BY InitTyped, NextTyped, PTL DEF Spec

(* The variables keep their types, whatever fails and whoever restarts.    *)
THEOREM TypeCorrect == Spec => []TypeOK
<1>1. TInv => TypeOK
  BY DEF TInv
<1> QED
  BY <1>1, Typed, PTL

-----------------------------------------------------------------------------
(* Errors are contained: as long as no PUT nulls a title, every context    *)
(* anywhere has one, so that every answer can be built from it.            *)

TitlesKept == \A u \in Patches : u.title # Null

Titled == [title : Titles, done : BOOLEAN]

Calm(r) == /\ r.row \in Maybe(Titled) /\ r.ctx \in Maybe(Titled)
           /\ r.pc = "done" => r.res.kind # "error"

LocalCalm == /\ cache \in [Procs -> [Ids -> Maybe(Titled)]]
             /\ memory \in [Procs -> [Ids -> Maybe(Titled)]]
             /\ \A u \in Tasks : Calm(task[u])

EInv == /\ TInv
        /\ LocalCalm
        /\ pg \in [Ids -> Maybe(Titled)]
        /\ redis \in [Ids -> Maybe(Titled)]

LEMMA TitledFacts ==
  /\ Titled \subseteq Context
  /\ Absent \notin Titled
  /\ \A c \in Titled : Valid(c)
  BY StorageAssumption DEF Titled, Context, Valid

LEMMA IdleCalm == Calm(Idle)
  BY DEF Calm, Idle, Maybe

LEMMA AnswerCalm ==
  ASSUME EInv, NEW t \in Tasks, NEW r, NEW kind, NEW body, kind # "error",
         Answer(t, r, kind, body)
  PROVE  \A u \in Tasks : Calm(task'[u])
<1> DEFINE done == [Idle EXCEPT !.pc = "done", !.proc = r.proc, !.op = r.op, !.id = r.id,
                                !.before = r.before, !.res = [kind |-> kind, body |-> body]]
<1>1. Calm(done)
  BY DEF Calm, Idle, Maybe
<1>2. task' = [task EXCEPT ![t] = done]
  BY DEF Answer
<1> HIDE DEF done
<1> QED
  BY <1>1, <1>2 DEF EInv, LocalCalm, TInv, TypeOK

LEMMA GoToCalm ==
  ASSUME EInv, NEW t \in Tasks, NEW r \in Request, NEW pc, pc # "done",
         r.row \in Maybe(Titled), r.ctx \in Maybe(Titled), GoTo(t, r, pc)
  PROVE  \A u \in Tasks : Calm(task'[u])
<1> DEFINE next == [r EXCEPT !.pc = pc]
<1>1. Calm(next)
  BY DEF Calm, Request
<1>2. task' = [task EXCEPT ![t] = next]
  BY DEF GoTo
<1> HIDE DEF next
<1> QED
  BY <1>1, <1>2 DEF EInv, LocalCalm, TInv, TypeOK

LEMMA PatchedTitled ==
  ASSUME TitlesKept, NEW c \in Titled, NEW u \in Patches
  PROVE  Patched(c, u) \in Titled
<1>1. /\ u.title \in Titles \union {Unset} /\ u.done \in BOOLEAN \union {Unset}
      /\ c.title \in Titles /\ c.done \in BOOLEAN
  BY StorageAssumption DEF TitlesKept, Titled
<1>2. (IF u.title = Unset THEN c.title ELSE u.title) \in Titles
  BY <1>1
<1>3. (IF u.done = Unset THEN c.done ELSE u.done) \in BOOLEAN
  <2>1. CASE u.done = Unset
    BY <1>1, <2>1
  <2>2. CASE u.done # Unset
    BY <1>1, <2>2
  <2> QED
    BY <2>1, <2>2
<1> QED
  BY <1>2, <1>3 DEF Patched, Titled

(* A request that writes: what it writes has a title.                      *)
WritesTitled(r) == /\ Writing(r)
                   /\ r.row \in Maybe(Titled) /\ r.ctx \in Maybe(Titled)
                   /\ r.op # "delete" => r.ctx \in Titled

LEMMA ConcludeCalm ==
  ASSUME EInv, NEW t \in Tasks, NEW r, WritesTitled(r), Conclude(t, r)
  PROVE  /\ memory' \in [Procs -> [Ids -> Maybe(Titled)]]
         /\ \A u \in Tasks : Calm(task'[u])
<1>0. r.proc \in Procs /\ r.id \in Ids
  BY DEF WritesTitled, Writing, Serving
<1>1. CASE r.op = "delete"
  <2>1. memory' = [memory EXCEPT ![r.proc][r.id] = Absent] /\ Answer(t, r, "removed", Absent)
    BY <1>1 DEF Conclude
  <2> QED
    BY <1>0, <2>1, AnswerCalm DEF EInv, LocalCalm, Maybe
<1>2. CASE r.op # "delete"
  <2>1. r.ctx \in Titled /\ Valid(r.ctx)
    BY <1>2, TitledFacts DEF WritesTitled
  <2>2. memory' = [memory EXCEPT ![r.proc][r.id] = r.ctx] /\ Answer(t, r, "found", r.ctx)
    BY <1>2, <2>1 DEF Conclude
  <2> QED
    BY <1>0, <2>1, <2>2, AnswerCalm DEF EInv, LocalCalm, Maybe
<1> QED
  BY <1>1, <1>2

LEMMA WriteCalm ==
  ASSUME EInv, NEW t \in Tasks, NEW r, WritesTitled(r), Write(t, r)
  PROVE  /\ memory' \in [Procs -> [Ids -> Maybe(Titled)]]
         /\ \A u \in Tasks : Calm(task'[u])
<1>1. CASE conf[r.proc] = {}
  BY <1>1, ConcludeCalm DEF Write
<1>2. CASE conf[r.proc] # {}
  <2>1. \E pc \in {"pgSelect", "rdWrite"} : GoTo(t, r, pc) /\ UNCHANGED memory
    BY <1>2 DEF Write
  <2>2. r \in Request /\ r.row \in Maybe(Titled) /\ r.ctx \in Maybe(Titled)
    BY DEF WritesTitled, Writing, Serving
  <2>3. \A u \in Tasks : Calm(task'[u])
    BY <2>1, <2>2, GoToCalm
  <2> QED
    BY <2>1, <2>3 DEF EInv, LocalCalm
<1> QED
  BY <1>1, <1>2

LEMMA RememberCalm ==
  ASSUME EInv, NEW r, r.proc \in Procs, r.id \in Ids, NEW c \in Maybe(Titled), Remember(r, c)
  PROVE  cache' \in [Procs -> [Ids -> Maybe(Titled)]]
  BY DEF EInv, LocalCalm, Remember

(* A request that reads, before it has a context.                          *)
ReadsTitled(r) == /\ Serving(r)
                  /\ r.row \in Maybe(Titled) /\ r.ctx \in Maybe(Titled)
                  /\ r.op = "update" => r.arg \in Patches

LEMMA ProceedCalm ==
  ASSUME EInv, TitlesKept, NEW t \in Tasks, NEW r, ReadsTitled(r), NEW c \in Titled,
         NEW fill \in BOOLEAN, Proceed(t, r, c, fill)
  PROVE  LocalCalm'
<1>0. r \in Request /\ r.proc \in Procs /\ r.op \in AllOps /\ r.id \in Ids
  BY DEF ReadsTitled, Serving
<1>1. CASE r.op = "get" /\ Answer(t, r, "found", c)
                        /\ (Remember(r, c) \/ UNCHANGED cache) /\ UNCHANGED memory
  <2>1. cache' \in [Procs -> [Ids -> Maybe(Titled)]]
    <3>1. CASE Remember(r, c)
      BY <1>0, <3>1, RememberCalm DEF Maybe
    <3>2. CASE UNCHANGED cache
      BY <3>2 DEF EInv, LocalCalm
    <3> QED
      BY <1>1, <3>1, <3>2
  <2>2. \A u \in Tasks : Calm(task'[u])
    BY <1>1, AnswerCalm
  <2> QED
    BY <1>1, <2>1, <2>2 DEF EInv, LocalCalm
<1>2. CASE r.op = "update" /\ Remember(r, Patched(c, r.arg))
                           /\ Write(t, [r EXCEPT !.ctx = Patched(c, r.arg)])
  <2> DEFINE next == [r EXCEPT !.ctx = Patched(c, r.arg)]
  <2>1. Patched(c, r.arg) \in Titled
    BY <1>2, PatchedTitled DEF ReadsTitled
  <2>2. cache' \in [Procs -> [Ids -> Maybe(Titled)]]
    BY <1>0, <1>2, <2>1, RememberCalm DEF Maybe
  <2>3. WritesTitled(next)
    <3>1. Patched(c, r.arg) \in Context
      BY <2>1, TitledFacts
    <3> HIDE DEF Titled
    <3> QED
      BY <1>0, <1>2, <2>1, <3>1 DEF WritesTitled, ReadsTitled, Writing, Serving, Request, Maybe
  <2> HIDE DEF next
  <2>4. memory' \in [Procs -> [Ids -> Maybe(Titled)]] /\ \A u \in Tasks : Calm(task'[u])
    BY <1>2, <2>3, WriteCalm DEF next
  <2> QED
    BY <2>2, <2>4 DEF LocalCalm
<1>3. CASE r.op = "delete" /\ Remember(r, Absent) /\ Write(t, r)
  <2>1. WritesTitled(r)
    BY <1>3 DEF WritesTitled, ReadsTitled, Writing
  <2>2. cache' \in [Procs -> [Ids -> Maybe(Titled)]]
    BY <1>0, <1>3, RememberCalm DEF Maybe
  <2>3. memory' \in [Procs -> [Ids -> Maybe(Titled)]] /\ \A u \in Tasks : Calm(task'[u])
    BY <1>3, <2>1, WriteCalm
  <2> QED
    BY <2>2, <2>3 DEF LocalCalm
<1> QED
  BY <1>1, <1>2, <1>3 DEF Proceed

LEMMA StopCalm ==
  ASSUME EInv, NEW t \in Tasks, NEW r, Stop(t, r, "none")
  PROVE  LocalCalm'
<1>1. \A u \in Tasks : Calm(task'[u])
  BY AnswerCalm DEF Stop
<1> QED
  BY <1>1 DEF Stop, EInv, LocalCalm

LEMMA FromMemoryCalm ==
  ASSUME EInv, TitlesKept, NEW t \in Tasks, NEW r, ReadsTitled(r), FromMemory(t, r)
  PROVE  LocalCalm'
<1> DEFINE c == memory[r.proc][r.id]
<1>1. c \in Maybe(Titled)
  BY DEF ReadsTitled, Serving, EInv, LocalCalm
<1>2. CASE c = Absent
  BY <1>2, StopCalm DEF FromMemory
<1>3. CASE c # Absent
  <2>1. c \in Titled /\ Valid(c)
    BY <1>1, <1>3, TitledFacts DEF Maybe
  <2>2. Proceed(t, r, c, FALSE)
    BY <1>3, <2>1 DEF FromMemory
  <2> QED
    BY <2>1, <2>2, ProceedCalm
<1> QED
  BY <1>2, <1>3

LEMMA ReadCalm ==
  ASSUME EInv, TitlesKept, NEW t \in Tasks, NEW r, ReadsTitled(r), Read(t, r)
  PROVE  LocalCalm'
<1> DEFINE c == cache[r.proc][r.id]
<1>1. c \in Maybe(Titled)
  BY DEF ReadsTitled, Serving, EInv, LocalCalm
<1>2. CASE c # Absent
  <2>1. c \in Titled /\ Valid(c)
    BY <1>1, <1>2, TitledFacts DEF Maybe
  <2>2. Proceed(t, r, c, FALSE)
    BY <1>2, <2>1 DEF Read
  <2> QED
    BY <2>1, <2>2, ProceedCalm
<1>3. ASSUME NEW pc \in {"pgRead", "rdRead"}, GoTo(t, r, pc), UNCHANGED <<cache, memory>>
      PROVE  LocalCalm'
  <2>1. \A u \in Tasks : Calm(task'[u])
    BY <1>3, GoToCalm DEF ReadsTitled, Serving
  <2> QED
    BY <1>3, <2>1 DEF EInv, LocalCalm
<1>4. CASE FromMemory(t, r)
  BY <1>4, FromMemoryCalm
<1> QED
  BY <1>2, <1>3, <1>4 DEF Read

LEMMA ListMemoryCalm ==
  ASSUME EInv, NEW t \in Tasks, NEW r, r.proc \in Procs, ListMemory(t, r)
  PROVE  \A u \in Tasks : Calm(task'[u])
<1>1. \A i \in {j \in Ids : memory[r.proc][j] # Absent} : Valid(memory[r.proc][i])
  BY TitledFacts DEF EInv, LocalCalm, Maybe
<1>2. \E S : Answer(t, r, "listed", S)
  BY <1>1 DEF ListMemory
<1> QED
  BY <1>2, AnswerCalm

LEMMA ArriveCalm ==
  ASSUME EInv, TitlesKept, NEW p \in Procs, NEW t \in Tasks, Arrive(p, t)
  PROVE  LocalCalm' /\ UNCHANGED <<pg, redis>>
<1>0. TInv
  BY DEF EInv
<1>1. ASSUME NEW op \in AllOps, NEW i \in Maybe(Ids), NEW u \in Maybe(Patches)
      PROVE  New(p, op, i, u).row \in Maybe(Titled) /\ New(p, op, i, u).ctx \in Maybe(Titled)
  BY DEF New, Idle, Maybe
<1>2. ASSUME NEW i \in Ids, NEW u \in Maybe(Patches), NEW op \in {"get", "update", "delete"},
             op = "update" => u \in Patches, Read(t, New(p, op, i, u))
      PROVE  LocalCalm'
  <2> DEFINE r == New(p, op, i, u)
  <2>1. Serving(r) /\ r.op = op /\ r.arg = u
    BY <1>0, NewServing DEF AllOps
  <2>2. r.row \in Maybe(Titled) /\ r.ctx \in Maybe(Titled)
    BY <1>1 DEF AllOps, Maybe
  <2>3. Read(t, r)
    BY <1>2
  <2> HIDE DEF r
  <2> QED
    BY <1>2, <2>1, <2>2, <2>3, ReadCalm DEF ReadsTitled
<1>3. ASSUME NEW i \in Ids, NEW title \in Titles, Create(p, t, i, title)
      PROVE  LocalCalm' /\ UNCHANGED <<pg, redis>>
  <2> DEFINE c == [title |-> title, done |-> FALSE]
             n == New(p, "create", i, Absent)
             r == [n EXCEPT !.ctx = c]
  <2>1. c \in Titled /\ c \in Context
    BY DEF Titled, Context
  <2>2. Serving(n) /\ n.proc = p /\ n.op = "create" /\ n.id = i
    BY <1>0, NewServing DEF AllOps, Maybe
  <2>3. n.row \in Maybe(Titled)
    BY <1>1 DEF AllOps, Maybe
  <2>4. Remember(r, c) /\ Write(t, r) /\ UNCHANGED <<pg, redis>>
    BY <1>3 DEF Create
  <2> HIDE DEF c, n
  <2>5. WritesTitled(r) /\ r.proc = p /\ r.id = i
    BY <2>1, <2>2, <2>3 DEF WritesTitled, Writing, Serving, Request, Maybe
  <2> HIDE DEF r
  <2>6. cache' \in [Procs -> [Ids -> Maybe(Titled)]]
    BY <2>1, <2>4, <2>5, RememberCalm DEF Maybe
  <2>7. memory' \in [Procs -> [Ids -> Maybe(Titled)]] /\ \A u \in Tasks : Calm(task'[u])
    BY <2>4, <2>5, WriteCalm
  <2> QED
    BY <2>4, <2>6, <2>7 DEF LocalCalm
<1>4. ASSUME NEW i \in Ids, Get(p, t, i)
      PROVE  LocalCalm' /\ UNCHANGED <<pg, redis>>
  BY <1>2, <1>4 DEF Get, Maybe
<1>5. ASSUME NEW i \in Ids, NEW u \in Patches, Update(p, t, i, u)
      PROVE  LocalCalm' /\ UNCHANGED <<pg, redis>>
  BY <1>2, <1>5 DEF Update, Maybe
<1>6. ASSUME NEW i \in Ids, Delete(p, t, i)
      PROVE  LocalCalm' /\ UNCHANGED <<pg, redis>>
  BY <1>2, <1>6 DEF Delete, Maybe
<1>7. CASE List(p, t)
  <2> DEFINE r == New(p, "list", Absent, Absent)
  <2>1. r \in Request /\ r.proc = p
    BY <1>0, IdleGood DEF New, Good, Request, Idle, Maybe, AllOps, TInv, TypeOK
  <2>2. r.row \in Maybe(Titled) /\ r.ctx \in Maybe(Titled)
    BY <1>1 DEF AllOps, Maybe
  <2>3. /\ GoTo(t, r, "pgList") \/ GoTo(t, r, "rdKeys") \/ ListMemory(t, r)
        /\ UNCHANGED <<cache, memory, pg, redis>>
    BY <1>7 DEF List
  <2> HIDE DEF r
  <2>4. \A u \in Tasks : Calm(task'[u])
    BY <2>1, <2>2, <2>3, GoToCalm, ListMemoryCalm
  <2> QED
    BY <2>3, <2>4 DEF EInv, LocalCalm
<1> QED
  BY <1>3, <1>4, <1>5, <1>6, <1>7 DEF Arrive

(* What EInv says of a request that waits at a given point.                *)
LEMMA WaitingTitled ==
  ASSUME EInv, NEW t \in Tasks, task[t].pc # "idle"
  PROVE  LET r == task[t]
         IN /\ r.row \in Maybe(Titled) /\ r.ctx \in Maybe(Titled)
            /\ r.pc \in {"pgRead", "rdRead", "got"} => ReadsTitled(r)
            /\ r.pc \in {"pgSelect", "pgWrite", "rdWrite", "memory"} => WritesTitled(r)
<1> DEFINE r == task[t]
<1>1. TInv /\ Calm(r)
  BY DEF EInv, LocalCalm
<1>2. r.row \in Maybe(Titled) /\ r.ctx \in Maybe(Titled)
  BY <1>1 DEF Calm
<1>3. ASSUME r.pc \in {"pgRead", "rdRead", "got"}
      PROVE  ReadsTitled(r)
  BY <1>1, <1>2, <1>3, Waiting DEF ReadsTitled
<1>4. ASSUME r.pc \in {"pgSelect", "pgWrite", "rdWrite", "memory"}
      PROVE  WritesTitled(r)
  <2>1. Writing(r)
    BY <1>1, <1>4, Waiting
  <2>2. r.op # "delete" => r.ctx \in Context /\ r.ctx # Absent
    BY <2>1, StorageAssumption DEF Writing
  <2> QED
    BY <1>2, <2>1, <2>2 DEF WritesTitled, Maybe
<1> QED
  BY <1>2, <1>3, <1>4

LEMMA ReadsCalm ==
  ASSUME EInv, TitlesKept, NEW t \in Tasks,
         PgRead(t) \/ PgReadFails(t) \/ RdRead(t) \/ RdReadFails(t) \/ Resume(t)
  PROVE  LocalCalm' /\ UNCHANGED <<pg, redis>>
<1> DEFINE r == task[t]
<1>0. r.pc \in {"pgRead", "rdRead", "got"} /\ UNCHANGED <<pg, redis>>
  BY DEF PgRead, PgReadFails, RdRead, RdReadFails, Resume, At, Stores
<1> SUFFICES LocalCalm'
  BY <1>0
<1>1. ReadsTitled(r) /\ r \in Request /\ r.id \in Ids
  <2>1. ReadsTitled(r)
    BY <1>0, WaitingTitled
  <2> QED
    BY <2>1 DEF ReadsTitled, Serving
<1>2. ASSUME NEW c \in Maybe(Titled), GoTo(t, [r EXCEPT !.row = c], "got"),
             UNCHANGED <<cache, memory>>
      PROVE  LocalCalm'
  <2> DEFINE n == [r EXCEPT !.row = c]
  <2>1. n \in Request /\ n.row \in Maybe(Titled) /\ n.ctx \in Maybe(Titled)
    BY <1>1, TitledFacts DEF ReadsTitled, Request, Maybe
  <2> HIDE DEF n
  <2>2. \A u \in Tasks : Calm(task'[u])
    BY <1>2, <2>1, GoToCalm DEF n
  <2> QED
    BY <1>2, <2>2 DEF EInv, LocalCalm
<1>3. CASE PgRead(t)
  BY <1>1, <1>2, <1>3 DEF PgRead, EInv
<1>4. CASE RdRead(t)
  BY <1>1, <1>2, <1>4 DEF RdRead, EInv
<1>5. CASE PgReadFails(t)
  <2>1. CASE GoTo(t, r, "rdRead") /\ UNCHANGED <<cache, memory>>
    <3>1. \A u \in Tasks : Calm(task'[u])
      BY <1>1, <2>1, GoToCalm DEF ReadsTitled
    <3> QED
      BY <2>1, <3>1 DEF EInv, LocalCalm
  <2> QED
    BY <1>1, <1>5, <2>1, FromMemoryCalm DEF PgReadFails
<1>6. CASE RdReadFails(t)
  BY <1>1, <1>6, FromMemoryCalm DEF RdReadFails
<1>7. CASE Resume(t)
  <2>1. CASE Stop(t, r, "none")
    BY <2>1, StopCalm
  <2>2. CASE r.row # Absent /\ Proceed(t, [r EXCEPT !.row = Absent], r.row, TRUE)
    <3> DEFINE n == [r EXCEPT !.row = Absent]
    <3>1. ReadsTitled(n)
      BY <1>1 DEF ReadsTitled, Serving, Request, Maybe
    <3>2. r.row \in Titled
      BY <1>1, <2>2 DEF ReadsTitled, Maybe
    <3> HIDE DEF n
    <3> QED
      BY <2>2, <3>1, <3>2, ProceedCalm DEF n
  <2> QED
    BY <1>7, <2>1, <2>2 DEF Resume
<1> QED
  BY <1>3, <1>4, <1>5, <1>6, <1>7

LEMMA MergedTitled ==
  ASSUME NEW c \in Maybe(Titled), NEW old, NEW new \in Titled
  PROVE  Merged(c, old, new) \in Maybe(Titled)
<1>1. CASE old # Absent /\ c # Absent
  <2>1. c.title \in Titles /\ new.title \in Titles /\ c.done \in BOOLEAN /\ new.done \in BOOLEAN
    BY <1>1 DEF Maybe, Titled
  <2>2. /\ (IF new.done = old.done THEN c.done ELSE new.done) \in {c.done, new.done}
        /\ (IF new.title = old.title THEN c.title ELSE new.title) \in {c.title, new.title}
    OBVIOUS
  <2>3. /\ (IF new.done = old.done THEN c.done ELSE new.done) \in BOOLEAN
        /\ (IF new.title = old.title THEN c.title ELSE new.title) \in Titles
    BY <2>1, <2>2
  <2>4. [title |-> IF new.title = old.title THEN c.title ELSE new.title,
         done  |-> IF new.done = old.done THEN c.done ELSE new.done] \in Titled
    BY <2>3 DEF Titled
  <2> QED
    BY <1>1, <2>4 DEF Merged, Maybe
<1>2. CASE old = Absent \/ c = Absent
  BY <1>2 DEF Merged, Maybe
<1> QED
  BY <1>1, <1>2

LEMMA AfterPgCalm ==
  ASSUME EInv, NEW t \in Tasks, NEW r, WritesTitled(r), AfterPg(t, r)
  PROVE  \A u \in Tasks : Calm(task'[u])
<1> DEFINE n == [r EXCEPT !.row = Absent]
<1>1. n \in Request /\ n.row \in Maybe(Titled) /\ n.ctx \in Maybe(Titled)
  BY DEF WritesTitled, Writing, Serving, Request, Maybe
<1>2. \E pc \in {"rdWrite", "memory"} : GoTo(t, n, pc)
  BY DEF AfterPg
<1> HIDE DEF n
<1> QED
  BY <1>1, <1>2, GoToCalm

LEMMA WritesCalm ==
  ASSUME EInv, TitlesKept, NEW t \in Tasks,
         \/ PgSelect(t) \/ PgSelectFails(t) \/ PgWrite(t) \/ PgWriteFails(t)
         \/ RdWrite(t) \/ RdWriteFails(t) \/ Finish(t)
  PROVE  LocalCalm' /\ pg' \in [Ids -> Maybe(Titled)] /\ redis' \in [Ids -> Maybe(Titled)]
<1> DEFINE r == task[t]
           Calmly == \A u \in Tasks : Calm(task'[u])
<1>0. /\ WritesTitled(r) /\ r \in Request /\ r.id \in Ids
      /\ r.row \in Maybe(Titled) /\ r.ctx \in Maybe(Titled)
  <2>1. r.pc \in {"pgSelect", "pgWrite", "rdWrite", "memory"}
    BY DEF PgSelect, PgSelectFails, PgWrite, PgWriteFails, RdWrite, RdWriteFails, Finish, At
  <2>2. WritesTitled(r)
    BY <2>1, WaitingTitled
  <2> QED
    BY <2>2 DEF WritesTitled, Writing, Serving
<1>1. CASE PgSelect(t)
  <2> DEFINE n == [r EXCEPT !.row = pg[r.id]]
  <2>1. WritesTitled(n) /\ n \in Request /\ n.row \in Maybe(Titled) /\ n.ctx \in Maybe(Titled)
    <3>1. pg[r.id] \in Maybe(Titled) /\ pg[r.id] \in Maybe(Context)
      BY <1>0, TitledFacts DEF EInv, Maybe
    <3> QED
      BY <1>0, <3>1 DEF WritesTitled, Writing, Serving, Request
  <2>2. AfterPg(t, n) \/ GoTo(t, n, "pgWrite")
    BY <1>1 DEF PgSelect
  <2> HIDE DEF n
  <2>3. Calmly
    BY <2>1, <2>2, AfterPgCalm, GoToCalm
  <2> QED
    BY <1>1, <2>3 DEF PgSelect, Stores, EInv, LocalCalm
<1>2. CASE PgSelectFails(t) \/ PgWriteFails(t)
  <2>1. Calmly
    BY <1>0, <1>2, AfterPgCalm DEF PgSelectFails, PgWriteFails
  <2> QED
    BY <1>2, <2>1 DEF PgSelectFails, PgWriteFails, Stores, EInv, LocalCalm
<1>3. CASE PgWrite(t)
  <2>1. Calmly
    BY <1>0, <1>3, AfterPgCalm DEF PgWrite
  <2>2. (IF r.op = "delete" THEN Absent ELSE Merged(pg[r.id], r.row, r.ctx)) \in Maybe(Titled)
    <3>1. CASE r.op = "delete"
      BY <3>1 DEF Maybe
    <3>2. CASE r.op # "delete"
      BY <1>0, <3>2, MergedTitled DEF WritesTitled, EInv
    <3> QED
      BY <3>1, <3>2
  <2>3. pg' = [pg EXCEPT ![r.id] = IF r.op = "delete" THEN Absent
                                   ELSE Merged(pg[r.id], r.row, r.ctx)]
    BY <1>3 DEF PgWrite
  <2>4. pg' \in [Ids -> Maybe(Titled)]
    BY <2>2, <2>3 DEF EInv
  <2> QED
    BY <1>3, <2>1, <2>4 DEF PgWrite, EInv, LocalCalm
<1>4. Overwritten(r) \in [Ids -> Maybe(Titled)]
  BY <1>0 DEF Overwritten, WritesTitled, EInv, Maybe
<1>5. CASE RdWrite(t)
  <2>1. Calmly
    BY <1>0, <1>5, GoToCalm DEF RdWrite
  <2> QED
    BY <1>4, <1>5, <2>1 DEF RdWrite, EInv, LocalCalm
<1>6. CASE RdWriteFails(t)
  <2> DEFINE n == [r EXCEPT !.tries = @ + 1]
  <2>1. r.tries \in 0 .. Retries /\ r.tries < Retries
    <3>1. r.pc = "rdWrite" /\ TInv
      BY <1>6 DEF RdWriteFails, At, EInv
    <3> QED
      BY <1>0, <3>1, Waiting DEF Request
  <2>2. /\ n \in Request /\ n.row \in Maybe(Titled) /\ n.ctx \in Maybe(Titled)
        /\ Overwritten(n) = Overwritten(r)
    BY <1>0, <2>1, StorageAssumption DEF Request, Overwritten
  <2>3. /\ \E pc \in {"rdWrite", "memory"} : GoTo(t, n, pc)
        /\ redis' \in {redis, Overwritten(n)} /\ UNCHANGED <<cache, memory, pg>>
    BY <1>6 DEF RdWriteFails
  <2> HIDE DEF n
  <2>4. Calmly
    BY <2>2, <2>3, GoToCalm
  <2> QED
    BY <1>4, <2>2, <2>3, <2>4 DEF EInv, LocalCalm
<1>7. CASE Finish(t)
  <2>1. memory' \in [Procs -> [Ids -> Maybe(Titled)]] /\ Calmly
    BY <1>0, <1>7, ConcludeCalm DEF Finish
  <2> QED
    BY <1>7, <2>1 DEF Finish, Stores, EInv, LocalCalm
<1> QED
  BY <1>1, <1>2, <1>3, <1>5, <1>6, <1>7

LEMMA ListsCalm ==
  ASSUME EInv, NEW t \in Tasks,
         PgList(t) \/ PgListFails(t) \/ RdKeys(t) \/ RdKeysFails(t) \/ RdScan(t) \/ RdScanned(t)
  PROVE  LocalCalm' /\ UNCHANGED <<pg, redis>>
<1> DEFINE r == task[t]
           Calmly == \A u \in Tasks : Calm(task'[u])
<1>0. /\ r \in Request /\ r.proc \in Procs
      /\ r.row \in Maybe(Titled) /\ r.ctx \in Maybe(Titled)
      /\ UNCHANGED <<cache, memory, pg, redis>>
  <2>1. r.pc # "idle" /\ UNCHANGED <<cache, memory, pg, redis>> /\ TInv
    BY DEF PgList, PgListFails, RdKeys, RdKeysFails, RdScan, RdScanned, At, Stores, EInv
  <2> QED
    BY <2>1, Waiting, WaitingTitled
<1>1. Calmly
  <2>1. CASE PgList(t) \/ RdScanned(t)
    <3>1. \E S : Answer(t, r, "listed", S)
      BY <2>1 DEF PgList, RdScanned
    <3> QED
      BY <3>1, AnswerCalm
  <2>2. CASE PgListFails(t)
    BY <1>0, <2>2, GoToCalm, ListMemoryCalm DEF PgListFails
  <2>3. CASE RdKeys(t)
    <3> DEFINE n == [r EXCEPT !.todo = {i \in Ids : redis[i] # Absent}]
    <3>1. /\ n \in Request /\ n.row \in Maybe(Titled) /\ n.ctx \in Maybe(Titled)
          /\ GoTo(t, n, "rdScan")
      BY <1>0, <2>3 DEF RdKeys, Request
    <3> HIDE DEF n
    <3> QED
      BY <3>1, GoToCalm
  <2>4. CASE RdKeysFails(t)
    BY <1>0, <2>4, ListMemoryCalm DEF RdKeysFails
  <2>5. CASE RdScan(t)
    <3> DEFINE m(i) == [r EXCEPT !.todo = @ \ {i}]
               k(i) == [m(i) EXCEPT !.acc = @ \union {i}]
               same(i) == [m(i) EXCEPT !.acc = @]
    <3>1. PICK i \in r.todo : \/ GoTo(t, [m(i) EXCEPT !.acc =
                                   IF redis[i] # Absent /\ Valid(redis[i])
                                   THEN @ \union {i} ELSE @], "rdScan")
                              \/ GoTo(t, m(i), "rdScan")
      BY <2>5 DEF RdScan
    <3>2. GoTo(t, k(i), "rdScan") \/ GoTo(t, same(i), "rdScan") \/ GoTo(t, m(i), "rdScan")
      BY <3>1
    <3>3. i \in Ids
      BY <1>0, <3>1 DEF Request
    <3>4. m(i) \in Request /\ m(i).row \in Maybe(Titled) /\ m(i).ctx \in Maybe(Titled)
      BY <1>0 DEF Request
    <3>5. k(i) \in Request /\ k(i).row \in Maybe(Titled) /\ k(i).ctx \in Maybe(Titled)
      BY <1>0, <3>3 DEF Request
    <3>6. same(i) \in Request /\ same(i).row \in Maybe(Titled) /\ same(i).ctx \in Maybe(Titled)
      BY <1>0 DEF Request
    <3> HIDE DEF m, k, same
    <3> QED
      BY <3>2, <3>4, <3>5, <3>6, GoToCalm
  <2> QED
    BY <2>1, <2>2, <2>3, <2>4, <2>5
<1> QED
  BY <1>0, <1>1 DEF EInv, LocalCalm

LEMMA NextCalm == TitlesKept /\ EInv /\ [Next]_vars => EInv'
<1> SUFFICES ASSUME TitlesKept, EInv, [Next]_vars
             PROVE  EInv'
  OBVIOUS
<1>0. TInv'
  BY NextTyped DEF EInv
<1> DEFINE Rest == /\ LocalCalm
                   /\ pg \in [Ids -> Maybe(Titled)]
                   /\ redis \in [Ids -> Maybe(Titled)]
<1> SUFFICES Rest'
  BY <1>0 DEF EInv
<1>1. ASSUME NEW p \in Procs, NEW t \in Tasks, Arrive(p, t)
      PROVE  Rest'
  BY <1>1, ArriveCalm DEF EInv
<1>2. ASSUME NEW t \in Tasks, Step(t)
      PROVE  Rest'
  <2>1. CASE Reply(t)
    <3>1. task' = [task EXCEPT ![t] = Idle] /\ UNCHANGED <<cache, memory, pg, redis>>
      BY <2>1 DEF Reply, Stores
    <3> QED
      BY <3>1, IdleCalm DEF EInv, LocalCalm, TInv, TypeOK
  <2>2. CASE PgRead(t) \/ PgReadFails(t) \/ RdRead(t) \/ RdReadFails(t) \/ Resume(t)
    BY <2>2, ReadsCalm DEF EInv
  <2>3. CASE \/ PgSelect(t) \/ PgSelectFails(t) \/ PgWrite(t) \/ PgWriteFails(t)
             \/ RdWrite(t) \/ RdWriteFails(t) \/ Finish(t)
    BY <2>3, WritesCalm
  <2>4. CASE \/ PgList(t) \/ PgListFails(t) \/ RdKeys(t) \/ RdKeysFails(t)
             \/ RdScan(t) \/ RdScanned(t)
    BY <2>4, ListsCalm DEF EInv
  <2> QED
    BY <1>2, <2>1, <2>2, <2>3, <2>4 DEF Step
<1>3. ASSUME NEW p \in Procs, NEW i \in Ids, Forget(p, i)
      PROVE  Rest'
  BY <1>3 DEF Forget, Stores, EInv, LocalCalm, Maybe
<1>4. ASSUME NEW p \in Procs, Restart(p)
      PROVE  Rest'
  <2>1. \A u \in Tasks : task'[u] \in {Idle, task[u]}
    BY <1>4 DEF Restart
  <2>2. UNCHANGED <<pg, redis>>
    BY <1>4 DEF Restart, Stores
  <2>3. \A u \in Tasks : Calm(task'[u])
    BY <2>1, IdleCalm DEF EInv, LocalCalm
  <2>4. /\ cache' \in [Procs -> [Ids -> Maybe(Titled)]]
        /\ memory' \in [Procs -> [Ids -> Maybe(Titled)]]
    BY <1>4 DEF Restart, Empty, Maybe, EInv, LocalCalm
  <2> QED
    BY <2>2, <2>3, <2>4 DEF EInv, LocalCalm
<1>5. CASE UNCHANGED vars
  BY <1>5 DEF vars, EInv, LocalCalm
<1> QED
  BY <1>1, <1>2, <1>3, <1>4, <1>5 DEF Next

LEMMA InitCalm == Init => EInv
<1> SUFFICES ASSUME Init
             PROVE  EInv
  OBVIOUS
<1>1. TInv
  BY InitTyped
<1>2. \A u \in Tasks : Calm(task[u])
  BY IdleCalm DEF Init
<1> QED
  BY <1>1, <1>2 DEF Init, EInv, LocalCalm, Empty, Maybe

(* A backend's failure is never the client's: whichever calls fail, at     *)
(* whatever point, and whoever restarts, no request for a context ends in  *)
(* an error, as long as no PUT nulls a title.                              *)
THEOREM ErrorsAreContained == ASSUME TitlesKept PROVE Spec => []NoErrorSurfaces
<1>1. EInv => NoErrorSurfaces
  BY DEF EInv, LocalCalm, Calm, NoErrorSurfaces, At
<1>2. EInv /\ [Next]_vars => EInv'
  BY NextCalm
<1> QED
  BY <1>1, <1>2, InitCalm, PTL DEF Spec
-----------------------------------------------------------------------------
(* The part of Answered that needs no fairness: a request has only so many *)
(* suspensions before it, and each step of its coroutine leaves fewer.     *)
Left(r) == CASE r.pc = "pgRead"   -> Retries + 6
             [] r.pc = "rdRead"   -> Retries + 5
             [] r.pc = "got"      -> Retries + 4
             [] r.pc = "pgSelect" -> Retries + 3
             [] r.pc = "pgWrite"  -> Retries + 2
             [] r.pc = "rdWrite"  -> Retries + 1 - r.tries
             [] r.pc = "memory"   -> 1
             [] r.pc = "pgList"   -> Cardinality(Ids) + 3
             [] r.pc = "rdKeys"   -> Cardinality(Ids) + 2
             [] r.pc = "rdScan"   -> Cardinality(r.todo) + 1
             [] OTHER             -> 0

(* Every step of a request takes it nearer to its response, and only the   *)
(* response or the end of its process takes it away: no fallback leads     *)
(* back, no retry starts over, no listing finds new keys to fetch.         *)
StepsRunOut == [][\A t \in Tasks : task[t].pc # "idle" /\ task'[t] # task[t] =>
                    task'[t].pc = "idle" \/ Left(task'[t]) \in 0 .. Left(task[t]) - 1]_vars

Nears(t, k) == \E n : task' = [task EXCEPT ![t] = n] /\ Left(n) < k

(* What Left looks at.                                                     *)
Counts(r) == {"pc", "tries", "todo"} \subseteq DOMAIN r /\ r.tries \in 0 .. Retries

LEMMA LeftTyped ==
  ASSUME IsFiniteSet(Ids), NEW r \in Request, Shape(r)
  PROVE  Left(r) \in Nat
<1>1. Cardinality(r.todo) \in Nat /\ Cardinality(Ids) \in Nat
  BY FS_Subset, FS_CardinalityType DEF Request
<1>2. Retries \in Nat /\ r.tries \in 0 .. Retries
  BY StorageAssumption DEF Request
<1> QED
  BY <1>1, <1>2 DEF Left

LEMMA AnswerNears ==
  ASSUME NEW t \in Tasks, NEW r, NEW kind, NEW body, Answer(t, r, kind, body), NEW k \in Nat, k > 0
  PROVE  Nears(t, k)
<1> DEFINE n == [Idle EXCEPT !.pc = "done", !.proc = r.proc, !.op = r.op, !.id = r.id,
                             !.before = r.before, !.res = [kind |-> kind, body |-> body]]
<1>1. n.pc = "done" /\ task' = [task EXCEPT ![t] = n]
  BY DEF Answer, Idle
<1>2. Left(n) = 0
  BY <1>1 DEF Left
<1> HIDE DEF n
<1> QED
  BY <1>1, <1>2 DEF Nears

LEMMA GoToNears ==
  ASSUME NEW t \in Tasks, NEW r, Counts(r), NEW pc, GoTo(t, r, pc), NEW k \in Nat,
         \/ pc = "memory" /\ k > 1
         \/ pc = "rdWrite" /\ k > Retries + 1 - r.tries
         \/ pc = "pgWrite" /\ k > Retries + 2
         \/ pc = "pgSelect" /\ k > Retries + 3
         \/ pc = "got" /\ k > Retries + 4
         \/ pc = "rdRead" /\ k > Retries + 5
         \/ pc = "rdScan" /\ k > Cardinality(r.todo) + 1
         \/ pc = "rdKeys" /\ k > Cardinality(Ids) + 2
  PROVE  Nears(t, k)
<1> DEFINE n == [r EXCEPT !.pc = pc]
<1>1. n.pc = pc /\ n.tries = r.tries /\ n.todo = r.todo
  BY DEF Counts
<1>2. task' = [task EXCEPT ![t] = n]
  BY DEF GoTo
<1> HIDE DEF n
<1> QED
  BY <1>1, <1>2 DEF Nears, Left

LEMMA WriteNears ==
  ASSUME NEW t \in Tasks, NEW r, Counts(r), NEW k \in Nat,
         \/ Conclude(t, r) /\ k > 0
         \/ AfterPg(t, r) /\ k > Retries + 1
         \/ Write(t, r) /\ k > Retries + 3
  PROVE  Nears(t, k)
<1>0. Retries \in Nat
  BY StorageAssumption
<1>1. ASSUME Conclude(t, r), k > 0
      PROVE  Nears(t, k)
  BY <1>1, AnswerNears DEF Conclude
<1>2. CASE AfterPg(t, r) /\ k > Retries + 1
  <2> DEFINE n == [r EXCEPT !.row = Absent]
  <2>1. Counts(n)
    BY DEF Counts
  <2>2. \E pc \in {"rdWrite", "memory"} : GoTo(t, n, pc)
    BY <1>2 DEF AfterPg
  <2>3. k > Retries + 1 - n.tries /\ k > 1
    BY <1>0, <1>2, <2>1 DEF Counts
  <2> HIDE DEF n
  <2> QED
    BY <2>1, <2>2, <2>3, GoToNears
<1>3. CASE Write(t, r) /\ k > Retries + 3
  <2>1. k > 0 /\ k > Retries + 1 - r.tries
    BY <1>0, <1>3 DEF Counts
  <2> QED
    BY <1>1, <1>3, <2>1, GoToNears DEF Write
<1> QED
  BY <1>1, <1>2, <1>3

LEMMA ReadNears ==
  ASSUME NEW t \in Tasks, NEW r, Counts(r), NEW k \in Nat, k > Retries + 3,
         \/ \E c, fill : Proceed(t, r, c, fill)
         \/ FromMemory(t, r)
  PROVE  Nears(t, k)
<1>0. k > 0
  BY StorageAssumption
<1>1. ASSUME NEW c, NEW fill, Proceed(t, r, c, fill)
      PROVE  Nears(t, k)
  <2>1. CASE Answer(t, r, "found", c)
    BY <1>0, <2>1, AnswerNears
  <2>2. CASE Write(t, r)
    BY <2>2, WriteNears
  <2>3. CASE Write(t, [r EXCEPT !.ctx = Patched(c, r.arg)])
    <3> DEFINE n == [r EXCEPT !.ctx = Patched(c, r.arg)]
    <3>1. Counts(n)
      BY DEF Counts
    <3> HIDE DEF n
    <3> QED
      BY <2>3, <3>1, WriteNears DEF n
  <2> QED
    BY <1>1, <2>1, <2>2, <2>3 DEF Proceed
<1>2. ASSUME FromMemory(t, r)
      PROVE  Nears(t, k)
  <2>1. \/ \E kind : Answer(t, r, kind, Absent)
        \/ Proceed(t, r, memory[r.proc][r.id], FALSE)
    BY <1>2 DEF FromMemory, Stop
  <2> QED
    BY <1>0, <1>1, <2>1, AnswerNears
<1> QED
  BY <1>1, <1>2

LEMMA StepNears ==
  ASSUME TInv, IsFiniteSet(Ids), NEW t \in Tasks, Step(t), ~Reply(t)
  PROVE  Nears(t, Left(task[t]))
<1> DEFINE r == task[t]
           k == Left(r)
<1>1. r \in Request /\ Shape(r) /\ Counts(r) /\ Retries \in Nat
  BY StorageAssumption DEF TInv, TypeOK, Request, Counts
<1>2. k \in Nat /\ Cardinality(Ids) \in Nat /\ IsFiniteSet(r.todo) /\ Cardinality(r.todo) \in Nat
  BY <1>1, LeftTyped, FS_Subset, FS_CardinalityType DEF Request
<1>3. \A c : Counts([r EXCEPT !.row = c])
  BY <1>1 DEF Request, Counts
<1>4. CASE PgRead(t) \/ PgReadFails(t) \/ RdRead(t) \/ RdReadFails(t) \/ Resume(t)
  <2>1. /\ r.pc \in {"pgRead", "rdRead", "got"}
        /\ k = CASE r.pc = "pgRead" -> Retries + 6 [] r.pc = "rdRead" -> Retries + 5
                  [] r.pc = "got" -> Retries + 4
    BY <1>4 DEF Left, PgRead, PgReadFails, RdRead, RdReadFails, Resume, At
  <2>2. \/ r.pc # "got" /\ \E c : GoTo(t, [r EXCEPT !.row = c], "got")
        \/ r.pc = "pgRead" /\ GoTo(t, r, "rdRead")
        \/ FromMemory(t, r)
        \/ Answer(t, r, "none", Absent)
        \/ Proceed(t, [r EXCEPT !.row = Absent], r.row, TRUE)
    BY <1>4 DEF PgRead, PgReadFails, RdRead, RdReadFails, Resume, Stop, At
  <2> HIDE DEF k
  <2>3. k \in Nat /\ k > Retries + 3 /\ k > 0
    BY <1>1, <2>1
  <2>4. ASSUME NEW c, r.pc # "got", GoTo(t, [r EXCEPT !.row = c], "got")
        PROVE  Nears(t, k)
    BY <1>1, <1>3, <2>1, <2>4, GoToNears
  <2>5. ASSUME r.pc = "pgRead", GoTo(t, r, "rdRead")
        PROVE  Nears(t, k)
    BY <1>1, <2>1, <2>5, GoToNears
  <2>6. ASSUME Proceed(t, [r EXCEPT !.row = Absent], r.row, TRUE)
        PROVE  Nears(t, k)
    BY <1>3, <2>3, <2>6, ReadNears
  <2> QED
    BY <1>1, <2>2, <2>3, <2>4, <2>5, <2>6, AnswerNears, ReadNears DEF k
<1>5. CASE PgSelect(t) \/ PgSelectFails(t) \/ PgWrite(t) \/ PgWriteFails(t) \/ Finish(t)
  <2>1. /\ r.pc \in {"pgSelect", "pgWrite", "memory"}
        /\ k = CASE r.pc = "pgSelect" -> Retries + 3 [] r.pc = "pgWrite" -> Retries + 2
                  [] r.pc = "memory" -> 1
    BY <1>5 DEF Left, PgSelect, PgSelectFails, PgWrite, PgWriteFails, Finish, At
  <2>2. \/ r.pc # "memory" /\ AfterPg(t, r)
        \/ r.pc # "memory" /\ AfterPg(t, [r EXCEPT !.row = pg[r.id]])
        \/ r.pc = "pgSelect" /\ GoTo(t, [r EXCEPT !.row = pg[r.id]], "pgWrite")
        \/ Conclude(t, r)
    BY <1>5 DEF PgSelect, PgSelectFails, PgWrite, PgWriteFails, Finish, At
  <2> HIDE DEF k
  <2>3. ASSUME NEW n, Counts(n), r.pc # "memory", AfterPg(t, n)
        PROVE  Nears(t, k)
    BY <1>1, <2>1, <2>3, WriteNears
  <2>4. ASSUME r.pc = "pgSelect", GoTo(t, [r EXCEPT !.row = pg[r.id]], "pgWrite")
        PROVE  Nears(t, k)
    BY <1>1, <1>3, <2>1, <2>4, GoToNears
  <2>5. ASSUME Conclude(t, r)
        PROVE  Nears(t, k)
    BY <1>1, <2>1, <2>5, WriteNears
  <2> QED
    BY <1>1, <1>3, <2>2, <2>3, <2>4, <2>5 DEF k
<1>6. CASE RdWrite(t)
  <2>1. r.pc = "rdWrite" /\ GoTo(t, r, "memory") /\ r.tries \in 0 .. Retries /\ r.tries < Retries
    BY <1>1, <1>6 DEF RdWrite, At, Shape, Counts
  <2>2. k = Retries + 1 - r.tries
    BY <2>1 DEF Left
  <2>3. k > 1
    BY <1>1, <2>1, <2>2
  <2> QED
    BY <1>1, <1>2, <2>1, <2>3, GoToNears
<1>7. CASE RdWriteFails(t)
  <2> DEFINE n == [r EXCEPT !.tries = @ + 1]
  <2>1. /\ r.pc = "rdWrite" /\ r.tries < Retries
        /\ GoTo(t, n, IF n.tries < Retries THEN "rdWrite" ELSE "memory")
    BY <1>1, <1>7 DEF RdWriteFails, At, Shape
  <2>2. n.tries = r.tries + 1 /\ Counts(n)
    BY <1>1, <2>1 DEF Request, Counts
  <2>3. k = Retries + 1 - r.tries
    BY <2>1 DEF Left
  <2>4. k > Retries + 1 - n.tries /\ k > 1
    BY <1>1, <2>1, <2>2, <2>3 DEF Counts
  <2> HIDE DEF n, k
  <2> QED
    BY <1>2, <2>1, <2>2, <2>4, GoToNears DEF k
<1>8. CASE PgList(t) \/ PgListFails(t) \/ RdKeysFails(t) \/ RdScanned(t)
  <2>1. \/ k > 0 /\ \E kind, body : Answer(t, r, kind, body)
        \/ k > Cardinality(Ids) + 2 /\ GoTo(t, r, "rdKeys")
    BY <1>2, <1>8 DEF Left, PgList, PgListFails, RdKeysFails, RdScanned, ListMemory, At
  <2> QED
    BY <1>1, <1>2, <2>1, GoToNears, AnswerNears
<1>9. CASE RdKeys(t)
  <2> DEFINE keys == {i \in Ids : redis[i] # Absent}
             n == [r EXCEPT !.todo = keys]
  <2>1. n.todo = keys /\ Counts(n)
    BY <1>1 DEF Request, Counts
  <2>2. Cardinality(keys) \in Nat /\ Cardinality(keys) <= Cardinality(Ids)
    BY FS_Subset, FS_CardinalityType
  <2>3. k = Cardinality(Ids) + 2 /\ GoTo(t, n, "rdScan")
    BY <1>9 DEF Left, RdKeys, At
  <2> HIDE DEF n, keys
  <2>4. k > Cardinality(n.todo) + 1
    BY <1>2, <2>1, <2>2, <2>3
  <2> QED
    BY <1>2, <2>1, <2>3, <2>4, GoToNears
<1>10. CASE RdScan(t)
  <2>1. r.pc = "rdScan" /\ k = Cardinality(r.todo) + 1
    BY <1>10 DEF Left, RdScan, At
  <2>2. PICK i \in r.todo :
          LET m == [r EXCEPT !.todo = @ \ {i}]
          IN (\E a : GoTo(t, [m EXCEPT !.acc = a], "rdScan")) \/ GoTo(t, m, "rdScan")
    <3>1. PICK i \in r.todo :
            LET got == redis[i] # Absent /\ Valid(redis[i])
                m == [r EXCEPT !.todo = @ \ {i}]
            IN \/ GoTo(t, [m EXCEPT !.acc = IF got THEN @ \union {i} ELSE @], "rdScan")
               \/ GoTo(t, m, "rdScan")
      BY <1>10 DEF RdScan
    <3>2. [r EXCEPT !.todo = @ \ {i}].acc = r.acc
      BY <1>1 DEF Request
    <3> QED
      BY <3>1, <3>2
  <2> DEFINE m == [r EXCEPT !.todo = @ \ {i}]
             n(a) == [m EXCEPT !.acc = a]
  <2>3. m.todo = r.todo \ {i} /\ Counts(m)
    BY <1>1 DEF Request, Counts
  <2>4. \A a : n(a).todo = m.todo /\ Counts(n(a))
    BY <2>3 DEF Counts
  <2>5. (\E a : GoTo(t, n(a), "rdScan")) \/ GoTo(t, m, "rdScan")
    BY <2>2
  <2>6. Cardinality(r.todo \ {i}) = Cardinality(r.todo) - 1
    BY <1>2, FS_RemoveElement
  <2> HIDE DEF m, n
  <2>7. k > Cardinality(m.todo) + 1
    BY <1>2, <2>1, <2>3, <2>6
  <2>8. ASSUME NEW a, GoTo(t, n(a), "rdScan")
        PROVE  Nears(t, k)
    BY <1>2, <2>4, <2>7, <2>8, GoToNears
  <2> QED
    BY <1>2, <2>3, <2>5, <2>7, <2>8, GoToNears
<1> QED
  BY <1>4, <1>5, <1>6, <1>7, <1>8, <1>9, <1>10 DEF Step

(* Whatever arrives, it is for the task it is given.                       *)
LEMMA ArriveAside ==
  ASSUME NEW p \in Procs, NEW t \in Tasks, Arrive(p, t), task \in [Tasks -> Request]
  PROVE  task[t].pc = "idle" /\ \A u \in Tasks \ {t} : task'[u] = task[u]
<1> DEFINE Aside == \A u \in Tasks \ {t} : task'[u] = task[u]
<1>1. ASSUME NEW r, \/ \E kind, body : Answer(t, r, kind, body)
                    \/ \E pc : GoTo(t, r, pc)
      PROVE  Aside
  BY <1>1 DEF Answer, GoTo
<1> HIDE DEF Aside
<1>2. ASSUME NEW r, Conclude(t, r) \/ Write(t, r)
      PROVE  Aside
  BY <1>1, <1>2 DEF Conclude, Write
<1>3. ASSUME NEW r, NEW c, NEW fill, Proceed(t, r, c, fill)
      PROVE  Aside
  BY <1>1, <1>2, <1>3 DEF Proceed
<1>4. ASSUME NEW r, Read(t, r) \/ FromMemory(t, r)
      PROVE  Aside
  BY <1>1, <1>3, <1>4 DEF Read, FromMemory, Stop
<1>5. ASSUME NEW i \in Ids, NEW title \in Titles, Create(p, t, i, title)
      PROVE  task[t].pc = "idle" /\ Aside
  BY <1>2, <1>5 DEF Create
<1>6. ASSUME NEW i \in Ids, \/ Get(p, t, i)
                            \/ \E u \in Patches : Update(p, t, i, u)
                            \/ Delete(p, t, i)
      PROVE  task[t].pc = "idle" /\ Aside
  BY <1>4, <1>6 DEF Get, Update, Delete
<1>7. ASSUME List(p, t)
      PROVE  task[t].pc = "idle" /\ Aside
  <2> DEFINE r == New(p, "list", Absent, Absent)
  <2>1. /\ task[t].pc = "idle"
        /\ (\E pc : GoTo(t, r, pc)) \/ \E kind, body : Answer(t, r, kind, body)
    BY <1>7 DEF List, ListMemory
  <2> QED
    BY <1>1, <2>1
<1> QED
  BY <1>5, <1>6, <1>7 DEF Arrive, Aside

(* A request for a context makes at most Retries + 6 steps until it is     *)
(* answered, and a listing three more than there are contexts: whatever    *)
(* fails, whoever restarts and whoever else is served in between.          *)
THEOREM RequestsRunOut == ASSUME IsFiniteSet(Ids) PROVE Spec => StepsRunOut
<1> DEFINE Fewer == \A t \in Tasks : task[t].pc # "idle" /\ task'[t] # task[t] =>
                      task'[t].pc = "idle" \/ Left(task'[t]) \in 0 .. Left(task[t]) - 1
<1>1. ASSUME TInv, [Next]_vars
      PROVE  [Fewer]_vars
  <2>1. TInv'
    BY <1>1, NextTyped
  <2>2. \A t \in Tasks : Left(task[t]) \in Nat /\ Left(task'[t]) \in Nat
    BY <1>1, <2>1, LeftTyped DEF TInv, TypeOK
  <2>3. ASSUME NEW p \in Procs, NEW t \in Tasks, Arrive(p, t)
        PROVE  Fewer
    <3>1. task[t].pc = "idle" /\ \A u \in Tasks \ {t} : task'[u] = task[u]
      BY <1>1, <2>3, ArriveAside DEF TInv, TypeOK
    <3> QED
      BY <3>1
  <2>4. ASSUME NEW t \in Tasks, Step(t), ~Reply(t)
        PROVE  Fewer
    <3>1. PICK n : task' = [task EXCEPT ![t] = n] /\ Left(n) < Left(task[t])
      BY <1>1, <2>4, StepNears DEF Nears
    <3>2. task'[t] = n /\ \A u \in Tasks \ {t} : task'[u] = task[u]
      BY <1>1, <3>1 DEF TInv, TypeOK
    <3>3. Left(task'[t]) \in 0 .. Left(task[t]) - 1
      BY <2>2, <3>1, <3>2
    <3> QED
      BY <3>2, <3>3
  <2>5. ASSUME NEW t \in Tasks, Reply(t)
        PROVE  Fewer
    BY <1>1, <2>5 DEF Reply, Idle, TInv, TypeOK
  <2>6. ASSUME NEW p \in Procs, Restart(p)
        PROVE  Fewer
    BY <2>6 DEF Restart, Idle
  <2>7. ASSUME NEW p \in Procs, NEW i \in Ids, Forget(p, i)
        PROVE  Fewer
    BY <2>7 DEF Forget
  <2> QED
    BY <1>1, <2>3, <2>4, <2>5, <2>6, <2>7 DEF Next
<1>2. TInv /\ [Next]_vars => TInv'
  BY NextTyped
<1> QED
  BY <1>1, <1>2, InitTyped, PTL DEF Spec, StepsRunOut
=============================================================================
