------------------------------- MODULE Storage -------------------------------
(***************************************************************************)
(* The context store of app/services/storage.py: StorageService over a     *)
(* local cache, PostgreSQL, Redis and a per-process dict.  Each process    *)
(* runs its requests as coroutines on one event loop, so the code between  *)
(* two awaits that suspend is one action; a call to PostgreSQL or Redis    *)
(* takes effect in an action of its own, and what the coroutine does once  *)
(* it resumes is another.                                                  *)
(*                                                                         *)
(* The cache is the map that may forget of LossyCache.  A context is its   *)
(* title and its done flag: description behaves as title does, and the     *)
(* timestamps are never read.                                              *)
(***************************************************************************)
EXTENDS Naturals, FiniteSets

CONSTANTS Procs,        \* server processes (pods, or uvicorn workers)
          Tasks,        \* requests in flight at once, over all processes
          Ids,          \* context ids: each create draws a fresh one (uuid4)
          Titles,       \* titles a client may send
          Patches,      \* PUT bodies: title and done, each possibly Unset
          Ops,          \* the operations clients use, of AllOps
          Null,         \* Python's None as a title
          Unset,        \* a field the PUT body leaves out (exclude_unset)
          Absent,       \* no context
          Configured,   \* backends the deployment configures, of Backends
          Optional,     \* those that may be unreachable when a process starts
          Faulty,       \* those whose calls may fail
          Retries,      \* settings.redis_retry_attempts
          Exclusive,    \* clients never overlap two requests for one context
          MaxRestarts   \* bound: process restarts in a behaviour

AllOps == {"create", "get", "update", "delete", "list"}
Backends == {"pg", "redis"}
Context == [title : Titles \union {Null}, done : BOOLEAN]
Status == {"free", "new", "live", "dying", "dead"}

ASSUME StorageAssumption ==
  /\ Patches \subseteq [title : Titles \union {Null, Unset}, done : BOOLEAN \union {Unset}]
  /\ Ops \subseteq AllOps
  /\ Configured \subseteq Backends
  /\ Optional \subseteq Configured
  /\ Faulty \subseteq Configured
  /\ Retries \in Nat \ {0}
  /\ Exclusive \in BOOLEAN
  /\ MaxRestarts \in Nat
  /\ Null \notin Titles
  /\ Unset \notin Titles \union {Null} \union BOOLEAN
  /\ Absent \notin Context

VARIABLES cache,     \* cache[p][i]: the local cache of process p
          memory,    \* memory[p][i]: InMemoryBackend._store of process p
          pg,        \* pg[i]: the row of table contexts, title NOT NULL
          redis,     \* redis[i]: the JSON under context:<id>
          conf,      \* conf[p]: the backends process p found at its start-up
          task,      \* task[t]: a request and the coroutine that serves it
          seen,      \* history: what the clients know of each id
          restarts   \* history: restarts so far

vars == <<cache, memory, pg, redis, conf, task, seen, restarts>>

Empty == [i \in Ids |-> Absent]

(* ContextResponse requires a title; ContextUpdate lets a client null it.  *)
Valid(c) == c.title # Null

Idle == [pc |-> "idle", proc |-> Absent, op |-> Absent, id |-> Absent,
         arg |-> Absent,                       \* the PUT body
         ctx |-> Absent,                       \* the context being written
         row |-> Absent,                       \* what PostgreSQL or Redis answered
         tries |-> 0,                          \* failed attempts at a Redis command
         todo |-> {},                          \* keys a Redis listing has yet to fetch
         acc |-> {},                           \* ids the listing has found
         before |-> [i \in Ids |-> "free"],    \* history: seen when the request began
         res |-> Absent]                       \* the response

(* Start-up tries every configured backend; a failure is logged and the    *)
(* process does without that backend for the rest of its life.             *)
Connected == {b \in SUBSET Configured : Configured \ Optional \subseteq b}

Init == /\ cache = [p \in Procs |-> Empty]
        /\ memory = [p \in Procs |-> Empty]
        /\ pg = Empty
        /\ redis = Empty
        /\ conf \in [Procs -> Connected]
        /\ task = [t \in Tasks |-> Idle]
        /\ seen = [i \in Ids |-> "free"]
        /\ restarts = 0

-----------------------------------------------------------------------------
(* The pieces of code that run between two suspensions.  r is the request  *)
(* as the code has it so far.                                              *)

(* The response is ready; the coroutine's other locals are of no more use. *)
Answer(t, r, kind, body) ==
  task' = [task EXCEPT ![t] = [Idle EXCEPT !.pc = "done", !.proc = r.proc, !.op = r.op,
                                           !.id = r.id, !.before = r.before,
                                           !.res = [kind |-> kind, body |-> body]]]

GoTo(t, r, pc) == task' = [task EXCEPT ![t] = [r EXCEPT !.pc = pc]]

Remember(r, c) == cache' = [cache EXCEPT ![r.proc][r.id] = c]

(* The end of create, update and delete: memory last, then the response,   *)
(* which cannot be built around a null title.                              *)
Conclude(t, r) ==
  IF r.op = "delete"
  THEN /\ memory' = [memory EXCEPT ![r.proc][r.id] = Absent]
       /\ Answer(t, r, "removed", Absent)
  ELSE /\ memory' = [memory EXCEPT ![r.proc][r.id] = r.ctx]
       /\ IF Valid(r.ctx) THEN Answer(t, r, "found", r.ctx) ELSE Answer(t, r, "error", Absent)

(* Mutant of Write: one backend is enough, PostgreSQL only without Redis.  *)
WriteOneBackend(t, r) ==
  IF conf[r.proc] = {}
  THEN Conclude(t, r)
  ELSE /\ GoTo(t, r, IF "redis" \in conf[r.proc] THEN "rdWrite" ELSE "pgSelect")
       /\ UNCHANGED memory

(* The write path: PG, then Redis, then memory, less what is unavailable.  *)
Write(t, r) ==
  IF conf[r.proc] = {}
  THEN Conclude(t, r)
  ELSE /\ GoTo(t, r, IF "pg" \in conf[r.proc] THEN "pgSelect" ELSE "rdWrite")
       /\ UNCHANGED memory

AfterPg(t, r) ==
  GoTo(t, [r EXCEPT !.row = Absent], IF "redis" \in conf[r.proc] THEN "rdWrite" ELSE "memory")

Patched(c, u) == [title |-> IF u.title = Unset THEN c.title ELSE u.title,
                  done  |-> IF u.done = Unset THEN c.done ELSE u.done]

(* Mutant of Proceed: a delete leaves its cache alone.                     *)
ProceedUncached(t, r, c, fill) ==
  \/ /\ r.op = "get"
     /\ Answer(t, r, "found", c)
     /\ IF fill THEN Remember(r, c) ELSE UNCHANGED cache
     /\ UNCHANGED memory
  \/ /\ r.op = "update"
     /\ Remember(r, Patched(c, r.arg))
     /\ Write(t, [r EXCEPT !.ctx = Patched(c, r.arg)])
  \/ /\ r.op = "delete"
     /\ UNCHANGED cache
     /\ Write(t, r)

(* The context was read, c; the operation goes on.  A get has the cache    *)
(* filled from a backend; update and delete touch the cache, then write.   *)
Proceed(t, r, c, fill) ==
  \/ /\ r.op = "get"
     /\ Answer(t, r, "found", c)
     /\ IF fill THEN Remember(r, c) ELSE UNCHANGED cache
     /\ UNCHANGED memory
  \/ /\ r.op = "update"
     /\ Remember(r, Patched(c, r.arg))
     /\ Write(t, [r EXCEPT !.ctx = Patched(c, r.arg)])
  \/ /\ r.op = "delete"
     /\ Remember(r, Absent)
     /\ Write(t, r)

Stop(t, r, kind) == Answer(t, r, kind, Absent) /\ UNCHANGED <<cache, memory>>

(* The last resort of a read: the dict of this process, not cached.        *)
FromMemory(t, r) ==
  LET c == memory[r.proc][r.id]
  IN IF c = Absent THEN Stop(t, r, "none")
     ELSE IF ~Valid(c) THEN Stop(t, r, "error")
     ELSE Proceed(t, r, c, FALSE)

(* StorageService.get, up to its first suspension.                         *)
Read(t, r) ==
  LET c == cache[r.proc][r.id]
      suspend(pc) == GoTo(t, r, pc) /\ UNCHANGED <<cache, memory>>
  IN IF c # Absent
     THEN IF Valid(c) THEN Proceed(t, r, c, FALSE) ELSE Stop(t, r, "error")
     ELSE IF "pg" \in conf[r.proc] THEN suspend("pgRead")
     ELSE IF "redis" \in conf[r.proc] THEN suspend("rdRead")
     ELSE FromMemory(t, r)

ListMemory(t, r) ==
  LET held == {i \in Ids : memory[r.proc][i] # Absent}
  IN IF \A i \in held : Valid(memory[r.proc][i])
     THEN Answer(t, r, "listed", held)
     ELSE Answer(t, r, "error", Absent)

-----------------------------------------------------------------------------
(* Requests arrive.                                                        *)

Free(i) == Exclusive => \A u \in Tasks : task[u].id # i

(* Ids are unguessable: a request names one that a response has shown, or  *)
(* that a listing could have.                                              *)
Known(i) == \/ seen[i] \notin {"free", "new"}
            \/ /\ seen[i] = "new"
               /\ \/ pg[i] # Absent
                  \/ redis[i] # Absent
                  \/ \E p \in Procs : memory[p][i] # Absent

New(p, op, i, u) == [Idle EXCEPT !.proc = p, !.op = op, !.id = i, !.arg = u, !.before = seen]

Create(p, t, i, title) ==
  LET c == [title |-> title, done |-> FALSE]
      r == [New(p, "create", i, Absent) EXCEPT !.ctx = c]
  IN /\ task[t].pc = "idle" /\ "create" \in Ops
     /\ seen[i] = "free"
     /\ seen' = [seen EXCEPT ![i] = "new"]
     /\ Remember(r, c)
     /\ Write(t, r)
     /\ UNCHANGED <<pg, redis, conf, restarts>>

Get(p, t, i) ==
  /\ task[t].pc = "idle" /\ "get" \in Ops
  /\ Known(i) /\ Free(i)
  /\ Read(t, New(p, "get", i, Absent))
  /\ UNCHANGED <<pg, redis, conf, seen, restarts>>

Update(p, t, i, u) ==
  /\ task[t].pc = "idle" /\ "update" \in Ops
  /\ Known(i) /\ Free(i)
  /\ Read(t, New(p, "update", i, u))
  /\ UNCHANGED <<pg, redis, conf, seen, restarts>>

Delete(p, t, i) ==
  /\ task[t].pc = "idle" /\ "delete" \in Ops
  /\ Known(i) /\ Free(i)
  /\ seen' = [seen EXCEPT ![i] = IF @ \in {"new", "live"} THEN "dying" ELSE @]
  /\ Read(t, New(p, "delete", i, Absent))
  /\ UNCHANGED <<pg, redis, conf, restarts>>

List(p, t) ==
  LET r == New(p, "list", Absent, Absent)
  IN /\ task[t].pc = "idle" /\ "list" \in Ops
     /\ IF "pg" \in conf[p] THEN GoTo(t, r, "pgList")
        ELSE IF "redis" \in conf[p] THEN GoTo(t, r, "rdKeys")
        ELSE ListMemory(t, r)
     /\ UNCHANGED <<cache, memory, pg, redis, conf, seen, restarts>>

-----------------------------------------------------------------------------
(* Reads of the backends.  A backend that errors hands over to the next.   *)

At(t, pc) == task[t].pc = pc
Stores == <<pg, redis>>

PgRead(t) ==
  /\ At(t, "pgRead")
  /\ GoTo(t, [task[t] EXCEPT !.row = pg[task[t].id]], "got")
  /\ UNCHANGED <<cache, memory, Stores, conf, seen, restarts>>

(* Mutant of PgReadFails: the BackendError is not caught.                  *)
PgReadRaises(t) ==
  /\ At(t, "pgRead") /\ "pg" \in Faulty
  /\ Stop(t, task[t], "error")
  /\ UNCHANGED <<Stores, conf, seen, restarts>>

PgReadFails(t) ==
  /\ At(t, "pgRead") /\ "pg" \in Faulty
  /\ IF "redis" \in conf[task[t].proc]
     THEN GoTo(t, task[t], "rdRead") /\ UNCHANGED <<cache, memory>>
     ELSE FromMemory(t, task[t])
  /\ UNCHANGED <<Stores, conf, seen, restarts>>

RdRead(t) ==
  LET c == redis[task[t].id]
  IN /\ At(t, "rdRead")
     /\ c # Absent => Valid(c)
     /\ GoTo(t, [task[t] EXCEPT !.row = c], "got")
     /\ UNCHANGED <<cache, memory, Stores, conf, seen, restarts>>

(* Redis errors, or holds JSON that is no ContextResponse.                 *)
RdReadFails(t) ==
  LET c == redis[task[t].id]
  IN /\ At(t, "rdRead")
     /\ "redis" \in Faulty \/ (c # Absent /\ ~Valid(c))
     /\ FromMemory(t, task[t])
     /\ UNCHANGED <<Stores, conf, seen, restarts>>

(* The coroutine resumes with what the backend answered some time ago.     *)
Resume(t) ==
  LET r == task[t]
  IN /\ At(t, "got")
     /\ IF r.row = Absent
        THEN Stop(t, r, "none")
        ELSE Proceed(t, [r EXCEPT !.row = Absent], r.row, TRUE)
     /\ UNCHANGED <<Stores, conf, seen, restarts>>

-----------------------------------------------------------------------------
(* Writes.  PostgreSQL sees a SELECT and then, in READ COMMITTED, an       *)
(* INSERT, UPDATE or DELETE with the commit: merge() updates the columns   *)
(* that differ from the row it selected.  An error moves on to Redis.      *)

PgSelect(t) ==
  LET r == [task[t] EXCEPT !.row = pg[task[t].id]]
  IN /\ At(t, "pgSelect")
     /\ IF r.op = "delete" /\ r.row = Absent THEN AfterPg(t, r) ELSE GoTo(t, r, "pgWrite")
     /\ UNCHANGED <<cache, memory, Stores, conf, seen, restarts>>

PgSelectFails(t) ==
  /\ At(t, "pgSelect") /\ "pg" \in Faulty
  /\ AfterPg(t, task[t])
  /\ UNCHANGED <<cache, memory, Stores, conf, seen, restarts>>

(* What the statement leaves in the row that now holds c: an INSERT of a   *)
(* row that exists, an UPDATE of one that is gone and a null title fail.   *)
Merged(c, selected, new) ==
  IF ~Valid(new) THEN c
  ELSE IF selected = Absent THEN (IF c = Absent THEN new ELSE c)
  ELSE IF c = Absent THEN c
  ELSE [title |-> IF new.title = selected.title THEN c.title ELSE new.title,
        done  |-> IF new.done = selected.done THEN c.done ELSE new.done]

(* Mutant of PgWrite: the session deletes the row and does not commit.     *)
PgWriteNoCommit(t) ==
  LET r == task[t]
  IN /\ At(t, "pgWrite")
     /\ pg' = [pg EXCEPT ![r.id] = IF r.op = "delete" THEN @ ELSE Merged(@, r.row, r.ctx)]
     /\ AfterPg(t, r)
     /\ UNCHANGED <<cache, memory, redis, conf, seen, restarts>>

PgWrite(t) ==
  LET r == task[t]
  IN /\ At(t, "pgWrite")
     /\ pg' = [pg EXCEPT ![r.id] = IF r.op = "delete" THEN Absent ELSE Merged(@, r.row, r.ctx)]
     /\ AfterPg(t, r)
     /\ UNCHANGED <<cache, memory, redis, conf, seen, restarts>>

(* A commit that took effect but whose reply was lost is a PgWrite: the    *)
(* code goes on in the same way.                                           *)
PgWriteFails(t) ==
  /\ At(t, "pgWrite") /\ "pg" \in Faulty
  /\ AfterPg(t, task[t])
  /\ UNCHANGED <<cache, memory, Stores, conf, seen, restarts>>

(* Mutant of Overwritten: a delete does not reach Redis.                   *)
OverwrittenUnlessDeleted(r) == [redis EXCEPT ![r.id] = IF r.op = "delete" THEN @ ELSE r.ctx]

Overwritten(r) == [redis EXCEPT ![r.id] = IF r.op = "delete" THEN Absent ELSE r.ctx]

RdWrite(t) ==
  /\ At(t, "rdWrite")
  /\ redis' = Overwritten(task[t])
  /\ GoTo(t, task[t], "memory")
  /\ UNCHANGED <<cache, memory, pg, conf, seen, restarts>>

(* Mutant of RdWriteFails: nobody counts the attempts against the limit.   *)
RdWriteForever(t) ==
  LET r == [task[t] EXCEPT !.tries = @ + 1]
  IN /\ At(t, "rdWrite") /\ "redis" \in Faulty
     /\ GoTo(t, r, "rdWrite")
     /\ UNCHANGED <<cache, memory, Stores, conf, seen, restarts>>

(* An attempt fails, or succeeds and its reply is lost; redis_op_with_retry *)
(* sends the command again and, after the last attempt, says nothing.       *)
RdWriteFails(t) ==
  LET r == [task[t] EXCEPT !.tries = @ + 1]
  IN /\ At(t, "rdWrite") /\ "redis" \in Faulty
     /\ redis' \in {redis, Overwritten(r)}
     /\ GoTo(t, r, IF r.tries < Retries THEN "rdWrite" ELSE "memory")
     /\ UNCHANGED <<cache, memory, pg, conf, seen, restarts>>

Finish(t) ==
  /\ At(t, "memory")
  /\ Conclude(t, task[t])
  /\ UNCHANGED <<cache, Stores, conf, seen, restarts>>

-----------------------------------------------------------------------------
(* Listings: one SELECT in PostgreSQL; KEYS and then a GET for each key in *)
(* Redis, where a key that fails, is gone or is no context is skipped.     *)

PgList(t) ==
  /\ At(t, "pgList")
  /\ Answer(t, task[t], "listed", {i \in Ids : pg[i] # Absent})
  /\ UNCHANGED <<cache, memory, Stores, conf, seen, restarts>>

PgListFails(t) ==
  /\ At(t, "pgList") /\ "pg" \in Faulty
  /\ IF "redis" \in conf[task[t].proc]
     THEN GoTo(t, task[t], "rdKeys")
     ELSE ListMemory(t, task[t])
  /\ UNCHANGED <<cache, memory, Stores, conf, seen, restarts>>

RdKeys(t) ==
  /\ At(t, "rdKeys")
  /\ GoTo(t, [task[t] EXCEPT !.todo = {i \in Ids : redis[i] # Absent}], "rdScan")
  /\ UNCHANGED <<cache, memory, Stores, conf, seen, restarts>>

RdKeysFails(t) ==
  /\ At(t, "rdKeys") /\ "redis" \in Faulty
  /\ ListMemory(t, task[t])
  /\ UNCHANGED <<cache, memory, Stores, conf, seen, restarts>>

(* Mutant of RdScan: the loop does not move on to the next key.            *)
RdScanStuck(t) ==
  /\ At(t, "rdScan")
  /\ \E i \in task[t].todo : GoTo(t, [task[t] EXCEPT !.acc = @ \union {i}], "rdScan")
  /\ UNCHANGED <<cache, memory, Stores, conf, seen, restarts>>

RdScan(t) ==
  /\ At(t, "rdScan")
  /\ \E i \in task[t].todo :
       LET got == redis[i] # Absent /\ Valid(redis[i])
           r == [task[t] EXCEPT !.todo = @ \ {i}]
       IN \/ GoTo(t, [r EXCEPT !.acc = IF got THEN @ \union {i} ELSE @], "rdScan")
          \/ "redis" \in Faulty /\ GoTo(t, r, "rdScan")
  /\ UNCHANGED <<cache, memory, Stores, conf, seen, restarts>>

RdScanned(t) ==
  /\ At(t, "rdScan") /\ task[t].todo = {}
  /\ Answer(t, task[t], "listed", task[t].acc)
  /\ UNCHANGED <<cache, memory, Stores, conf, seen, restarts>>

-----------------------------------------------------------------------------

(* The response reaches the client, who now knows what it says.            *)
Reply(t) ==
  LET r == task[t]
  IN /\ At(t, "done")
     /\ task' = [task EXCEPT ![t] = Idle]
     /\ seen' = IF r.op = "create" /\ seen[r.id] = "new" THEN [seen EXCEPT ![r.id] = "live"]
                ELSE IF r.res.kind = "removed" THEN [seen EXCEPT ![r.id] = "dead"]
                ELSE seen
     /\ UNCHANGED <<cache, memory, Stores, conf, restarts>>

(* Mutant of Forget: entries have no time to live.                         *)
NeverForget(p, i) == FALSE /\ UNCHANGED vars

(* The cache forgets: an entry's time is up, or another's needs its place. *)
Forget(p, i) ==
  /\ cache[p][i] # Absent
  /\ cache' = [cache EXCEPT ![p][i] = Absent]
  /\ UNCHANGED <<memory, Stores, conf, task, seen, restarts>>

(* A process dies, with its requests, its cache and its dict, and starts   *)
(* again with whatever backends answer then.                               *)
Restart(p) ==
  /\ restarts < MaxRestarts
  /\ restarts' = restarts + 1
  /\ cache' = [cache EXCEPT ![p] = Empty]
  /\ memory' = [memory EXCEPT ![p] = Empty]
  /\ \E c \in Connected : conf' = [conf EXCEPT ![p] = c]
  /\ task' = [t \in Tasks |-> IF task[t].proc = p THEN Idle ELSE task[t]]
  /\ UNCHANGED <<Stores, seen>>

Arrive(p, t) == \/ \E i \in Ids, title \in Titles : Create(p, t, i, title)
                \/ \E i \in Ids : Get(p, t, i)
                \/ \E i \in Ids, u \in Patches : Update(p, t, i, u)
                \/ \E i \in Ids : Delete(p, t, i)
                \/ List(p, t)

Step(t) == \/ PgRead(t) \/ PgReadFails(t) \/ RdRead(t) \/ RdReadFails(t) \/ Resume(t)
           \/ PgSelect(t) \/ PgSelectFails(t) \/ PgWrite(t) \/ PgWriteFails(t)
           \/ RdWrite(t) \/ RdWriteFails(t) \/ Finish(t)
           \/ PgList(t) \/ PgListFails(t)
           \/ RdKeys(t) \/ RdKeysFails(t) \/ RdScan(t) \/ RdScanned(t)
           \/ Reply(t)

Next == \/ \E p \in Procs, t \in Tasks : Arrive(p, t)
        \/ \E t \in Tasks : Step(t)
        \/ \E p \in Procs, i \in Ids : Forget(p, i)
        \/ \E p \in Procs : Restart(p)

Spec == Init /\ [][Next]_vars

(* The event loop runs every coroutine that can run, every call to a       *)
(* backend is answered or fails in the end, and no entry outlives its time *)
(* in the cache.  The second is a premise on the network: the code gives   *)
(* neither client a command timeout.                                       *)
Fairness == /\ \A t \in Tasks : WF_vars(Step(t))
            /\ \A p \in Procs, i \in Ids : WF_vars(Forget(p, i))

FairSpec == Spec /\ Fairness

-----------------------------------------------------------------------------

(* The variables have their types.                                         *)
Maybe(S) == S \union {Absent}
Pcs == {"idle", "pgRead", "rdRead", "got", "pgSelect", "pgWrite", "rdWrite", "memory",
        "pgList", "rdKeys", "rdScan", "done"}
Responses == [kind : {"none", "error", "removed"}, body : {Absent}]
               \union [kind : {"found"}, body : Context]
               \union [kind : {"listed"}, body : SUBSET Ids]
Request == [pc : Pcs, proc : Maybe(Procs), op : Maybe(AllOps), id : Maybe(Ids),
            arg : Maybe(Patches), ctx : Maybe(Context), row : Maybe(Context),
            tries : 0 .. Retries, todo : SUBSET Ids, acc : SUBSET Ids,
            before : [Ids -> Status], res : Maybe(Responses)]
TypeOK == /\ cache \in [Procs -> [Ids -> Maybe(Context)]]
          /\ memory \in [Procs -> [Ids -> Maybe(Context)]]
          /\ pg \in [Ids -> Maybe(Context)]
          /\ redis \in [Ids -> Maybe(Context)]
          /\ conf \in [Procs -> SUBSET Configured]
          /\ task \in [Tasks -> Request]
          /\ seen \in [Ids -> Status]
          /\ restarts \in 0 .. MaxRestarts

(* What a client may rely on of a context that was created, before the     *)
(* request began, and that nobody had asked to delete by its end: no       *)
(* response denies that it exists.                                         *)
Denies(r, i) == \/ r.id = i /\ r.res.kind = "none"
                \/ r.res.kind = "listed" /\ i \notin r.res.body
AckedIsFound == \A t \in Tasks : At(t, "done") =>
                  \A i \in Ids : task[t].before[i] = "live" /\ seen[i] = "live"
                                   => ~Denies(task[t], i)

(* What a client may rely on of a context whose deletion was confirmed     *)
(* before the request began: no response shows it.                         *)
Shows(r, i) == \/ r.id = i /\ r.res.kind \in {"found", "removed"}
               \/ r.res.kind = "listed" /\ i \in r.res.body
DeletedIsGone == \A t \in Tasks : At(t, "done") =>
                   \A i \in Ids : task[t].before[i] = "dead" => ~Shows(task[t], i)

(* The backends never disagree for good: once no request for a context is  *)
(* under way, every available backend and the dict hold the same, and a    *)
(* cache holds that or nothing.                                            *)
BackendsAgree ==
  \A p \in Procs, i \in Ids : (\A t \in Tasks : task[t].id # i) =>
    /\ "pg" \in conf[p] => pg[i] = memory[p][i]
    /\ "redis" \in conf[p] => redis[i] = memory[p][i]
    /\ cache[p][i] \in {Absent, memory[p][i]}

(* A backend's failure is never the client's: as long as no client nulls a *)
(* title, no response is an error.                                         *)
NoErrorSurfaces == \A t \in Tasks : At(t, "done") => task[t].res.kind # "error"

(* Whatever fails, a request is answered: retries end, fallbacks end.      *)
Answered == \A t \in Tasks : ~At(t, "idle") ~> At(t, "idle")

(* No update is lost: when a PUT that passed no value for a field commits,  *)
(* the row keeps in that field the value with which another PUT, already    *)
(* answered, was told its own had succeeded.                               *)
NoUpdateLost ==
  [][\A t, u \in Tasks : \A f \in {"title", "done"} :
       LET r == task[t]
           w == task[u]
           was == pg[r.id]
       IN /\ At(t, "pgWrite") /\ task'[t] # r              \* t commits
          /\ r.op = "update" /\ r.arg[f] = Unset
          /\ At(u, "done") /\ w.op = "update" /\ w.id = r.id /\ w.res.kind = "found"
          /\ was # Absent /\ was[f] = w.res.body[f]
          => pg'[r.id][f] = was[f]]_vars

(* A deletion reaches every cache in the end: once the client was told,    *)
(* there comes a time from which no process holds the context in its cache *)
(* (unless somebody updates it, which can bring it back).                  *)
NeverUpdated(i) == [](\A t \in Tasks : task[t].id = i => task[t].op # "update")
DeletionReachesCaches ==
  \A i \in Ids : NeverUpdated(i) =>
    [](seen[i] = "dead" => <>[](\A p \in Procs : cache[p][i] = Absent))

(* Caches catch up: when the writes of a context end, every process comes  *)
(* to hold in its cache what PostgreSQL holds, or nothing, for good.       *)
Quiet(i) == \A t \in Tasks : task[t].id = i => task[t].op = "get"
CachesConverge ==
  \A i \in Ids : <>[]Quiet(i) => <>[](\A p \in Procs : cache[p][i] \in {Absent, pg[i]})
=============================================================================
