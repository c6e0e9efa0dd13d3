--------------------------- MODULE StorageAtomic ---------------------------
(***************************************************************************)
(* Where the context store is atomic: one process, clients that do not     *)
(* overlap two requests for one context, and backends that do not fail;    *)
(* or, if PostgreSQL is there and does not, whatever Redis does and however *)
(* often the process crashes.  The contexts are those of the first backend *)
(* in the read path, and a request takes effect when that is written.      *)
(***************************************************************************)
EXTENDS Storage

Primary == LET p == CHOOSE p \in Procs : TRUE
           IN IF "pg" \in conf[p] THEN pg ELSE IF "redis" \in conf[p] THEN redis ELSE memory[p]

(* The request has written the first of the backends it has to write.      *)
Wrote(r) == \/ r.pc = "memory"
            \/ r.pc = "rdWrite" /\ "pg" \in conf[r.proc]

(* A request of Storage, seen from outside.                                *)
AsRequest(r) ==
  LET as(phase, arg, res) == [phase |-> phase, op |-> r.op, id |-> r.id, arg |-> arg, res |-> res]
  IN IF r.pc = "idle" THEN as("idle", Absent, Absent)
     ELSE IF r.pc = "done" THEN as("settled", Absent, r.res)
     ELSE IF ~Wrote(r) THEN as("pending", IF r.op = "create" THEN r.ctx ELSE r.arg, Absent)
     ELSE as("settled", Absent, IF r.op = "delete" THEN [kind |-> "removed", body |-> Absent]
                                ELSE [kind |-> "found", body |-> r.ctx])

(* Caches, backends and suspensions are invisible: the service behaves as  *)
(* one map whose operations are atomic.                                    *)
Atomic == INSTANCE ContextStore
            WITH contexts <- Primary, request <- [t \in Tasks |-> AsRequest(task[t])],
                 Crashes <- MaxRestarts > 0
ImplementsContextStore == Atomic!Spec
=============================================================================
