----------------------------- MODULE DebugTools -----------------------------
(***************************************************************************)
(* CPU spikes and network diagnostics on the one event loop of a process,  *)
(* with the time they all share.                                           *)
(***************************************************************************)
EXTENDS CpuSpike, NetworkTools

vars == <<pipeline, spiking, scanning>>

Init == PipelineInit /\ SpikeInit /\ NetworkInit

Less(t) == IF t > 0 THEN t - 1 ELSE 0

(* Time passes.  A call that blocks returns when its own time is up.  How  *)
(* late a process is matters as far as all that its task sleeps.           *)
Tick == /\ Free \/ (loop \in Requests /\ timer[loop] > 0)
        /\ \E r \in Requests : timer[r] > 0
        /\ timer' = [r \in Requests |-> Less(timer[r])]
        /\ burn' = [s \in Spikes |-> [k \in 1 .. Cores |->
                      IF child[s][k] = "runs" THEN Less(burn[s][k]) ELSE burn[s][k]]]
        /\ lag' = [s \in Spikes |-> [k \in 1 .. Cores |->
                     IF child[s][k] = "starts" /\ lag[s][k] < burn[s][k] + Grace THEN lag[s][k] + 1
                     ELSE lag[s][k]]]
        /\ held' = IF Free THEN 0 ELSE held + 1
        /\ UNCHANGED <<gate, loop, stage, child, at, listed, scanning>>

Middleware(r) == (Arrive(r) \/ Inject(r) \/ Deny(r)) /\ UNCHANGED <<spiking, scanning>>
Spike(s) == (StartSpike(s) \/ StartFails(s) \/ Cleanup(s)) /\ UNCHANGED scanning
Scan(r) == (Ask(r) \/ Answering(r) \/ CurlEnds(r)) /\ UNCHANGED spiking

Next == \/ \E r \in Requests : Middleware(r)
        \/ \E s \in Spikes : Spike(s)
        \/ \E s \in Spikes, k \in 1 .. Cores : (Begins(s, k) \/ Exit(s, k)) /\ UNCHANGED scanning
        \/ \E r \in Scans : Scan(r)
        \/ \E r \in Scans, c \in Tools : ToolEnds(r, c) /\ UNCHANGED spiking
        \/ Tick

Spec == Init /\ [][Next]_vars

(* The event loop runs what can run, time passes, and the resolver gives   *)
(* up in time; nobody need ask, and neither subprocesses nor HTTP          *)
(* exchanges need end, nor need a process ever begin to burn.              *)
FairSpec ==
  /\ Spec
  /\ WF_vars(Tick)
  /\ \A r \in Requests : WF_vars((Inject(r) \/ Deny(r)) /\ UNCHANGED <<spiking, scanning>>)
  /\ \A s \in Spikes : WF_vars(Cleanup(s) /\ UNCHANGED scanning)
  /\ \A r \in Scans : WF_vars(Answering(r) /\ UNCHANGED spiking)

-----------------------------------------------------------------------------

(* The variables have their types.                                         *)
TypeOK ==
  /\ gate \in [Requests -> {"new", "failing", "passing", "handled", "answered", "refused", "broken"}]
  /\ timer \in [Requests -> Nat]
  /\ loop \in Requests \union {Nobody}
  /\ held \in Nat
  /\ stage \in [Spikes -> {"idle", "asleep", "ending", "failed", "done", "raised"}]
  /\ child \in [Spikes -> [1 .. Cores -> {"none", "starts", "runs", "asked", "killed", "over", "closed"}]]
  /\ burn \in [Spikes -> [1 .. Cores -> Nat]]
  /\ lag \in [Spikes -> [1 .. Cores -> Nat]]
  /\ at \in [Spikes -> 1 .. Cores + 1]
  /\ listed \in SUBSET (Spikes \X (1 .. Cores))
  /\ kind \in [Scans -> Kinds \union {"none"}]
  /\ step \in [Scans -> {"idle", "guard", "await", "resolve", "connect", "done"}]
  /\ now \in [Scans -> Checks \union {"end"}]
  /\ tool \in [Scans -> [Tools -> {"none", "runs", "missing", "ended"}]]
  /\ report \in [Scans -> [Checks -> {"none", "output", "error"}]]

(* What blocks the loop blocks the health probes too, so it matters how    *)
(* long: a clean-up for no longer than a join for each core, a diagnosis   *)
(* for no longer than the lookups of guard and socket, and a connection.   *)
HoldsAreBounded == /\ loop \in Spikes => held <= Cores * JoinTime
                   /\ loop \in Scans => held <= 2 * LookupTime + ConnectTime
                   /\ Free => held = 0

(* The task that ends a spike counts from the start of the processes, and  *)
(* each process from the beginning of its loop: it is told to end with     *)
(* time left to burn only if it was late by more than the grace, and what  *)
(* it loses then is no more than the excess.                               *)
NothingCutShort == \A s \in Spikes, k \in 1 .. Cores :
                     child[s][k] \in {"asked", "killed"} /\ burn[s][k] > 0 =>
                       burn[s][k] + Grace <= lag[s][k]

(* A task that gets to its end leaves no process of its spike, running or  *)
(* listed; what stays on the list for ever is of a spike whose start       *)
(* failed, or of a task that ended on a process it had to kill.            *)
Cleaned == \A s \in Spikes :
  /\ stage[s] = "done" => \A k \in 1 .. Cores : child[s][k] \in {"none", "closed"}
  /\ listed \intersect ListOf(s) # {} => stage[s] \notin {"idle", "done"}
  /\ stage[s] = "raised" => at[s] \in 1 .. Cores /\ child[s][at[s]] \in {"killed", "over"}

(* A request that was turned away, by injection, credentials or the guard, *)
(* has started nothing.                                                    *)
RefusedIsClean ==
  /\ \A s \in Spikes : gate[s] # "answered" =>
       listed \intersect ListOf(s) = {} /\ \A k \in 1 .. Cores : child[s][k] = "none"
  /\ \A r \in Scans : gate[r] \in {"new", "failing", "passing", "refused"} =>
       \A c \in Tools : tool[r][c] = "none"

Planned(k) == IF k = "scan" THEN {"ping", "dns", "trace"}
              ELSE IF k = "scan port" THEN {"ping", "dns", "tcp", "trace"} ELSE {k}

(* An answer has every check that was asked for, whatever became of the    *)
(* others; the lookup alone can end a request without one, and then no     *)
(* traceroute was started; output is of a subprocess that ended, and one   *)
(* that is left running was reported as failed.                            *)
ReportsAreTrue == \A r \in Scans :
  /\ gate[r] = "answered" => \A c \in Planned(kind[r]) : report[r][c] # "none"
  /\ gate[r] = "broken" => now[r] = "dns" /\ tool[r]["trace"] = "none"
  /\ \A c \in Tools : /\ report[r][c] = "output" => tool[r][c] = "ended"
                      /\ gate[r] \in {"answered", "broken"} /\ tool[r][c] = "runs" => report[r][c] = "error"

(* Nothing keeps the loop for good, not even a process that never ends.    *)
LoopComesBack == ~Free ~> Free

(* Every request that arrives comes to an end, though subprocesses do not, *)
(* except one for a URL, which a slow server keeps open; and every spike   *)
(* whose processes were all started is cleaned up, unless one of them has  *)
(* to be killed, for having survived SIGTERM and the join.                 *)
EverythingEnds ==
  /\ \A r \in Requests : gate[r] # "new" ~>
       \/ gate[r] \in {"answered", "refused", "broken"}
       \/ r \in Scans /\ step[r] = "await" /\ now[r] = "http"
  /\ \A s \in Spikes : stage[s] = "asleep" ~>
       \/ stage[s] = "done"
       \/ \E k \in 1 .. Cores : child[s][k] = "killed"
=============================================================================
