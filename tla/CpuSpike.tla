------------------------------ MODULE CpuSpike ------------------------------
(***************************************************************************)
(* POST /api/debug/cpu/spike (app/routers/debug.py): it starts processes   *)
(* that burn CPU, and leaves a task behind that ends and forgets them.     *)
(* That task sleeps and then goes through the processes without giving     *)
(* way, joining each for up to JoinTime.                                   *)
(***************************************************************************)
EXTENDS RequestPipeline

CONSTANTS Cores,      \* the most processes of a spike
          Durations,  \* how long they may be asked to burn
          Grace,      \* what the task sleeps beyond that
          JoinTime    \* the timeout of join

ASSUME SpikeAssumption == /\ Cores \in Nat \ {0}
                          /\ Durations \subseteq Nat \ {0}
                          /\ Grace \in Nat /\ JoinTime \in Nat

VARIABLES stage,  \* stage[s]: of the spike and the task that cleans up
          child,  \* child[s][k]: its k-th process
          burn,   \* burn[s][k]: time that process has still to burn
          lag,    \* history: lag[s][k]: how late it is to begin
          at,     \* at[s]: the process the task is at
          listed  \* _active_cpu_procs

spiking == <<stage, child, burn, lag, at, listed>>
clocks == <<burn, lag>>

SpikeInit == /\ stage = [s \in Spikes |-> "idle"]
             /\ child = [s \in Spikes |-> [k \in 1 .. Cores |-> "none"]]
             /\ burn = [s \in Spikes |-> [k \in 1 .. Cores |-> 0]]
             /\ lag = [s \in Spikes |-> [k \in 1 .. Cores |-> 0]]
             /\ at = [s \in Spikes |-> 1]
             /\ listed = {}

Stage(s, g) == stage' = [stage EXCEPT ![s] = g]
ListOf(s) == {s} \X (1 .. Cores)

(* The first n processes of a spike are started, and go on the list.       *)
Launch(s, n, d) ==
  /\ child' = [child EXCEPT ![s] = [k \in 1 .. Cores |-> IF k <= n THEN "starts" ELSE "none"]]
  /\ burn' = [burn EXCEPT ![s] = [k \in 1 .. Cores |-> IF k <= n THEN d ELSE 0]]
  /\ listed' = listed \union ({s} \X (1 .. n))
  /\ Gate(s, "answered")

(* Mutant of StartSpike: the task leaves the processes no time to begin.   *)
StartSpikeHasty(s) ==
  /\ Enters(s)
  /\ \E n \in 1 .. Cores, d \in Durations : Launch(s, n, d) /\ Timer(s, d)
  /\ Stage(s, "asleep")
  /\ UNCHANGED <<loop, held, lag, at>>

StartSpike(s) ==
  /\ Enters(s)
  /\ \E n \in 1 .. Cores, d \in Durations : Launch(s, n, d) /\ Timer(s, d + Grace)
  /\ Stage(s, "asleep")
  /\ UNCHANGED <<loop, held, lag, at>>

(* start() raises: no task will come for the processes before it.          *)
StartFails(s) ==
  /\ Enters(s)
  /\ \E n \in 0 .. Cores - 1, d \in Durations : Launch(s, n, d)
  /\ Stage(s, "failed")
  /\ UNCHANGED <<timer, loop, held, lag, at>>

(* Mutant of Wake: the first process is passed over.                       *)
WakeSkipping(s) == /\ Free /\ stage[s] = "asleep" /\ timer[s] = 0
                   /\ Stage(s, "ending")
                   /\ at' = [at EXCEPT ![s] = 2]
                   /\ Hold(s)
                   /\ UNCHANGED <<gate, timer, clocks, child, listed>>

(* The task is done sleeping.                                              *)
Wake(s) == /\ Free /\ stage[s] = "asleep" /\ timer[s] = 0
           /\ Stage(s, "ending")
           /\ Hold(s)
           /\ UNCHANGED <<gate, timer, clocks, child, at, listed>>

(* The task is at a process in this state.                                 *)
AtOne(s, state) == /\ stage[s] = "ending"
                   /\ at[s] \in 1 .. Cores /\ child[s][at[s]] = state

Turn(s, state) == child' = [child EXCEPT ![s][at[s]] = state]

(* close() succeeds on a process that has ended: by itself, in join, or    *)
(* between kill() and close().                                             *)
Close(s) == /\ AtOne(s, "over")
            /\ Turn(s, "closed")
            /\ at' = [at EXCEPT ![s] = @ + 1]
            /\ Timer(s, 0)
            /\ UNCHANGED <<gate, loop, held, stage, clocks, listed>>

(* terminate() and join(), which blocks.                                   *)
Terminate(s) == /\ AtOne(s, "starts") \/ AtOne(s, "runs")
                /\ Turn(s, "asked")
                /\ Timer(s, JoinTime)
                /\ UNCHANGED <<gate, loop, held, stage, clocks, at, listed>>

(* Mutants of Kill: it tells the process to terminate again; join() has no *)
(* timeout, so that it never comes.                                        *)
KillGently(s) == /\ AtOne(s, "asked") /\ timer[s] = 0
                 /\ Timer(s, JoinTime)
                 /\ UNCHANGED <<gate, loop, held, spiking>>
KillNever(s) == /\ AtOne(s, "asked") /\ AtOne(s, "over")
                /\ Turn(s, "killed")
                /\ UNCHANGED <<pipeline, stage, clocks, at, listed>>

(* join() gave up, and the process is still alive.                         *)
Kill(s) == /\ AtOne(s, "asked") /\ timer[s] = 0
           /\ Turn(s, "killed")
           /\ UNCHANGED <<pipeline, stage, clocks, at, listed>>

(* close() raises on a process that is not dead yet: the end of the task.  *)
Raise(s) == /\ AtOne(s, "killed")
            /\ Stage(s, "raised")
            /\ GiveWay
            /\ UNCHANGED <<gate, timer, clocks, child, at, listed>>

Done(s) == /\ stage[s] = "ending" /\ (at[s] > Cores \/ AtOne(s, "none"))
           /\ listed' = listed \ ListOf(s)
           /\ Stage(s, "done")
           /\ GiveWay
           /\ UNCHANGED <<gate, timer, clocks, child, at>>

Cleanup(s) == Wake(s) \/ Close(s) \/ Terminate(s) \/ Kill(s) \/ Raise(s) \/ Done(s)

(* A process comes to its loop, and looks at the clock only there.         *)
Begins(s, k) == /\ child[s][k] = "starts"
                /\ child' = [child EXCEPT ![s][k] = "runs"]
                /\ UNCHANGED <<pipeline, stage, clocks, at, listed>>

(* A process ends: it has burnt enough, crashes, obeys, or is killed.      *)
Exit(s, k) == /\ child[s][k] \in {"starts", "runs", "asked", "killed"}
              /\ child' = [child EXCEPT ![s][k] = "over"]
              /\ burn' = [burn EXCEPT ![s][k] = 0] /\ lag' = [lag EXCEPT ![s][k] = 0]
              /\ UNCHANGED <<pipeline, stage, at, listed>>
=============================================================================
