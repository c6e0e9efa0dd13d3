-------------------------- MODULE DebugToolsProofs --------------------------
(***************************************************************************)
(* Theorems about the debug requests, for every set of spikes and scans,   *)
(* every number of cores and every timeout.                                *)
(***************************************************************************)
EXTENDS DebugTools, TLAPS

Assumptions == PipelineAssumption /\ SpikeAssumption /\ NetworkAssumption

LEMMA Parameters == Assumptions
  BY PipelineAssumption, SpikeAssumption, NetworkAssumption DEF Assumptions

PipeOK ==
  /\ gate \in [Requests -> {"new", "failing", "passing", "handled", "answered", "refused", "broken"}]
  /\ timer \in [Requests -> Nat]
  /\ loop \in Requests \union {Nobody}
  /\ held \in Nat
SpikeOK ==
  /\ stage \in [Spikes -> {"idle", "asleep", "ending", "failed", "done", "raised"}]
  /\ child \in [Spikes -> [1 .. Cores -> {"none", "starts", "runs", "asked", "killed", "over", "closed"}]]
  /\ burn \in [Spikes -> [1 .. Cores -> Nat]]
  /\ lag \in [Spikes -> [1 .. Cores -> Nat]]
  /\ at \in [Spikes -> 1 .. Cores + 1]
  /\ listed \in SUBSET (Spikes \X (1 .. Cores))
ScanOK ==
  /\ kind \in [Scans -> Kinds \union {"none"}]
  /\ step \in [Scans -> {"idle", "guard", "await", "resolve", "connect", "done"}]
  /\ now \in [Scans -> Checks \union {"end"}]
  /\ tool \in [Scans -> [Tools -> {"none", "runs", "missing", "ended"}]]
  /\ report \in [Scans -> [Checks -> {"none", "output", "error"}]]
  /\ \A r \in Scans : step[r] # "idle" => kind[r] # "none"

(* The types, by component; and a request that is handled has a kind.      *)
Typed == PipeOK /\ SpikeOK /\ ScanOK

(* What the middleware does keeps the types.                               *)
LEMMA MiddlewareTypes ==
  ASSUME PipeOK, NEW r \in Requests, Arrive(r) \/ Inject(r) \/ Deny(r)
  PROVE  PipeOK'
<1> USE Parameters DEF Assumptions, PipelineAssumption, PipeOK
<1>1. CASE Arrive(r)
  <2>0. PICK what \in {"random", "number", "junk"}, n \in DelaysAsked :
          \E t \in Sleeps(what, n) : Timer(r, t)
    BY <1>1 DEF Arrive
  <2>1. PICK t \in Sleeps(what, n) : Timer(r, t)
    BY <2>0
  <2>2. t \in Nat
    BY <2>1 DEF Sleeps, Least
  <2> QED  BY <1>1, <2>1, <2>2 DEF Arrive, Timer, Gate
<1>2. CASE Inject(r)  BY <1>2 DEF Inject, Gate
<1>3. CASE Deny(r)    BY <1>3 DEF Deny, Gate
<1> QED  BY <1>1, <1>2, <1>3

(* So do a spike and its clean-up.                                         *)
LEMMA SpikeTypes ==
  ASSUME PipeOK, SpikeOK, NEW s \in Spikes, StartSpike(s) \/ StartFails(s) \/ Cleanup(s)
  PROVE  PipeOK' /\ SpikeOK'
<1> USE Parameters DEF Assumptions, PipelineAssumption, SpikeAssumption
<1>0. s \in Requests  BY DEF Requests
<1>1. CASE StartSpike(s)
  <2>1. PICK n \in 1 .. Cores, d \in Durations : Launch(s, n, d) /\ Timer(s, d + Grace)
    BY <1>1 DEF StartSpike
  <2>2. d + Grace \in Nat  OBVIOUS
  <2>3. PipeOK'  BY <1>0, <1>1, <2>1, <2>2 DEF StartSpike, Launch, Timer, Gate, PipeOK
  <2>4. SpikeOK' BY <1>1, <2>1 DEF StartSpike, Launch, Stage, SpikeOK
  <2> QED  BY <2>3, <2>4
<1>2. CASE StartFails(s)
  <2>1. PICK n \in 0 .. Cores - 1, d \in Durations : Launch(s, n, d)
    BY <1>2 DEF StartFails
  <2>2. PipeOK'  BY <1>0, <1>2, <2>1 DEF StartFails, Launch, Gate, PipeOK
  <2>3. SpikeOK' BY <1>2, <2>1 DEF StartFails, Launch, Stage, SpikeOK
  <2> QED  BY <2>2, <2>3
<1>3. CASE Wake(s)   BY <1>0, <1>3 DEF Wake, Stage, Hold, clocks, PipeOK, SpikeOK
<1>4. CASE Close(s)  BY <1>0, <1>4 DEF Close, AtOne, Turn, Timer, clocks, PipeOK, SpikeOK
<1>5. CASE Terminate(s)  BY <1>0, <1>5 DEF Terminate, AtOne, Turn, Timer, clocks, PipeOK, SpikeOK
<1>6. CASE Kill(s)   BY <1>6 DEF Kill, AtOne, Turn, pipeline, clocks, PipeOK, SpikeOK
<1>7. CASE Raise(s)  BY <1>7 DEF Raise, AtOne, Stage, GiveWay, clocks, PipeOK, SpikeOK
<1>8. CASE Done(s)   BY <1>8 DEF Done, Stage, GiveWay, clocks, PipeOK, SpikeOK
<1> QED  BY <1>1, <1>2, <1>3, <1>4, <1>5, <1>6, <1>7, <1>8 DEF Cleanup

(* Whatever a diagnosis goes on to.                                        *)
LEMMA BeginTypes ==
  ASSUME PipeOK, ScanOK, NEW r \in Scans, NEW k, NEW c \in Checks \union {"end"}, Begin(r, k, c)
  PROVE  /\ PipeOK'
         /\ step' \in [Scans -> {"idle", "guard", "await", "resolve", "connect", "done"}]
         /\ now' \in [Scans -> Checks \union {"end"}]
         /\ tool' \in [Scans -> [Tools -> {"none", "runs", "missing", "ended"}]]
         /\ \A q \in Scans : q # r => step'[q] = step[q]
<1> USE Parameters DEF Assumptions, PipelineAssumption, NetworkAssumption
<1>0. r \in Requests  BY DEF Requests
<1>1. Limit(k, c) \in Nat  BY DEF Limit
<1>2. now' \in [Scans -> Checks \union {"end"}]  BY DEF Begin, ScanOK
<1>3. PipeOK'  BY <1>0, <1>1 DEF Begin, Gate, Timer, GiveWay, Hold, PipeOK
<1>4. step' \in [Scans -> {"idle", "guard", "await", "resolve", "connect", "done"}]
  BY DEF Begin, ScanOK
<1>5. tool' \in [Scans -> [Tools -> {"none", "runs", "missing", "ended"}]]
  <2>1. CASE tool' = tool  BY <2>1 DEF ScanOK
  <2>2. ASSUME NEW s \in {"runs", "missing"}, c \in Tools, tool' = [tool EXCEPT ![r][c] = s]
        PROVE  tool' \in [Scans -> [Tools -> {"none", "runs", "missing", "ended"}]]
    <3>1. [tool[r] EXCEPT ![c] = s] \in [Tools -> {"none", "runs", "missing", "ended"}]
      BY DEF ScanOK
    <3> QED  BY <2>2, <3>1 DEF ScanOK
  <2> QED  BY <2>1, <2>2 DEF Begin
<1>6. \A q \in Scans : q # r => step'[q] = step[q]  BY DEF Begin, ScanOK
<1> QED  BY <1>2, <1>3, <1>4, <1>5, <1>6

LEMMA AfterType == \A k, c : After(k, c) \in Checks \union {"end"}
  BY DEF After, Checks, Tools
LEMMA FirstType == \A k \in Kinds : First(k) \in Checks
  BY DEF First, Kinds, ScanKinds, Checks, Tools

(* So do the steps of a diagnosis.                                         *)
LEMMA ScanTypes ==
  ASSUME PipeOK, ScanOK, NEW r \in Scans, Ask(r) \/ Answering(r) \/ CurlEnds(r)
  PROVE  PipeOK' /\ ScanOK'
<1> USE Parameters DEF Assumptions, PipelineAssumption, NetworkAssumption
<1>0. r \in Requests  BY DEF Requests
<1>1. ASSUME NEW v \in {"output", "error"}, Reports(r, v), GoOn(r), step[r] # "idle"  PROVE PipeOK' /\ ScanOK'
  <2>1. After(kind[r], now[r]) \in Checks \union {"end"}  BY AfterType
  <2>2. report' \in [Scans -> [Checks -> {"none", "output", "error"}]]
    BY <1>1 DEF Reports, ScanOK
  <2>3. kind' = kind /\ Begin(r, kind[r], After(kind[r], now[r]))  BY <1>1 DEF GoOn
  <2>4. /\ PipeOK'
        /\ step' \in [Scans -> {"idle", "guard", "await", "resolve", "connect", "done"}]
        /\ now' \in [Scans -> Checks \union {"end"}]
        /\ tool' \in [Scans -> [Tools -> {"none", "runs", "missing", "ended"}]]
        /\ \A q \in Scans : q # r => step'[q] = step[q]
    BY <2>1, <2>3, BeginTypes
  <2> QED  BY <1>1, <2>2, <2>3, <2>4 DEF ScanOK
<1>2. CASE Ask(r)
  <2>1. PICK k \in Kinds : /\ kind' = [kind EXCEPT ![r] = k]
                           /\ \/ Begin(r, k, First(k))
                              \/ /\ Gate(r, "handled") /\ Timer(r, LookupTime) /\ Hold(r)
                                 /\ step' = [step EXCEPT ![r] = "guard"]
                                 /\ UNCHANGED <<now, tool>>
    BY <1>2 DEF Ask
  <2>2. kind' \in [Scans -> Kinds \union {"none"}] /\ report' = report
    BY <1>2, <2>1 DEF Ask, ScanOK
  <2>3. CASE Begin(r, k, First(k))
    <3>1. kind'[r] # "none" /\ \A q \in Scans : q # r => kind'[q] = kind[q]
      BY <2>1 DEF Kinds, ScanKinds, Checks, Tools, ScanOK
    <3> QED
      BY <3>1, <2>2, <2>3, FirstType, BeginTypes DEF ScanOK
  <2>4. CASE ~Begin(r, k, First(k))
    <3>1. /\ Gate(r, "handled") /\ Timer(r, LookupTime) /\ Hold(r)
          /\ step' = [step EXCEPT ![r] = "guard"] /\ UNCHANGED <<now, tool>>
      BY <2>1, <2>4
    <3>2. PipeOK'  BY <1>0, <3>1 DEF Gate, Timer, Hold, PipeOK
    <3>3. kind'[r] # "none" /\ \A q \in Scans : q # r => kind'[q] = kind[q]
      BY <2>1 DEF Kinds, ScanKinds, Checks, Tools, ScanOK
    <3> QED  BY <2>2, <3>1, <3>2, <3>3 DEF ScanOK
  <2> QED  BY <2>3, <2>4
<1>3. CASE GuardPasses(r)
  <2>1. First(kind[r]) \in Checks \union {"end"}
    BY <1>3, FirstType DEF GuardPasses, ScanOK
  <2> QED  BY <1>3, <2>1, BeginTypes DEF GuardPasses, ScanOK
<1>4. CASE GuardRefuses(r)
  BY <1>0, <1>4 DEF GuardRefuses, Gate, GiveWay, PipeOK, ScanOK
<1>5. CASE ToolAnswers(r)  BY <1>1, <1>5 DEF ToolAnswers, Awaits
<1>6. CASE ToolFails(r)    BY <1>1, <1>6 DEF ToolFails, Awaits
<1>7. CASE LookupEnds(r)   BY <1>1, <1>7 DEF LookupEnds, Awaits
<1>8. CASE CurlEnds(r)     BY <1>1, <1>8 DEF CurlEnds, Awaits
<1>9. CASE Resolved(r)     BY <1>0, <1>9 DEF Resolved, Timer, PipeOK, ScanOK
<1>10. CASE TcpEnds(r)     BY <1>1, <1>10 DEF TcpEnds
<1>11. CASE LookupRaises(r)
  BY <1>0, <1>11 DEF LookupRaises, Awaits, Gate, GiveWay, PipeOK, ScanOK
<1> QED  BY <1>2, <1>3, <1>4, <1>5, <1>6, <1>7, <1>8, <1>9, <1>10, <1>11 DEF Answering

LEMMA LessType == \A t \in Nat : Less(t) \in Nat
  BY DEF Less

LEMMA TypeStep == Typed /\ [Next]_vars => Typed'
<1> SUFFICES ASSUME PipeOK, SpikeOK, ScanOK, [Next]_vars  PROVE PipeOK' /\ SpikeOK' /\ ScanOK'
  BY DEF Typed
<1>1. ASSUME NEW r \in Requests, Middleware(r)  PROVE PipeOK' /\ SpikeOK' /\ ScanOK'
  BY <1>1, MiddlewareTypes DEF Middleware, spiking, scanning, SpikeOK, ScanOK
<1>2. ASSUME NEW s \in Spikes, Spike(s)  PROVE PipeOK' /\ SpikeOK' /\ ScanOK'
  BY <1>2, SpikeTypes DEF Spike, scanning, ScanOK
<1>3. ASSUME NEW s \in Spikes, NEW k \in 1 .. Cores, Begins(s, k) \/ Exit(s, k), UNCHANGED scanning
      PROVE  PipeOK' /\ SpikeOK' /\ ScanOK'
  <2>1. SpikeOK'
    <3>1. CASE Begins(s, k)  BY <1>3, <3>1 DEF Begins, clocks, SpikeOK
    <3>2. CASE Exit(s, k)    BY <1>3, <3>2 DEF Exit, SpikeOK
    <3> QED  BY <1>3, <3>1, <3>2
  <2> QED  BY <1>3, <2>1 DEF Begins, Exit, pipeline, scanning, PipeOK, ScanOK
<1>4. ASSUME NEW r \in Scans, Scan(r)  PROVE PipeOK' /\ SpikeOK' /\ ScanOK'
  BY <1>4, ScanTypes DEF Scan, spiking, SpikeOK
<1>5. ASSUME NEW r \in Scans, NEW c \in Tools, ToolEnds(r, c), UNCHANGED spiking
      PROVE  PipeOK' /\ SpikeOK' /\ ScanOK'
  BY <1>5 DEF ToolEnds, pipeline, spiking, PipeOK, SpikeOK, ScanOK
<1>6. CASE Tick
  <2>1. timer' \in [Requests -> Nat] /\ held' \in Nat
    BY <1>6, LessType DEF Tick, PipeOK
  <2>2. burn' \in [Spikes -> [1 .. Cores -> Nat]]  BY <1>6, LessType DEF Tick, SpikeOK
  <2>3. lag' \in [Spikes -> [1 .. Cores -> Nat]]
    <3>0. lag \in [Spikes -> [1 .. Cores -> Nat]]  BY DEF SpikeOK
    <3>1. \A n \in Nat : n + 1 \in Nat  OBVIOUS
    <3>2. \A s \in Spikes, k \in 1 .. Cores : lag[s][k] \in Nat /\ lag[s][k] + 1 \in Nat
      BY <3>0, <3>1
    <3> QED  BY <1>6, <3>2 DEF Tick
  <2> QED  BY <1>6, <2>1, <2>2, <2>3 DEF Tick, scanning, PipeOK, SpikeOK, ScanOK
<1>7. CASE UNCHANGED vars
  BY <1>7 DEF vars, pipeline, spiking, scanning, PipeOK, SpikeOK, ScanOK
<1> QED  BY <1>1, <1>2, <1>3, <1>4, <1>5, <1>6, <1>7 DEF Next

LEMMA TypeStart == Init => Typed
  BY Parameters DEF Assumptions, PipelineAssumption, SpikeAssumption, NetworkAssumption, Init, PipelineInit,
                    SpikeInit, NetworkInit, Typed, PipeOK, SpikeOK, ScanOK, Checks, Tools

LEMMA StaysTyped == Spec => []Typed
  BY TypeStart, TypeStep, PTL DEF Spec

(* Every variable of the debug requests keeps its type.                    *)
THEOREM TypeCorrect == Spec => []TypeOK
<1>1. Typed => TypeOK  BY DEF Typed, PipeOK, SpikeOK, ScanOK, TypeOK
<1> QED  BY <1>1, StaysTyped, PTL

-----------------------------------------------------------------------------
(* A process that is alive, and has still to burn.                         *)
Owes(s, k) == child[s][k] \in {"starts", "runs", "asked", "killed"} /\ burn[s][k] > 0

(* A spike, its task and its processes.  Nothing was started before the    *)
(* request was answered; what the task has still to sleep, and what a      *)
(* process was late, make up for what that process has still to burn, and  *)
(* for the grace; behind the process the task is at, all are closed, and   *)
(* those that were not started come last.                                  *)
Good(s) ==
  /\ gate[s] # "answered" => stage[s] = "idle"
  /\ stage[s] \in {"idle", "done"} => listed \intersect ListOf(s) = {}
  /\ stage[s] = "idle" => \A k \in 1 .. Cores : child[s][k] = "none"
  /\ stage[s] \in {"idle", "asleep", "failed"} =>
       at[s] = 1 /\ \A k \in 1 .. Cores : child[s][k] \in {"none", "starts", "runs", "over"}
  /\ stage[s] = "asleep" =>
       \A k \in 1 .. Cores : Owes(s, k) => burn[s][k] + Grace <= timer[s] + lag[s][k]
  /\ stage[s] \in {"ending", "done", "raised"} =>
       \A k \in 1 .. Cores : Owes(s, k) => burn[s][k] + Grace <= lag[s][k]
  /\ stage[s] \in {"asleep", "ending"} =>
       \A j, k \in 1 .. Cores : j < k /\ child[s][j] = "none" => child[s][k] = "none"
  /\ stage[s] = "ending" => \A k \in 1 .. Cores : k < at[s] => child[s][k] = "closed"
  /\ stage[s] = "done" => \A k \in 1 .. Cores : child[s][k] \in {"none", "closed"}
  /\ stage[s] = "raised" => at[s] \in 1 .. Cores /\ child[s][at[s]] \in {"killed", "over"}

SpikeInv == \A s \in Spikes : Good(s)

(* What a step of another request leaves of a spike.                       *)
Alone(s) == /\ gate'[s] = gate[s] /\ timer'[s] = timer[s] /\ stage'[s] = stage[s]
            /\ burn'[s] = burn[s] /\ lag'[s] = lag[s] /\ child'[s] = child[s] /\ at'[s] = at[s]
            /\ listed' \intersect ListOf(s) = listed \intersect ListOf(s)

LEMMA LeftAlone ==
  ASSUME NEW s \in Spikes, Good(s), Alone(s)
  PROVE  Good(s)'
<1>1. ListOf(s)' = ListOf(s)  BY DEF ListOf
<1> QED  BY <1>1 DEF Good, Alone, Owes

LEMMA MiddlewareGood ==
  ASSUME Typed, NEW s \in Spikes, Good(s), NEW r \in Requests, Middleware(r)
  PROVE  Good(s)'
<1> USE DEF Typed, PipeOK, SpikeOK
<1>0. s \in Requests /\ ListOf(s)' = ListOf(s)  BY DEF Requests, ListOf
<1>1. UNCHANGED <<stage, burn, lag, child, at, listed>>
  BY DEF Middleware, spiking
<1>2. \/ gate'[s] = gate[s] /\ timer'[s] = timer[s]
      \/ gate[s] # "answered" /\ gate'[s] # "answered"
  <2>1. CASE r # s
    BY <1>0, <2>1 DEF Middleware, Arrive, Inject, Deny, Gate, Timer
  <2>2. CASE r = s
    BY <1>0, <2>2 DEF Middleware, Arrive, Inject, Deny, Enters, Gate
  <2> QED  BY <2>1, <2>2
<1>3. CASE gate'[s] = gate[s] /\ timer'[s] = timer[s]
  BY <1>1, <1>3, LeftAlone DEF Alone
<1>4. CASE gate[s] # "answered" /\ gate'[s] # "answered"
  BY <1>0, <1>1, <1>4 DEF Good, Owes
<1> QED  BY <1>2, <1>3, <1>4

LEMMA SpikeGood ==
  ASSUME Typed, NEW s \in Spikes, Good(s), Spike(s)
  PROVE  Good(s)'
<1> USE Parameters DEF Assumptions, SpikeAssumption, Typed, PipeOK, SpikeOK
<1>0. s \in Requests /\ ListOf(s)' = ListOf(s)  BY DEF Requests, ListOf
<1>1. CASE StartSpike(s)
  <2>1. PICK n \in 1 .. Cores, d \in Durations : Launch(s, n, d) /\ Timer(s, d + Grace)
    BY <1>1 DEF StartSpike
  <2>2. stage[s] = "idle" /\ at'[s] = 1
    BY <1>1 DEF StartSpike, Enters, Good
  <2>3. /\ gate'[s] = "answered" /\ stage'[s] = "asleep" /\ timer'[s] = d + Grace /\ lag' = lag
        /\ child'[s] = [k \in 1 .. Cores |-> IF k <= n THEN "starts" ELSE "none"]
        /\ burn'[s] = [k \in 1 .. Cores |-> IF k <= n THEN d ELSE 0]
    BY <1>0, <1>1, <2>1 DEF StartSpike, Launch, Gate, Stage, Timer
  <2>4. ASSUME NEW k \in 1 .. Cores, Owes(s, k)'
        PROVE  burn'[s][k] + Grace <= timer'[s] + lag'[s][k]
    <3>1. child'[s][k] # "none" /\ lag'[s][k] \in Nat  BY <2>3, <2>4 DEF Owes
    <3>2. burn'[s][k] = d  BY <2>3, <3>1
    <3> QED  BY <2>3, <3>1, <3>2
  <2> QED  BY <2>2, <2>3, <2>4 DEF Good
<1>2. CASE StartFails(s)
  <2>1. PICK n \in 0 .. Cores - 1, d \in Durations : Launch(s, n, d)
    BY <1>2 DEF StartFails
  <2>2. stage[s] = "idle" /\ at'[s] = 1
    BY <1>2 DEF StartFails, Enters, Good
  <2>3. /\ gate'[s] = "answered" /\ stage'[s] = "failed"
        /\ child'[s] = [k \in 1 .. Cores |-> IF k <= n THEN "starts" ELSE "none"]
    BY <1>0, <1>2, <2>1 DEF StartFails, Launch, Gate, Stage
  <2> QED  BY <2>2, <2>3 DEF Good
<1>3. CASE Wake(s)
  <2>1. timer[s] = 0 /\ at[s] = 1 /\ gate[s] = "answered"  BY <1>0, <1>3 DEF Wake, Good
  <2>2. \A k \in 1 .. Cores : Owes(s, k) => burn[s][k] + Grace <= lag[s][k]
    BY <1>3, <2>1 DEF Wake, Good
  <2> QED  BY <1>3, <2>1, <2>2 DEF Wake, Stage, Good, Owes, clocks
<1>4. CASE Close(s)
  <2>1. /\ stage[s] = "ending" /\ at[s] \in 1 .. Cores /\ at'[s] = at[s] + 1
        /\ child'[s] = [child[s] EXCEPT ![at[s]] = "closed"] /\ child[s][at[s]] = "over"
        /\ UNCHANGED <<gate, stage, burn, lag, listed>>
    BY <1>4 DEF Close, AtOne, Turn, clocks
  <2>2. \A k \in 1 .. Cores : Owes(s, k)' => Owes(s, k)  BY <2>1 DEF Owes
  <2> QED  BY <2>1, <2>2 DEF Good
<1>5. ASSUME NEW state \in {"asked", "killed"}, AtOne(s, "starts") \/ AtOne(s, "runs") \/ AtOne(s, "asked"),
             Turn(s, state), UNCHANGED <<gate, stage, burn, lag, at, listed>>
      PROVE  Good(s)'
  <2>1. /\ stage[s] = "ending" /\ at[s] \in 1 .. Cores
        /\ child'[s] = [child[s] EXCEPT ![at[s]] = state]
        /\ child[s][at[s]] \in {"starts", "runs", "asked"}
    BY <1>5 DEF AtOne, Turn
  <2>2. \A k \in 1 .. Cores : Owes(s, k)' => Owes(s, k)  BY <1>5, <2>1 DEF Owes
  <2>3. \A k \in 1 .. Cores : Owes(s, k)' => burn'[s][k] + Grace <= lag'[s][k]
    BY <1>5, <2>1, <2>2 DEF Good
  <2>4. \A k \in 1 .. Cores : /\ child'[s][k] = "none" <=> child[s][k] = "none"
                              /\ k # at[s] => child'[s][k] = child[s][k]
    BY <2>1
  <2>5. \A j, k \in 1 .. Cores : j < k /\ child'[s][j] = "none" => child'[s][k] = "none"
    BY <2>1, <2>4 DEF Good
  <2>6. \A k \in 1 .. Cores : k < at[s] => child'[s][k] = "closed"
    BY <2>1, <2>4 DEF Good
  <2>7. stage'[s] = "ending" /\ gate' = gate /\ gate[s] = "answered" /\ at' = at
    BY <1>5, <2>1 DEF Good
  <2> HIDE DEF Typed, PipeOK, SpikeOK
  <2> QED  BY <2>3, <2>5, <2>6, <2>7 DEF Good
<1>6. CASE Terminate(s)  BY <1>5, <1>6 DEF Terminate, clocks
<1>7. CASE Kill(s)       BY <1>5, <1>7 DEF Kill, pipeline, clocks
<1>8. CASE Raise(s)      BY <1>8 DEF Raise, AtOne, Stage, Good, Owes, clocks
<1>9. CASE Done(s)
  <2>1. \A k \in 1 .. Cores : child[s][k] \in {"none", "closed"}
    BY <1>9 DEF Done, AtOne, Good
  <2>2. stage'[s] = "done" /\ listed' \intersect ListOf(s) = {} /\ UNCHANGED <<gate, child, at>>
    BY <1>9 DEF Done, Stage
  <2> QED  BY <1>0, <1>9, <2>1, <2>2 DEF Good, Done, Owes
<1> QED  BY <1>1, <1>2, <1>3, <1>4, <1>6, <1>7, <1>8, <1>9 DEF Spike, Cleanup

LEMMA OtherSpikeGood ==
  ASSUME Typed, NEW s \in Spikes, Good(s), NEW t \in Spikes \ {s}, Spike(t)
  PROVE  Good(s)'
<1> USE DEF Typed, PipeOK, SpikeOK
<1>0. s \in Requests /\ ListOf(s) \intersect ListOf(t) = {}  BY DEF Requests, ListOf
<1>1. ASSUME NEW n, NEW d, Launch(t, n, d)
      PROVE  /\ gate'[s] = gate[s] /\ child'[s] = child[s] /\ burn'[s] = burn[s]
             /\ listed' \intersect ListOf(s) = listed \intersect ListOf(s)
  BY <1>0, <1>1 DEF Launch, Gate, ListOf
<1>2. CASE StartSpike(t)
  BY <1>0, <1>1, <1>2, LeftAlone DEF StartSpike, Stage, Timer, Alone
<1>3. CASE StartFails(t)
  BY <1>0, <1>1, <1>3, LeftAlone DEF StartFails, Stage, Alone
<1>4. CASE Cleanup(t)
  <2>1. /\ gate' = gate /\ timer'[s] = timer[s] /\ UNCHANGED <<burn, lag>>
        /\ stage'[s] = stage[s] /\ child'[s] = child[s] /\ at'[s] = at[s]
    BY <1>0, <1>4 DEF Cleanup, Wake, Close, Terminate, Kill, Raise, Done, Turn, Stage, Timer, pipeline, clocks
  <2>2. listed' \intersect ListOf(s) = listed \intersect ListOf(s)
    BY <1>0, <1>4 DEF Cleanup, Wake, Close, Terminate, Kill, Raise, Done
  <2> QED  BY <2>1, <2>2, LeftAlone DEF Alone
<1> QED  BY <1>2, <1>3, <1>4 DEF Spike

LEMMA ScanGood ==
  ASSUME Typed, NEW s \in Spikes, Good(s), NEW r \in Scans, Scan(r)
  PROVE  Good(s)'
<1> USE DEF Typed, PipeOK
<1>0. s \in Requests /\ s # r
  BY Parameters DEF Assumptions, PipelineAssumption, Requests
<1>1. UNCHANGED <<stage, burn, lag, child, at, listed>>  BY DEF Scan, spiking
<1>2. ASSUME NEW k, NEW c, Begin(r, k, c)  PROVE gate'[s] = gate[s] /\ timer'[s] = timer[s]
  BY <1>0, <1>2 DEF Begin, Gate, Timer
<1>3. gate'[s] = gate[s] /\ timer'[s] = timer[s]
  <2>1. CASE GoOn(r)  BY <1>2, <2>1 DEF GoOn
  <2>2. CASE Ask(r)   BY <1>0, <1>2, <2>2 DEF Ask, Gate, Timer
  <2>3. CASE GuardPasses(r)   BY <1>2, <2>3 DEF GuardPasses
  <2>4. CASE GuardRefuses(r)  BY <1>0, <2>4 DEF GuardRefuses, Gate
  <2>5. CASE Resolved(r)      BY <1>0, <2>5 DEF Resolved, Timer
  <2>6. CASE LookupRaises(r)  BY <1>0, <2>6 DEF LookupRaises, Gate
  <2> QED
    BY <2>1, <2>2, <2>3, <2>4, <2>5, <2>6 DEF Scan, Answering, ToolAnswers, ToolFails, LookupEnds, CurlEnds, TcpEnds
<1> QED  BY <1>1, <1>3, LeftAlone DEF Alone

LEMMA SpikeStep == Typed /\ SpikeInv /\ [Next]_vars => SpikeInv'
<1> SUFFICES ASSUME Typed, NEW s \in Spikes, Good(s), [Next]_vars  PROVE Good(s)'
  BY DEF SpikeInv
<1>1. CASE \E r \in Requests : Middleware(r)  BY <1>1, MiddlewareGood
<1>2. CASE \E t \in Spikes : Spike(t)  BY <1>2, SpikeGood, OtherSpikeGood
<1>3. ASSUME NEW t \in Spikes, NEW k \in 1 .. Cores, Begins(t, k) \/ Exit(t, k)  PROVE Good(s)'
  <2>0. ListOf(s)' = ListOf(s)  BY DEF ListOf
  <2>1. CASE t = s
    <3>1. UNCHANGED <<gate, timer, stage, at, listed>>
      BY <1>3, <2>1 DEF Begins, Exit, pipeline
    <3>2. /\ child[s][k] \in {"starts", "runs", "asked", "killed"}
          /\ child'[s][k] \in {"runs", "over"}
          /\ child'[s][k] = "runs" => child[s][k] = "starts"
          /\ \A j \in 1 .. Cores : j # k => child'[s][j] = child[s][j]
      <4>1. child \in [Spikes -> [1 .. Cores -> {"none", "starts", "runs", "asked", "killed", "over", "closed"}]]
        BY DEF Typed, SpikeOK
      <4>2. CASE Begins(s, k)  BY <4>1, <4>2 DEF Begins
      <4>3. CASE Exit(s, k)    BY <4>1, <4>3 DEF Exit
      <4> QED  BY <1>3, <2>1, <4>2, <4>3
    <3>3. ASSUME NEW j \in 1 .. Cores, Owes(s, j)'
          PROVE  Owes(s, j) /\ burn'[s][j] = burn[s][j] /\ lag'[s][j] = lag[s][j]
      <4>1. CASE Begins(s, k)  BY <3>2, <3>3, <4>1 DEF Owes, Begins, clocks
      <4>2. CASE Exit(s, k)
        <5>1. child'[s][k] = "over"  BY <4>2 DEF Exit, Typed, SpikeOK
        <5>2. j # k  BY <3>3, <5>1 DEF Owes
        <5> QED  BY <3>2, <3>3, <4>2, <5>2 DEF Owes, Exit, Typed, SpikeOK
      <4> QED  BY <1>3, <2>1, <4>1, <4>2
    <3>4. /\ stage[s] # "idle" /\ stage[s] # "done"
          /\ stage[s] \in {"asleep", "failed"} => child[s][k] \in {"starts", "runs"}
      BY <3>2 DEF Good
    <3> QED  BY <2>0, <3>1, <3>2, <3>3, <3>4 DEF Good
  <2>2. CASE t # s
    BY <1>3, <2>2, LeftAlone DEF Alone, Begins, Exit, pipeline, clocks, Typed, SpikeOK
  <2> QED  BY <2>1, <2>2
<1>4. CASE \E r \in Scans : Scan(r)  BY <1>4, ScanGood
<1>5. ASSUME NEW r \in Scans, NEW c \in Tools, ToolEnds(r, c), UNCHANGED spiking  PROVE Good(s)'
  BY <1>5, LeftAlone DEF Alone, ToolEnds, pipeline, spiking
<1>6. CASE Tick
  <2>0. s \in Requests /\ ListOf(s)' = ListOf(s)  BY DEF Requests, ListOf
  <2>1. timer'[s] = Less(timer[s]) /\ UNCHANGED <<gate, stage, child, at, listed>>
    BY <1>6, <2>0 DEF Tick
  <2>2. ASSUME NEW k \in 1 .. Cores, Owes(s, k)', stage[s] # "idle"
        PROVE  /\ Owes(s, k)
               /\ stage[s] = "asleep" => burn'[s][k] + Grace <= timer'[s] + lag'[s][k]
               /\ stage[s] \in {"ending", "done", "raised"} => burn'[s][k] + Grace <= lag'[s][k]
    <3>0. Grace \in Nat /\ timer[s] \in Nat /\ burn[s][k] \in Nat /\ lag[s][k] \in Nat
      BY <2>0, Parameters DEF Assumptions, SpikeAssumption, Typed, PipeOK, SpikeOK
    <3>1. /\ burn'[s][k] = IF child[s][k] = "runs" THEN Less(burn[s][k]) ELSE burn[s][k]
          /\ lag'[s][k] = IF child[s][k] = "starts" /\ lag[s][k] < burn[s][k] + Grace THEN lag[s][k] + 1
                          ELSE lag[s][k]
      BY <1>6 DEF Tick
    <3>2. Owes(s, k)  BY <2>1, <2>2, <3>0, <3>1 DEF Owes, Less
    <3>3. CASE stage[s] = "asleep"
      <4>1. child[s][k] \in {"starts", "runs"} /\ burn[s][k] + Grace <= timer[s] + lag[s][k]
        BY <3>2, <3>3 DEF Good, Owes
      <4> QED  BY <2>1, <2>2, <3>0, <3>1, <3>2, <3>3, <4>1 DEF Owes, Less
    <3>4. CASE stage[s] \in {"ending", "done", "raised"}
      <4>1. burn[s][k] + Grace <= lag[s][k]  BY <3>2, <3>4 DEF Good
      <4> QED  BY <3>0, <3>1, <3>2, <3>4, <4>1 DEF Less
    <3> QED  BY <3>2, <3>3, <3>4
  <2> QED  BY <2>0, <2>1, <2>2 DEF Good
<1>7. CASE UNCHANGED vars
  BY <1>7, LeftAlone DEF Alone, vars, pipeline, spiking
<1> QED  BY <1>1, <1>2, <1>3, <1>4, <1>5, <1>6, <1>7 DEF Next

LEMMA SpikesAreGood == Spec => []SpikeInv
<1>1. ASSUME Init, NEW s \in Spikes  PROVE Good(s)
  <2>1. /\ gate[s] = "new" /\ stage[s] = "idle" /\ listed = {} /\ at[s] = 1
        /\ \A k \in 1 .. Cores : child[s][k] = "none"
    BY <1>1 DEF Init, PipelineInit, SpikeInit, Requests
  <2> QED  BY <2>1 DEF Good
<1>2. Init => SpikeInv  BY <1>1 DEF SpikeInv
<1> QED  BY <1>2, StaysTyped, SpikeStep, PTL DEF Spec

(* A process that is told to end before it has burnt for its duration was  *)
(* late to begin, by more than the grace and at least what it loses.       *)
THEOREM DurationIsKept == Spec => []NothingCutShort
<1>1. SpikeInv /\ Typed => NothingCutShort
  BY DEF SpikeInv, Good, Owes, NothingCutShort, Typed, SpikeOK
<1> QED  BY <1>1, SpikesAreGood, StaysTyped, PTL

(* A clean-up that gets to its end leaves nothing running, open or listed. *)
THEOREM CleanupIsComplete == Spec => []Cleaned
<1>1. SpikeInv => Cleaned
  BY DEF SpikeInv, Good, Cleaned
<1> QED  BY <1>1, SpikesAreGood, PTL

-----------------------------------------------------------------------------
(* Who holds the loop, and for how long it still may: a clean-up has spent *)
(* a join on each process before the one it is at, and on that one too     *)
(* once it was told to terminate; a diagnosis looks a host up twice, and   *)
(* connects.                                                               *)
Spent(s) == IF at[s] <= Cores /\ child[s][at[s]] \notin {"none", "starts", "runs"} THEN at[s] ELSE at[s] - 1
Blocking == {"guard", "resolve", "connect"}

SpikeHold(s) == /\ loop = s <=> stage[s] = "ending"
                /\ loop = s => held + timer[s] <= Spent(s) * JoinTime
ScanHold(r) == /\ loop = r <=> step[r] \in Blocking
               /\ step[r] = "guard" => held + timer[r] <= LookupTime
               /\ step[r] = "resolve" => held + timer[r] <= 2 * LookupTime
               /\ step[r] = "connect" => held + timer[r] <= 2 * LookupTime + ConnectTime
               /\ step[r] \in {"resolve", "connect"} => now[r] = "tcp"

HoldInv == /\ Free => held = 0
           /\ \A s \in Spikes : SpikeHold(s)
           /\ \A r \in Scans : ScanHold(r)

LEMMA OneBefore == \A n \in Nat : n >= 1 => n - 1 \in Nat /\ (n - 1) + 1 = n
  OBVIOUS
LEMMA Times == \A n, j \in Nat : n * j \in Nat /\ (n + 1) * j = n * j + j
  OBVIOUS

(* A step that leaves the loop free, and nobody to hold it.                *)
LEMMA LoopFree ==
  ASSUME Typed, loop' = Nobody, held' = 0,
         \A s \in Spikes : stage'[s] # "ending", \A r \in Scans : step'[r] \notin Blocking
  PROVE  HoldInv'
BY Parameters DEF HoldInv, SpikeHold, ScanHold, Free, Blocking, Assumptions, PipelineAssumption

LEMMA NobodyHolds ==
  ASSUME HoldInv, Free
  PROVE  /\ loop = Nobody /\ held = 0
         /\ \A s \in Spikes : stage[s] # "ending"
         /\ \A r \in Scans : step[r] \notin Blocking
BY Parameters DEF HoldInv, SpikeHold, ScanHold, Free, Assumptions, PipelineAssumption

(* Only one holds it.                                                      *)
LEMMA OneHolds ==
  ASSUME HoldInv, NEW x \in Requests, loop = x
  PROVE  /\ \A s \in Spikes : s # x => stage[s] # "ending"
         /\ \A r \in Scans : r # x => step[r] \notin Blocking
BY DEF HoldInv, SpikeHold, ScanHold

LEMMA MiddlewareHold ==
  ASSUME Typed, HoldInv, NEW r \in Requests, Middleware(r)
  PROVE  HoldInv'
<1>1. Free /\ UNCHANGED <<loop, held, stage, step>>
  BY DEF Middleware, Arrive, Inject, Deny, Enters, spiking, scanning
<1> QED  BY <1>1, NobodyHolds, LoopFree

(* The clean-up at work keeps the loop.                                    *)
LEMMA CleanupHold ==
  ASSUME Typed, HoldInv, NEW s \in Spikes, loop = s, stage[s] = "ending",
         UNCHANGED <<loop, held, stage, step, scanning>>,
         timer'[s] \in Nat, held + timer'[s] <= Spent(s)' * JoinTime
  PROVE  HoldInv'
<1>1. s \in Requests  BY DEF Requests
<1>2. \A t \in Spikes : SpikeHold(t)'
  BY <1>1, OneHolds DEF SpikeHold
<1>3. \A r \in Scans : ScanHold(r)'
  BY <1>1, OneHolds, Parameters DEF ScanHold, Blocking, Assumptions, PipelineAssumption
<1>4. (Free => held = 0)'
  BY Parameters DEF Free, Assumptions, PipelineAssumption, Requests
<1> QED  BY <1>2, <1>3, <1>4 DEF HoldInv

LEMMA SpikeHolds ==
  ASSUME Typed, SpikeInv, HoldInv, NEW s \in Spikes, Spike(s)
  PROVE  HoldInv'
<1> USE Parameters DEF Assumptions, SpikeAssumption, Typed, PipeOK, SpikeOK
<1>0. s \in Requests /\ JoinTime \in Nat /\ timer[s] \in Nat /\ held \in Nat
  BY DEF Requests
<1>1. CASE StartSpike(s) \/ StartFails(s)
  <2>1. /\ Free /\ UNCHANGED <<loop, held, step>>
        /\ \A t \in Spikes : stage'[t] = stage[t] \/ stage'[t] \in {"asleep", "failed"}
    BY <1>1 DEF StartSpike, StartFails, Enters, Stage, Spike, scanning
  <2> QED  BY <2>1, NobodyHolds, LoopFree
<1>2. CASE Wake(s)
  <2>1. /\ Free /\ loop' = s /\ held' = held /\ timer[s] = 0 /\ UNCHANGED <<timer, child, at, step, now>>
        /\ stage' = [stage EXCEPT ![s] = "ending"]
    BY <1>2 DEF Wake, Stage, Hold, Spike, scanning
  <2>2. /\ held = 0 /\ \A t \in Spikes : stage[t] # "ending"
        /\ \A r \in Scans : step[r] \notin Blocking
    BY <2>1, NobodyHolds
  <2>3. at[s] = 1 /\ Spent(s)' = Spent(s) /\ Spent(s) \in Nat
    BY <1>2, <2>1 DEF Wake, SpikeInv, Good, Spent
  <2>4. Spent(s) * JoinTime \in Nat  BY <1>0, <2>3, Times
  <2>5. \A t \in Spikes : SpikeHold(t)'
    BY <2>1, <2>2, <2>3, <2>4 DEF SpikeHold
  <2>6. \A r \in Scans : ScanHold(r)'
    BY <2>1, <2>2 DEF ScanHold, Blocking, PipelineAssumption
  <2>7. (Free => held = 0)'
    BY <1>0, <2>1 DEF Free, PipelineAssumption, Requests
  <2> QED  BY <2>5, <2>6, <2>7 DEF HoldInv
<1>3. ASSUME stage[s] = "ending"
      PROVE  loop = s /\ held + timer[s] <= Spent(s) * JoinTime
  BY <1>3 DEF HoldInv, SpikeHold
<1>4. CASE Close(s)
  <2>1. /\ stage[s] = "ending" /\ at[s] \in 1 .. Cores /\ child[s][at[s]] = "over"
        /\ at'[s] = at[s] + 1 /\ timer'[s] = 0
        /\ UNCHANGED <<loop, held, stage, step, scanning>>
    BY <1>0, <1>4 DEF Close, AtOne, Timer, Spike, scanning
  <2>2. Spent(s) = at[s] /\ Spent(s)' \in {at[s], at[s] + 1}
    BY <2>1 DEF Spent
  <2>3. at[s] * JoinTime <= (at[s] + 1) * JoinTime /\ at[s] * JoinTime \in Nat
    BY <1>0, <2>1, Times
  <2>4. held + timer'[s] <= Spent(s)' * JoinTime
    BY <1>0, <1>3, <2>1, <2>2, <2>3, Times
  <2>5. timer'[s] \in Nat  BY <2>1
  <2> HIDE DEF Typed, PipeOK, SpikeOK
  <2> QED  BY <1>3, <2>1, <2>4, <2>5, CleanupHold
<1>5. CASE Terminate(s)
  <2>1. /\ stage[s] = "ending" /\ at[s] \in 1 .. Cores /\ child[s][at[s]] \in {"starts", "runs"}
        /\ child'[s][at[s]] = "asked" /\ at' = at /\ timer'[s] = JoinTime
        /\ UNCHANGED <<loop, held, stage, step, scanning>>
    BY <1>0, <1>5 DEF Terminate, AtOne, Turn, Timer, Spike, scanning
  <2>2. Spent(s) = at[s] - 1 /\ Spent(s)' = at[s]  BY <2>1 DEF Spent
  <2>3. at[s] * JoinTime = (at[s] - 1) * JoinTime + JoinTime /\ (at[s] - 1) * JoinTime \in Nat
    <3>1. at[s] - 1 \in Nat /\ (at[s] - 1) + 1 = at[s]  BY <2>1
    <3> QED  BY <1>0, <3>1, Times
  <2>4. held + timer'[s] <= Spent(s)' * JoinTime
    BY <1>0, <1>3, <2>1, <2>2, <2>3
  <2> QED  BY <1>0, <1>3, <2>1, <2>4, CleanupHold
<1>6. CASE Kill(s)
  <2>1. /\ stage[s] = "ending" /\ child[s][at[s]] = "asked"
        /\ child'[s][at[s]] = "killed" /\ at' = at
        /\ UNCHANGED <<loop, held, timer, stage, step, scanning>>
    BY <1>6 DEF Kill, AtOne, Turn, pipeline, Spike, scanning
  <2>2. Spent(s)' = Spent(s)  BY <2>1 DEF Spent
  <2> QED  BY <1>0, <1>3, <2>1, <2>2, CleanupHold
<1>7. CASE Raise(s) \/ Done(s)
  <2>1. /\ stage[s] = "ending" /\ loop' = Nobody /\ held' = 0 /\ step' = step
        /\ stage'[s] # "ending" /\ \A t \in Spikes : t # s => stage'[t] = stage[t]
    BY <1>7 DEF Raise, Done, AtOne, Stage, GiveWay, Spike, scanning
  <2> QED  BY <1>0, <1>3, <2>1, OneHolds, LoopFree
<1> QED  BY <1>1, <1>2, <1>4, <1>5, <1>6, <1>7 DEF Spike, Cleanup

(* A diagnosis that may go on: the loop is free, or its own.               *)
LEMMA BeginHold ==
  ASSUME Typed, HoldInv, NEW r \in Scans, NEW k, NEW c \in Checks \union {"end"}, Begin(r, k, c),
         UNCHANGED stage, Free \/ loop = r, c = "tcp" => held <= LookupTime
  PROVE  HoldInv'
<1> USE Parameters DEF Assumptions, PipelineAssumption, NetworkAssumption, Typed, PipeOK, ScanOK
<1>0. r \in Requests  BY DEF Requests
<1>1. /\ \A s \in Spikes : stage[s] # "ending"
      /\ \A q \in Scans : q # r => step[q] \notin Blocking
  BY <1>0, NobodyHolds, OneHolds
<1>2. CASE c # "tcp"
  <2>1. loop' = Nobody /\ held' = 0 /\ step'[r] \in {"await", "done"}
    BY <1>2 DEF Begin, GiveWay
  <2>2. \A q \in Scans : q # r => step'[q] = step[q]  BY DEF Begin
  <2> QED  BY <1>1, <2>1, <2>2, LoopFree DEF Blocking
<1>3. CASE c = "tcp"
  <2>1. /\ loop' = r /\ held' = held /\ timer'[r] = LookupTime /\ step'[r] = "resolve" /\ now'[r] = "tcp"
        /\ \A q \in Scans : q # r => step'[q] = step[q]
    BY <1>0, <1>3 DEF Begin, Hold, Timer, Tools
  <2>2. ScanHold(r)'  BY <1>3, <2>1 DEF ScanHold, Blocking
  <2>3. \A q \in Scans : q # r => ScanHold(q)'
    BY <1>1, <2>1 DEF ScanHold, Blocking
  <2>4. \A s \in Spikes : SpikeHold(s)'
    BY <1>1, <2>1 DEF SpikeHold
  <2>5. (Free => held = 0)'  BY <1>0, <2>1 DEF Free
  <2> QED  BY <2>2, <2>3, <2>4, <2>5 DEF HoldInv
<1> QED  BY <1>2, <1>3

LEMMA ScanHolds ==
  ASSUME Typed, HoldInv, NEW r \in Scans, Scan(r)
  PROVE  HoldInv'
<1> USE Parameters DEF Assumptions, PipelineAssumption, NetworkAssumption, Typed, PipeOK, ScanOK
<1>0. r \in Requests /\ UNCHANGED stage /\ timer[r] \in Nat /\ held \in Nat
  BY DEF Requests, Scan, spiking
<1>1. ScanHold(r)  BY DEF HoldInv
<1>2. ASSUME GoOn(r), Free \/ step[r] \in {"resolve", "connect"}  PROVE HoldInv'
  <2>1. After(kind[r], now[r]) \in Checks \union {"end"}  BY AfterType
  <2>2. CASE Free
    <3>1. held = 0  BY <2>2, NobodyHolds
    <3> QED  BY <1>0, <1>2, <2>1, <2>2, <3>1, BeginHold DEF GoOn
  <2>3. CASE step[r] \in {"resolve", "connect"}
    <3>1. loop = r /\ now[r] = "tcp"  BY <1>1, <2>3 DEF ScanHold, Blocking
    <3>2. After(kind[r], now[r]) # "tcp"
      BY <3>1 DEF After
    <3> QED  BY <1>0, <1>2, <2>1, <3>1, <3>2, BeginHold DEF GoOn
  <2> QED  BY <1>2, <2>2, <2>3
<1>3. CASE Ask(r)
  <2>1. Free  BY <1>3 DEF Ask, Enters
  <2>2. /\ loop = Nobody /\ held = 0
        /\ \A s \in Spikes : stage[s] # "ending"
        /\ \A q \in Scans : step[q] \notin Blocking
    BY <2>1, NobodyHolds
  <2>3. PICK k \in Kinds : \/ Begin(r, k, First(k))
                           \/ /\ Timer(r, LookupTime) /\ Hold(r)
                              /\ step' = [step EXCEPT ![r] = "guard"]
    BY <1>3 DEF Ask
  <2>4. CASE Begin(r, k, First(k))
    BY <1>0, <2>1, <2>2, <2>4, FirstType, BeginHold
  <2>5. CASE Timer(r, LookupTime) /\ Hold(r) /\ step' = [step EXCEPT ![r] = "guard"]
    <3>1. loop' = r /\ held' = 0 /\ timer'[r] = LookupTime /\ step'[r] = "guard"
      BY <1>0, <2>2, <2>5 DEF Timer, Hold
    <3>2. \A q \in Scans : ScanHold(q)'  BY <2>2, <2>5, <3>1 DEF ScanHold, Blocking
    <3>3. \A s \in Spikes : SpikeHold(s)'  BY <1>0, <2>2, <3>1 DEF SpikeHold
    <3>4. (Free => held = 0)'  BY <3>1 DEF Free
    <3> QED  BY <3>2, <3>3, <3>4 DEF HoldInv
  <2> QED  BY <2>3, <2>4, <2>5
<1>4. CASE GuardPasses(r)
  <2>1. loop = r /\ held <= LookupTime
    BY <1>0, <1>1, <1>4 DEF GuardPasses, ScanHold, Blocking
  <2>2. First(kind[r]) \in Checks  BY <1>4, FirstType DEF GuardPasses
  <2> QED  BY <1>0, <1>4, <2>1, <2>2, BeginHold DEF GuardPasses
<1>5. CASE GuardRefuses(r)
  <2>1. loop = r  BY <1>1, <1>5 DEF GuardRefuses, ScanHold, Blocking
  <2>2. loop' = Nobody /\ held' = 0 /\ step' = [step EXCEPT ![r] = "done"]
    BY <1>5 DEF GuardRefuses, GiveWay
  <2>3. \A s \in Spikes : stage'[s] # "ending"  BY <1>0, <2>1, OneHolds
  <2>4. \A q \in Scans : step'[q] \notin Blocking  BY <1>0, <2>1, <2>2, OneHolds DEF Blocking
  <2> QED  BY <2>2, <2>3, <2>4, LoopFree
<1>6. CASE Resolved(r)
  <2>1. /\ step[r] = "resolve" /\ step' = [step EXCEPT ![r] = "connect"] /\ timer'[r] = ConnectTime
        /\ UNCHANGED <<loop, held, now>>
    BY <1>0, <1>6 DEF Resolved, Timer
  <2>2. loop = r /\ held <= 2 * LookupTime /\ now[r] = "tcp"
    BY <1>0, <1>1, <2>1 DEF ScanHold, Blocking
  <2>3. ScanHold(r)'  BY <1>0, <2>1, <2>2 DEF ScanHold, Blocking
  <2>4. \A q \in Scans : q # r => ScanHold(q)'
    BY <1>0, <2>1, <2>2, OneHolds DEF ScanHold, Blocking
  <2>5. \A s \in Spikes : SpikeHold(s)'
    BY <1>0, <2>1, <2>2, OneHolds DEF SpikeHold
  <2>6. (Free => held = 0)'  BY <1>0, <2>1, <2>2 DEF Free
  <2> QED  BY <2>3, <2>4, <2>5, <2>6 DEF HoldInv
<1>7. CASE TcpEnds(r)  BY <1>2, <1>7 DEF TcpEnds
<1>8. CASE ToolAnswers(r) \/ ToolFails(r) \/ LookupEnds(r) \/ CurlEnds(r)
  BY <1>2, <1>8 DEF ToolAnswers, ToolFails, LookupEnds, CurlEnds, Awaits
<1>9. CASE LookupRaises(r)
  <2>1. Free /\ loop' = Nobody /\ held' = 0 /\ step' = [step EXCEPT ![r] = "done"]
    BY <1>9 DEF LookupRaises, Awaits, GiveWay
  <2> QED  BY <1>0, <2>1, NobodyHolds, LoopFree DEF Blocking
<1> QED  BY <1>3, <1>4, <1>5, <1>6, <1>7, <1>8, <1>9 DEF Scan, Answering

LEMMA TickHold ==
  ASSUME Typed, HoldInv, Tick
  PROVE  HoldInv'
<1> USE Parameters DEF Assumptions, PipelineAssumption, NetworkAssumption, SpikeAssumption, Typed, PipeOK, ScanOK, SpikeOK
<1>1. UNCHANGED <<loop, stage, step, now, at, child>>  BY DEF Tick, scanning
<1>2. CASE Free
  <2>1. held' = 0  BY <1>2 DEF Tick
  <2> QED  BY <1>1, <1>2, <2>1, NobodyHolds, LoopFree
<1>3. CASE ~Free
  <2>1. loop \in Requests /\ timer[loop] > 0 /\ held' = held + 1 /\ timer'[loop] = timer[loop] - 1
    BY <1>3 DEF Tick, Less
  <2>0. held \in Nat /\ timer[loop] \in Nat  BY <2>1
  <2>2. held' + timer'[loop] = held + timer[loop]  BY <2>0, <2>1
  <2>3. \A s \in Spikes : SpikeHold(s)'
    <3> SUFFICES ASSUME NEW s \in Spikes  PROVE SpikeHold(s)'
      OBVIOUS
    <3>1. Spent(s)' = Spent(s)  BY <1>1 DEF Spent
    <3> QED  BY <1>1, <2>2, <3>1 DEF HoldInv, SpikeHold
  <2>4. \A r \in Scans : ScanHold(r)'
    <3> SUFFICES ASSUME NEW r \in Scans  PROVE ScanHold(r)'
      OBVIOUS
    <3> QED  BY <1>1, <2>2 DEF HoldInv, ScanHold, Blocking
  <2>5. (Free => held = 0)'  BY <1>1, <1>3 DEF Free
  <2> QED  BY <2>3, <2>4, <2>5 DEF HoldInv
<1> QED  BY <1>2, <1>3

(* What the operating system does leaves the time spent as it is, or later. *)
LEMMA ExitHold ==
  ASSUME Typed, HoldInv, NEW s \in Spikes, NEW k \in 1 .. Cores, Begins(s, k) \/ Exit(s, k), UNCHANGED scanning
  PROVE  HoldInv'
<1> USE Parameters DEF Assumptions, SpikeAssumption, Typed, PipeOK, SpikeOK
<1>1. UNCHANGED <<loop, held, timer, stage, step, now, at>>  BY DEF Begins, Exit, pipeline, scanning
<1>2. \A t \in Spikes : SpikeHold(t)'
  <2> SUFFICES ASSUME NEW t \in Spikes  PROVE SpikeHold(t)'
    OBVIOUS
  <2>0. JoinTime \in Nat /\ held \in Nat /\ timer[t] \in Nat /\ at[t] \in Nat /\ at[t] >= 1
    BY DEF Requests
  <2>1. Spent(t)' = Spent(t) \/ (Spent(t) = at[t] - 1 /\ Spent(t)' = at[t])
    <3>1. CASE at[t] <= Cores
      <4>0. child \in [Spikes -> [1 .. Cores -> {"none", "starts", "runs", "asked", "killed", "over", "closed"}]]
        OBVIOUS
      <4>1. \A j \in 1 .. Cores : \/ child'[t][j] \in {child[t][j], "over"}
                                  \/ child[t][j] = "starts" /\ child'[t][j] = "runs"
        <5> HIDE DEF Typed, PipeOK, SpikeOK
        <5>1. CASE Begins(s, k)  BY <4>0, <5>1 DEF Begins
        <5>2. CASE Exit(s, k)    BY <4>0, <5>2 DEF Exit
        <5> QED  BY <5>1, <5>2
      <4>2. at[t] \in 1 .. Cores  BY <2>0, <3>1
      <4> QED  BY <1>1, <4>1, <4>2 DEF Spent
    <3>2. CASE ~(at[t] <= Cores)  BY <1>1, <3>2 DEF Spent
    <3> QED  BY <3>1, <3>2
  <2>2. at[t] * JoinTime = (at[t] - 1) * JoinTime + JoinTime /\ (at[t] - 1) * JoinTime \in Nat
    <3>1. at[t] - 1 \in Nat /\ (at[t] - 1) + 1 = at[t]  BY <2>0, OneBefore
    <3> QED  BY <2>0, <3>1, Times
  <2>3. loop = t => held + timer[t] <= Spent(t)' * JoinTime
    BY <2>0, <2>1, <2>2 DEF HoldInv, SpikeHold
  <2> QED  BY <1>1, <2>3 DEF HoldInv, SpikeHold
<1>3. \A r \in Scans : ScanHold(r)'  BY <1>1 DEF HoldInv, ScanHold
<1> QED  BY <1>1, <1>2, <1>3 DEF HoldInv, Free

LEMMA HoldStep == Typed /\ SpikeInv /\ HoldInv /\ [Next]_vars => HoldInv'
<1> SUFFICES ASSUME Typed, SpikeInv, HoldInv, [Next]_vars  PROVE HoldInv'
  OBVIOUS
<1>1. CASE \E r \in Requests : Middleware(r)  BY <1>1, MiddlewareHold
<1>2. CASE \E s \in Spikes : Spike(s)  BY <1>2, SpikeHolds
<1>3. CASE \E s \in Spikes, k \in 1 .. Cores : (Begins(s, k) \/ Exit(s, k)) /\ UNCHANGED scanning
  BY <1>3, ExitHold
<1>4. CASE \E r \in Scans : Scan(r)  BY <1>4, ScanHolds
<1>5. ASSUME UNCHANGED <<loop, held, timer, stage, child, at, step, now>>  PROVE HoldInv'
  BY <1>5 DEF HoldInv, SpikeHold, ScanHold, Spent, Free
<1>6. CASE \E r \in Scans, c \in Tools : ToolEnds(r, c) /\ UNCHANGED spiking
  BY <1>5, <1>6 DEF ToolEnds, pipeline, spiking
<1>7. CASE Tick  BY <1>7, TickHold
<1>8. CASE UNCHANGED vars  BY <1>5, <1>8 DEF vars, pipeline, spiking, scanning
<1> QED  BY <1>1, <1>2, <1>3, <1>4, <1>6, <1>7, <1>8 DEF Next

LEMMA HoldsStay == Spec => []HoldInv
<1>1. Init => HoldInv
  BY Parameters DEF Assumptions, PipelineAssumption, Init, PipelineInit, SpikeInit, NetworkInit,
                    HoldInv, SpikeHold, ScanHold, Free, Blocking
<1> QED  BY <1>1, StaysTyped, SpikesAreGood, HoldStep, PTL DEF Spec

(* No clean-up holds the event loop for longer than a join for each core,  *)
(* and no diagnosis for longer than two lookups and a connection.          *)
THEOREM LoopIsShared == Spec => []HoldsAreBounded
<1>1. ASSUME Typed, HoldInv  PROVE HoldsAreBounded
  <2> USE Parameters DEF Assumptions, SpikeAssumption, NetworkAssumption, Typed, PipeOK, SpikeOK, HoldInv
  <2>1. ASSUME loop \in Spikes  PROVE held <= Cores * JoinTime
    <3>0. JoinTime \in Nat /\ held \in Nat /\ timer[loop] \in Nat  BY <1>1, <2>1 DEF Requests
    <3>1. Spent(loop) \in 0 .. Cores  BY <1>1, <2>1 DEF Spent
    <3>2. held + timer[loop] <= Spent(loop) * JoinTime  BY <1>1, <2>1 DEF SpikeHold
    <3>3. Cores * JoinTime = Spent(loop) * JoinTime + (Cores - Spent(loop)) * JoinTime
      BY <3>0, <3>1
    <3>4. (Cores - Spent(loop)) * JoinTime \in Nat /\ Spent(loop) * JoinTime \in Nat
      BY <3>0, <3>1, Times
    <3> QED  BY <3>0, <3>2, <3>3, <3>4
  <2>2. ASSUME loop \in Scans  PROVE held <= 2 * LookupTime + ConnectTime
    <3>0. LookupTime \in Nat /\ ConnectTime \in Nat /\ held \in Nat /\ timer[loop] \in Nat
      BY <1>1, <2>2 DEF Requests
    <3>1. ScanHold(loop) /\ step[loop] \in Blocking  BY <1>1, <2>2 DEF ScanHold
    <3> QED  BY <3>0, <3>1 DEF ScanHold, Blocking
  <2>3. Free => held = 0  BY <1>1
  <2> QED  BY <2>1, <2>2, <2>3 DEF HoldsAreBounded
<1> QED  BY <1>1, StaysTyped, HoldsStay, PTL

-----------------------------------------------------------------------------
(* A diagnosis on its way: the checks that were planned and come before    *)
(* the one it is at are reported, and no others; only a subprocess that it *)
(* awaits was started and is not reported, or runs without having been     *)
(* reported as failed.                                                     *)
Rank(c) == IF c = "ping" THEN 1 ELSE IF c = "dns" THEN 2 ELSE IF c = "tcp" THEN 3
           ELSE IF c = "trace" THEN 4 ELSE IF c = "http" THEN 5 ELSE 6
Checking == {"await", "resolve", "connect"}

Told(r) ==
  /\ gate[r] \in {"new", "failing", "passing"} => step[r] = "idle"
  /\ step[r] \in Checking \union {"guard"} => gate[r] = "handled"
  /\ gate[r] = "answered" => \A c \in Planned(kind[r]) : report[r][c] # "none"
  /\ gate[r] = "broken" => step[r] = "done" /\ now[r] = "dns" /\ tool[r]["trace"] = "none"
  /\ step[r] \in {"idle", "guard"} \/ gate[r] = "refused" => \A c \in Tools : tool[r][c] = "none"
  /\ step[r] \in {"idle", "guard"} => \A c \in Checks : report[r][c] = "none"
  /\ step[r] \in Checking =>
       /\ now[r] \in Planned(kind[r])
       /\ \A c \in Checks : report[r][c] # "none" <=> c \in Planned(kind[r]) /\ Rank(c) < Rank(now[r])
  /\ step[r] \in {"resolve", "connect"} => now[r] = "tcp"
  /\ \A c \in Tools : /\ report[r][c] = "output" => tool[r][c] = "ended"
                      /\ tool[r][c] = "runs" => \/ report[r][c] = "error"
                                                \/ step[r] = "await" /\ now[r] = c
                      /\ tool[r][c] # "none" => \/ report[r][c] # "none"
                                                \/ step[r] = "await" /\ now[r] = c

ToldInv == \A r \in Scans : Told(r)

(* The plan is followed in order.                                          *)
LEMMA InOrder ==
  ASSUME NEW k \in Kinds
  PROVE  /\ First(k) \in Planned(k)
         /\ \A d \in Planned(k) : ~(Rank(d) < Rank(First(k)))
         /\ \A c \in Planned(k) : /\ After(k, c) \in Planned(k) \union {"end"}
                                  /\ \A d \in Planned(k) : Rank(d) < Rank(After(k, c)) <=>
                                                            Rank(d) < Rank(c) \/ d = c
<1>1. ASSUME k \in ScanKinds, NEW c \in Planned(k)
      PROVE  /\ After(k, c) \in Planned(k) \union {"end"}
             /\ \A d \in Planned(k) : Rank(d) < Rank(After(k, c)) <=> Rank(d) < Rank(c) \/ d = c
  <2>1. CASE k = "scan"
    <3>1. Planned(k) = {"ping", "dns", "trace"}  BY <2>1 DEF Planned
    <3>2. After(k, c) = IF c = "trace" THEN "end" ELSE IF c = "ping" THEN "dns" ELSE "trace"
      BY <2>1 DEF After, ScanKinds
    <3> QED  BY <1>1, <3>1, <3>2 DEF Rank
  <2>2. CASE k = "scan port"
    <3>1. Planned(k) = {"ping", "dns", "tcp", "trace"}  BY <2>2 DEF Planned
    <3>2. After(k, c) = IF c = "trace" THEN "end" ELSE IF c = "ping" THEN "dns"
                        ELSE IF c = "dns" THEN "tcp" ELSE "trace"
      BY <2>2 DEF After, ScanKinds
    <3> QED  BY <1>1, <3>1, <3>2 DEF Rank
  <2> QED  BY <1>1, <2>1, <2>2 DEF ScanKinds
<1>2. ASSUME k \in ScanKinds
      PROVE  First(k) \in Planned(k) /\ \A d \in Planned(k) : ~(Rank(d) < Rank(First(k)))
  <2>1. First(k) = "ping" /\ Rank("ping") = 1  BY <1>2 DEF First, Rank
  <2>2. Planned(k) \subseteq Checks /\ "ping" \in Planned(k)  BY <1>2 DEF Planned, ScanKinds, Checks, Tools
  <2>3. \A d \in Checks : ~(Rank(d) < 1)  BY DEF Rank, Checks, Tools
  <2> QED  BY <2>1, <2>2, <2>3
<1>3. CASE k \notin ScanKinds
  <2>1. Planned(k) = {k} /\ First(k) = k /\ k \in Checks
    BY <1>3 DEF Planned, First, Kinds, ScanKinds
  <2>2. Rank(k) \in Nat /\ Rank(k) < Rank("end")  BY <2>1 DEF Rank, Checks, Tools
  <2>3. \A c : After(k, c) = "end"  BY <1>3 DEF After
  <2> QED  BY <2>1, <2>2, <2>3
<1> QED  BY <1>1, <1>2, <1>3

(* What is reported when a diagnosis goes on makes it right as it does.    *)
LEMMA BeginTold ==
  ASSUME Typed, Typed', NEW r \in Scans, NEW k \in Kinds, kind'[r] = k, NEW c \in Planned(k) \union {"end"},
         Begin(r, k, c),
         \A d \in Checks : report'[r][d] # "none" <=> d \in Planned(k) /\ Rank(d) < Rank(c),
         \A d \in Tools : /\ report'[r][d] = "output" => tool[r][d] = "ended"
                          /\ tool[r][d] = "runs" => report'[r][d] = "error"
                          /\ tool[r][d] # "none" => report'[r][d] # "none"
  PROVE  Told(r)'
<1> USE DEF Typed, PipeOK, ScanOK
<1>0. r \in Requests /\ c \in Checks \union {"end"} /\ Planned(k) \subseteq Checks
  BY DEF Requests, Planned, Kinds, ScanKinds, Checks, Tools
<1>1. now'[r] = c /\ gate'[r] = IF c = "end" THEN "answered" ELSE "handled"
  BY <1>0 DEF Begin, Gate
<1>2. Rank(c) \in Nat /\ \A d \in Checks : Rank(d) < Rank("end")
  BY DEF Rank, Checks, Tools
<1>3. CASE c \in Tools
  <2>1. PICK s \in {"runs", "missing"} : tool' = [tool EXCEPT ![r][c] = s]
    BY <1>3 DEF Begin, Tools
  <2>2. step'[r] = "await"  BY <1>3 DEF Begin, Tools
  <2>3. report'[r][c] = "none"  BY <1>2, <1>3 DEF Checks
  <2>4. \A d \in Tools : tool'[r][d] = IF d = c THEN s ELSE tool[r][d]
    BY <1>3, <2>1
  <2>5. c # "end"  BY <1>3 DEF Tools
  <2>6. \A d \in Tools : /\ report'[r][d] = "output" => tool'[r][d] = "ended"
                         /\ tool'[r][d] = "runs" => report'[r][d] = "error" \/ d = c
                         /\ tool'[r][d] # "none" => report'[r][d] # "none" \/ d = c
    BY <2>3, <2>4
  <2> QED  BY <1>1, <2>2, <2>5, <2>6 DEF Told, Checking
<1>4. CASE c \notin Tools
  <2>1. tool' = tool  BY <1>4 DEF Begin
  <2>2. \/ c \in {"dns", "http"} /\ step'[r] = "await"
        \/ c = "tcp" /\ step'[r] = "resolve"
        \/ c = "end" /\ step'[r] = "done"
    BY <1>4 DEF Begin
  <2>3. c = "end" => \A d \in Planned(k) : report'[r][d] # "none"
    BY <1>0, <1>2
  <2>4. \A d \in Tools : /\ report'[r][d] = "output" => tool'[r][d] = "ended"
                         /\ tool'[r][d] = "runs" => report'[r][d] = "error"
                         /\ tool'[r][d] # "none" => report'[r][d] # "none"
    BY <2>1
  <2> QED  BY <1>1, <2>2, <2>3, <2>4 DEF Told, Checking
<1> QED  BY <1>3, <1>4

LEMMA ReportTold ==
  ASSUME Typed, Typed', NEW r \in Scans, Told(r), step[r] \in Checking, NEW v \in {"output", "error"},
         Reports(r, v), GoOn(r),
         now[r] \in Tools => v = "error" \/ tool[r][now[r]] = "ended"
  PROVE  Told(r)'
<1> USE DEF Typed, PipeOK, ScanOK
<1> DEFINE k == kind[r]  c == After(k, now[r])
<1>1. k \in Kinds /\ kind'[r] = k /\ Begin(r, k, c)  BY DEF GoOn, Checking
<1>2. now[r] \in Planned(k) /\ now[r] \in Checks
  BY <1>1 DEF Told, Planned, Kinds, ScanKinds, Checks, Tools
<1>3. \A d \in Checks : report'[r][d] = IF d = now[r] THEN v ELSE report[r][d]
  BY <1>2 DEF Reports
<1>4. c \in Planned(k) \union {"end"}  BY <1>1, <1>2, InOrder
<1>5. ASSUME NEW d \in Checks  PROVE report'[r][d] # "none" <=> d \in Planned(k) /\ Rank(d) < Rank(c)
  <2>1. report[r][d] # "none" <=> d \in Planned(k) /\ Rank(d) < Rank(now[r])  BY DEF Told
  <2>2. d \in Planned(k) => (Rank(d) < Rank(c) <=> Rank(d) < Rank(now[r]) \/ d = now[r])
    BY <1>1, <1>2, InOrder
  <2>3. v # "none"  OBVIOUS
  <2> QED  BY <1>2, <1>3, <2>1, <2>2, <2>3
<1>6. ASSUME NEW d \in Tools
      PROVE  /\ report'[r][d] = "output" => tool[r][d] = "ended"
             /\ tool[r][d] = "runs" => report'[r][d] = "error"
             /\ tool[r][d] # "none" => report'[r][d] # "none"
  <2>1. d \in Checks /\ v # "none"  BY DEF Checks
  <2>2. CASE d = now[r]   BY <1>3, <2>1, <2>2 DEF Told
  <2>3. CASE d # now[r]   BY <1>3, <2>1, <2>3 DEF Told
  <2> QED  BY <2>2, <2>3
<1> HIDE DEF k, c
<1> QED  BY <1>1, <1>4, <1>5, <1>6, BeginTold

LEMMA ScanTold ==
  ASSUME Typed, Typed', NEW r \in Scans, Told(r), Scan(r)
  PROVE  Told(r)'
<1> USE DEF Typed, PipeOK, ScanOK
<1>0. r \in Requests  BY DEF Requests
<1>1. ASSUME NEW k \in Kinds, kind'[r] = k, Begin(r, k, First(k)), report' = report, step[r] \in {"idle", "guard"}
      PROVE  Told(r)'
  <2>1. \A d \in Checks : report'[r][d] # "none" <=> d \in Planned(k) /\ Rank(d) < Rank(First(k))
    BY <1>1, InOrder DEF Told
  <2>2. \A d \in Tools : tool[r][d] = "none" /\ report'[r][d] = "none"
    BY <1>1 DEF Told, Checks
  <2> QED  BY <1>1, <2>1, <2>2, InOrder, BeginTold
<1>2. CASE Ask(r)
  <2>1. step[r] = "idle" /\ report' = report  BY <1>2 DEF Ask, Enters, Told
  <2>2. PICK k \in Kinds : /\ kind' = [kind EXCEPT ![r] = k]
                           /\ \/ Begin(r, k, First(k))
                              \/ /\ Gate(r, "handled")
                                 /\ step' = [step EXCEPT ![r] = "guard"]
                                 /\ UNCHANGED <<now, tool>>
    BY <1>2 DEF Ask
  <2>3. CASE Begin(r, k, First(k))  BY <1>1, <2>1, <2>2, <2>3
  <2>4. CASE /\ Gate(r, "handled") /\ step' = [step EXCEPT ![r] = "guard"] /\ UNCHANGED <<now, tool>>
    <3>1. gate'[r] = "handled" /\ step'[r] = "guard"  BY <1>0, <2>4 DEF Gate
    <3> QED  BY <2>1, <2>4, <3>1 DEF Told, Checking, Checks
  <2> QED  BY <2>2, <2>3, <2>4
<1>3. CASE GuardPasses(r)  BY <1>1, <1>3 DEF GuardPasses
<1>4. CASE GuardRefuses(r)
  <2>1. gate'[r] = "refused" /\ step'[r] = "done" /\ step[r] = "guard" /\ UNCHANGED <<kind, tool, report>>
    BY <1>0, <1>4 DEF GuardRefuses, Gate
  <2> QED  BY <2>1 DEF Told, Checking, Checks
<1>5. CASE ToolAnswers(r)
  BY <1>5, ReportTold DEF ToolAnswers, Awaits, Checking
<1>6. CASE ToolFails(r)
  BY <1>6, ReportTold DEF ToolFails, Awaits, Checking
<1>7. CASE LookupEnds(r)
  <2>1. step[r] \in Checking /\ now[r] \notin Tools  BY <1>7 DEF LookupEnds, Awaits, Checking, Tools
  <2> QED  BY <1>7, <2>1, ReportTold DEF LookupEnds
<1>8. CASE CurlEnds(r)
  <2>1. step[r] \in Checking /\ now[r] \notin Tools  BY <1>8 DEF CurlEnds, Awaits, Checking, Tools
  <2> QED  BY <1>8, <2>1, ReportTold DEF CurlEnds
<1>9. CASE Resolved(r)
  <2>1. step[r] = "resolve" /\ step'[r] = "connect" /\ UNCHANGED <<gate, kind, now, tool, report>>
    BY <1>9 DEF Resolved
  <2> QED  BY <2>1 DEF Told, Checking
<1>10. CASE TcpEnds(r)
  <2>1. now[r] \notin Tools  BY <1>10 DEF TcpEnds, Told, Tools
  <2> QED  BY <1>10, <2>1, ReportTold DEF TcpEnds, Checking
<1>11. CASE LookupRaises(r)
  <2>1. /\ step[r] = "await" /\ now[r] = "dns" /\ step'[r] = "done" /\ gate'[r] = "broken"
        /\ UNCHANGED <<kind, now, tool, report>>
    BY <1>0, <1>11 DEF LookupRaises, Awaits, Gate
  <2>2. report[r]["trace"] = "none" /\ tool[r]["trace"] = "none"
    BY <2>1 DEF Told, Checking, Rank, Checks, Tools
  <2>3. \A d \in Tools : /\ report[r][d] = "output" => tool[r][d] = "ended"
                         /\ tool[r][d] = "runs" => report[r][d] = "error"
                         /\ tool[r][d] # "none" => report[r][d] # "none"
    BY <2>1 DEF Told, Tools
  <2> QED  BY <2>1, <2>2, <2>3 DEF Told, Checking
<1> QED  BY <1>2, <1>3, <1>4, <1>5, <1>6, <1>7, <1>8, <1>9, <1>10, <1>11 DEF Scan, Answering

(* What a step of another request leaves of a diagnosis.                   *)
LEMMA LeftTold ==
  ASSUME NEW q \in Scans, Told(q), gate'[q] = gate[q], kind'[q] = kind[q], step'[q] = step[q],
         now'[q] = now[q], tool'[q] = tool[q], report'[q] = report[q]
  PROVE  Told(q)'
BY DEF Told

LEMMA OtherScanTold ==
  ASSUME Typed, NEW q \in Scans, Told(q), NEW r \in Scans \ {q}, Scan(r)
  PROVE  Told(q)'
<1> USE DEF Typed, PipeOK, ScanOK
<1>0. q \in Requests  BY DEF Requests
<1> DEFINE Same == gate'[q] = gate[q] /\ step'[q] = step[q] /\ now'[q] = now[q] /\ tool'[q] = tool[q]
<1>1. ASSUME NEW k, NEW c, Begin(r, k, c)  PROVE Same
  <2>1. gate'[q] = gate[q] /\ now'[q] = now[q]  BY <1>0, <1>1 DEF Begin, Gate
  <2>2. step'[q] = step[q]  BY <1>1 DEF Begin
  <2>3. tool'[q] = tool[q]  BY <1>1 DEF Begin
  <2> QED  BY <2>1, <2>2, <2>3
<1>2. ASSUME GoOn(r), NEW v, Reports(r, v)  PROVE Same /\ kind'[q] = kind[q] /\ report'[q] = report[q]
  BY <1>1, <1>2 DEF GoOn, Reports
<1>3. Same /\ kind'[q] = kind[q] /\ report'[q] = report[q]
  <2>1. CASE Ask(r)  BY <1>0, <1>1, <2>1 DEF Ask, Gate
  <2>2. CASE GuardPasses(r)   BY <1>1, <2>2 DEF GuardPasses
  <2>3. CASE GuardRefuses(r)  BY <1>0, <2>3 DEF GuardRefuses, Gate
  <2>4. CASE Resolved(r)      BY <2>4 DEF Resolved
  <2>5. CASE ToolAnswers(r) \/ ToolFails(r) \/ LookupEnds(r) \/ CurlEnds(r) \/ TcpEnds(r)
    <3>1. PICK v \in {"output", "error"} : Reports(r, v) /\ GoOn(r)
      BY <2>5 DEF ToolAnswers, ToolFails, LookupEnds, CurlEnds, TcpEnds
    <3> QED  BY <1>2, <3>1
  <2>6. CASE LookupRaises(r)  BY <1>0, <2>6 DEF LookupRaises, Gate
  <2> QED  BY <2>1, <2>2, <2>3, <2>4, <2>5, <2>6 DEF Scan, Answering
<1> QED  BY <1>3, LeftTold

LEMMA ToldStep == Typed /\ Typed' /\ ToldInv /\ [Next]_vars => ToldInv'
<1> SUFFICES ASSUME Typed, Typed', NEW q \in Scans, Told(q), [Next]_vars  PROVE Told(q)'
  BY DEF ToldInv
<1> USE DEF Typed, PipeOK, ScanOK
<1>0. q \in Requests  BY DEF Requests
<1>1. ASSUME NEW r \in Requests, Middleware(r)  PROVE Told(q)'
  <2>1. UNCHANGED <<kind, step, now, tool, report>>  BY <1>1 DEF Middleware, scanning
  <2>2. CASE r # q
    <3>1. gate'[q] = gate[q]  BY <1>0, <1>1, <2>2 DEF Middleware, Arrive, Inject, Deny, Gate
    <3> QED  BY <2>1, <3>1, LeftTold
  <2>3. CASE r = q
    <3>1. gate[q] \in {"new", "failing", "passing"} /\ gate'[q] \in {"failing", "passing", "refused"}
      BY <1>0, <1>1, <2>3 DEF Middleware, Arrive, Inject, Deny, Enters, Gate
    <3> QED  BY <2>1, <3>1 DEF Told, Checking
  <2> QED  BY <2>2, <2>3
<1>2. ASSUME NEW s \in Spikes, Spike(s)  PROVE Told(q)'
  <2>1. q # s  BY Parameters DEF Assumptions, PipelineAssumption
  <2>2. gate'[q] = gate[q]
    BY <1>0, <1>2, <2>1 DEF Spike, StartSpike, StartFails, Launch, Gate, Cleanup, Wake, Close, Terminate, Kill,
                            Raise, Done, pipeline
  <2> QED  BY <1>2, <2>2, LeftTold DEF Spike, scanning
<1>3. ASSUME NEW s \in Spikes, NEW k \in 1 .. Cores, Begins(s, k) \/ Exit(s, k), UNCHANGED scanning
      PROVE  Told(q)'
  BY <1>3, LeftTold DEF Begins, Exit, pipeline, scanning
<1>4. CASE \E r \in Scans : Scan(r)  BY <1>4, ScanTold, OtherScanTold
<1>5. ASSUME NEW r \in Scans, NEW c \in Tools, ToolEnds(r, c)  PROVE Told(q)'
  <2>1. UNCHANGED <<gate, kind, step, now, report>>  BY <1>5 DEF ToolEnds, pipeline
  <2>2. \A d \in Tools : \/ tool'[q][d] = tool[q][d]
                         \/ tool[q][d] = "runs" /\ tool'[q][d] = "ended"
    BY <1>5 DEF ToolEnds
  <2>3. \A d \in Tools : /\ report'[q][d] = "output" => tool'[q][d] = "ended"
                         /\ tool'[q][d] = "runs" => \/ report'[q][d] = "error"
                                                    \/ step'[q] = "await" /\ now'[q] = d
                         /\ tool'[q][d] # "none" => \/ report'[q][d] # "none"
                                                    \/ step'[q] = "await" /\ now'[q] = d
    BY <2>1, <2>2 DEF Told
  <2>4. \A d \in Tools : tool[q][d] = "none" => tool'[q][d] = "none"
    BY <2>2
  <2>5. step'[q] \in {"idle", "guard"} \/ gate'[q] = "refused" => \A d \in Tools : tool'[q][d] = "none"
    <3> HIDE DEF Typed, PipeOK, ScanOK
    <3> QED  BY <2>1, <2>4 DEF Told
  <2>6. gate'[q] = "broken" => step'[q] = "done" /\ now'[q] = "dns" /\ tool'[q]["trace"] = "none"
    BY <2>1, <2>4 DEF Told, Tools
  <2> HIDE DEF Typed, PipeOK, ScanOK
  <2>7. /\ gate'[q] \in {"new", "failing", "passing"} => step'[q] = "idle"
        /\ step'[q] \in Checking \union {"guard"} => gate'[q] = "handled"
        /\ gate'[q] = "answered" => \A d \in Planned(kind'[q]) : report'[q][d] # "none"
        /\ step'[q] \in {"idle", "guard"} => \A d \in Checks : report'[q][d] = "none"
        /\ step'[q] \in {"resolve", "connect"} => now'[q] = "tcp"
    BY <2>1 DEF Told
  <2>8. step'[q] \in Checking =>
          /\ now'[q] \in Planned(kind'[q])
          /\ \A d \in Checks : report'[q][d] # "none" <=> d \in Planned(kind'[q]) /\ Rank(d) < Rank(now'[q])
    BY <2>1 DEF Told
  <2> QED  BY <2>3, <2>5, <2>6, <2>7, <2>8 DEF Told
<1>6. CASE Tick  BY <1>6, LeftTold DEF Tick, scanning
<1>7. CASE UNCHANGED vars  BY <1>7, LeftTold DEF vars, pipeline, scanning
<1> QED  BY <1>1, <1>2, <1>3, <1>4, <1>5, <1>6, <1>7 DEF Next

LEMMA ToldStays == Spec => []ToldInv
<1>1. ASSUME Init, NEW r \in Scans  PROVE Told(r)
  <2>1. /\ gate[r] = "new" /\ step[r] = "idle"
        /\ \A c \in Tools : tool[r][c] = "none"
        /\ \A c \in Checks : report[r][c] = "none"
    BY <1>1 DEF Init, PipelineInit, NetworkInit, Requests
  <2> QED  BY <2>1 DEF Told, Checking, Checks
<1>2. Init => ToldInv  BY <1>1 DEF ToldInv
<1> QED  BY <1>2, StaysTyped, ToldStep, PTL DEF Spec

(* An answer has every check that was asked for, only the lookup ends a    *)
(* request without one, and what is said of a subprocess became of it.     *)
THEOREM ReportsTellTheTruth == Spec => []ReportsAreTrue
<1>1. ASSUME ToldInv, Typed  PROVE ReportsAreTrue
  <2>1. ASSUME NEW r \in Scans, NEW c \in Tools, gate[r] \in {"answered", "broken"}, tool[r][c] = "runs"
        PROVE  report[r][c] = "error"
    BY <1>1, <2>1 DEF ToldInv, Told, Checking
  <2> QED  BY <1>1, <2>1 DEF ToldInv, Told, ReportsAreTrue
<1> QED  BY <1>1, ToldStays, StaysTyped, PTL

(* Whatever turns a request away, it has started nothing by then.          *)
THEOREM RefusalsAreClean == Spec => []RefusedIsClean
<1>1. SpikeInv /\ ToldInv => RefusedIsClean
  BY DEF SpikeInv, Good, ToldInv, Told, RefusedIsClean
<1> QED  BY <1>1, SpikesAreGood, ToldStays, PTL

=============================================================================
