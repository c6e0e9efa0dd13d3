-------------------------- MODULE RequestPipeline --------------------------
(***************************************************************************)
(* What the debug requests of one server process have in common: the       *)
(* middleware of app/middleware/error_injection.py in front of them, and   *)
(* the event loop, which runs one at a time.  A request that blocks without *)
(* awaiting holds the loop, and everything else with it.                   *)
(***************************************************************************)
EXTENDS Integers

CONSTANTS Spikes, Scans,  \* requests, each made at most once
          Nobody,         \* who holds the loop when nobody does
          DelaysAsked,    \* numbers that come as delay_ms
          MaxDelay,       \* error_injection_max_delay_ms
          RandomDelay     \* the longest that delay_ms=random may ask for

ASSUME PipelineAssumption == /\ Spikes \intersect Scans = {}
                             /\ Nobody \notin Spikes \union Scans
                             /\ DelaysAsked \subseteq Int
                             /\ MaxDelay \in Nat /\ RandomDelay \in Nat

VARIABLES gate,   \* gate[r]: where the middleware has the request
          timer,  \* timer[r]: time left to what the request waits for
          loop,   \* the request that holds the event loop, or Nobody
          held    \* history: for how long

pipeline == <<gate, timer, loop, held>>

Requests == Spikes \union Scans

PipelineInit == /\ gate = [r \in Requests |-> "new"]
                /\ timer = [r \in Requests |-> 0]
                /\ loop = Nobody /\ held = 0

Free == loop = Nobody
Hold(r) == loop' = r /\ UNCHANGED held
GiveWay == loop' = Nobody /\ held' = 0

Gate(r, g) == gate' = [gate EXCEPT ![r] = g]
Timer(r, t) == timer' = [timer EXCEPT ![r] = t]

Least(a, b) == IF a < b THEN a ELSE b

(* Mutant of Sleeps: a negative number is a delay.                         *)
SleepsSigned(what, n) == CASE what = "random" -> 0 .. Least(RandomDelay, MaxDelay)
                           [] what = "number" -> {Least(n, MaxDelay)}
                           [] OTHER -> {0}

(* How long the middleware may sleep for a delay_ms of this kind.  "junk"  *)
(* is all that comes to no delay by a guard of its own: no parameter, one  *)
(* that float() does not parse, and NaN or an infinity, not finite.        *)
Sleeps(what, n) == CASE what = "random" -> 0 .. Least(RandomDelay, MaxDelay)
                     [] what = "number" /\ n >= 0 -> {Least(n, MaxDelay)}
                     [] OTHER -> {0}

(* A request arrives, to fail by injection or to pass, after its delay.    *)
Arrive(r) == /\ Free /\ gate[r] = "new"
             /\ \E what \in {"random", "number", "junk"}, n \in DelaysAsked :
                  \E t \in Sleeps(what, n) : Timer(r, t)
             /\ \E g \in {"failing", "passing"} : Gate(r, g)
             /\ UNCHANGED <<loop, held>>

Inject(r) == /\ Free /\ gate[r] = "failing" /\ timer[r] = 0
             /\ Gate(r, "refused")
             /\ UNCHANGED <<timer, loop, held>>

Enters(r) == Free /\ gate[r] = "passing" /\ timer[r] = 0

(* No credentials, arguments out of range, or no valid host.               *)
Deny(r) == /\ Enters(r)
           /\ Gate(r, "refused")
           /\ UNCHANGED <<timer, loop, held>>
=============================================================================
