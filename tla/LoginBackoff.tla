---------------------------- MODULE LoginBackoff ----------------------------
(***************************************************************************)
(* The backoff of app/auth.py after failed logins, for one address.  Logins *)
(* run on threads: the REST dependency in the pool, the guard of /api/mcp   *)
(* on the event loop; nothing locks the tracker.  Python switches threads   *)
(* at calls and loop iterations, so an action is what a thread does from    *)
(* one of these to the next.  Lists are objects: a thread may hold one that *)
(* the tracker has replaced since, and append to it.  A failure is its      *)
(* number in the order of recording; as lists are appended to and filtered  *)
(* and nothing else, one is the set of its failures, the greatest the last. *)
(***************************************************************************)
EXTENDS Integers, Sequences, FiniteSets

CONSTANTS Threads,      \* logins at once
          MaxFailures,  \* _MAX_FAILURES
          BaseDelay,    \* _BASE_DELAY
          MaxDelay,     \* _MAX_DELAY
          Window,       \* _WINDOW
          Mistakes,     \* bound: wrong credentials in a behaviour
          LastMistake,  \* bound: the last instant at which one is made and recorded
          MaxNow        \* bound: instants of the clock

ASSUME BackoffAssumption == /\ IsFiniteSet(Threads)
                            /\ MaxFailures \in Nat \ {0}
                            /\ BaseDelay \in Nat /\ MaxDelay \in Nat
                            /\ Window \in Nat /\ Mistakes \in Nat
                            /\ MaxNow \in Nat /\ LastMistake \in Nat

None == 0
Refs == 1 .. Cardinality(Threads) + 2

VARIABLES now,
          tracker,  \* the list _fail_tracker has for the address, or None
          lists,    \* the list objects in use
          thread,   \* thread[t]: its login
          at,       \* history: when each failure was recorded
          cleared,  \* history: the failures so far when a login last succeeded
          overlap   \* history: two logins have run at once

vars == <<now, tracker, lists, thread, at, cleared, overlap>>
history == <<at, cleared, overlap>>

(* why: the caller of _cleanup_old; list, n: locals; read: when the cutoff *)
(* was computed; stamp: the time of a failure.                             *)
Idle == [pc |-> "idle", why |-> "check", list |-> None, read |-> 0, n |-> 0, stamp |-> 0]

Init == /\ now = 0
        /\ tracker = None
        /\ lists = [r \in Refs |-> {}]
        /\ thread = [t \in Threads |-> Idle]
        /\ at = <<>> /\ cleared = 0 /\ overlap = FALSE

At(t, pc) == thread[t].pc = pc

Fresh == CHOOSE r \in Refs : r # tracker /\ \A t \in Threads : thread[t].list # r

(* A step of t, which leaves behind the tracker and the lists; lists that  *)
(* nobody refers to are gone.                                              *)
Leave(t, login, entry, objects) ==
  LET logins == [thread EXCEPT ![t] = login]
  IN /\ thread' = logins
     /\ tracker' = entry
     /\ lists' = [r \in Refs |-> IF r = entry \/ \E u \in Threads : logins[u].list = r
                                 THEN objects[r] ELSE {}]

(* The defaultdict puts an empty list where it has none.                   *)
Entry == IF tracker = None THEN Fresh ELSE tracker

-----------------------------------------------------------------------------
Login(t) == /\ At(t, "idle")
            /\ thread' = [thread EXCEPT ![t] = [Idle EXCEPT !.pc = "fetch", !.read = now]]
            /\ overlap' = (overlap \/ \E u \in Threads \ {t} : ~At(u, "idle"))
            /\ UNCHANGED <<now, tracker, lists, at, cleared>>

(* _cleanup_old: the list it is about to copy, and then the copy, which it *)
(* puts in its place, or the removal of an empty one.                      *)
Fetch(t) == /\ At(t, "fetch")
            /\ Leave(t, [thread[t] EXCEPT !.pc = "assign", !.list = Entry], Entry, lists)
            /\ UNCHANGED <<now, history>>

Kept(t) == {i \in lists[thread[t].list] : at[i] + Window > thread[t].read}

Assign(t) ==
  /\ At(t, "assign")
  /\ Leave(t, [thread[t] EXCEPT !.pc = IF thread[t].why = "check" THEN "look" ELSE "grab",
                                !.list = None],
           IF Kept(t) = {} THEN None ELSE Fresh,
           [lists EXCEPT ![Fresh] = Kept(t)])
  /\ UNCHANGED <<now, history>>

(* check_rate_limit gets the list, which may be another by now, or none;   *)
(* compares its length; takes its length once more; and compares its last  *)
(* entry with the clock.                                                   *)
Look(t) == /\ At(t, "look")
           /\ Leave(t, [thread[t] EXCEPT !.pc = "measure", !.list = tracker], tracker, lists)
           /\ UNCHANGED <<now, history>>

Failures(t) == IF thread[t].list = None THEN {} ELSE lists[thread[t].list]

Measure(t) ==
  LET passed == [thread[t] EXCEPT !.pc = "compare", !.list = None]
  IN /\ At(t, "measure")
     /\ Leave(t, IF Cardinality(Failures(t)) < MaxFailures THEN passed
                 ELSE [thread[t] EXCEPT !.pc = "reckon"], tracker, lists)
     /\ UNCHANGED <<now, history>>

Reckon(t) ==
  /\ At(t, "reckon")
  /\ Leave(t, [thread[t] EXCEPT !.pc = "decide", !.n = Cardinality(Failures(t))], tracker, lists)
  /\ UNCHANGED <<now, history>>

Delay(n) == LET delay == BaseDelay * 2 ^ (n - MaxFailures)
            IN IF delay < MaxDelay THEN delay ELSE MaxDelay

(* The last of the failures is not far enough in the past.                 *)
IsLast(i, S) == i \in S /\ \A j \in S : j <= i
Denied(S, delay) == \E i \in S : IsLast(i, S) /\ now - at[i] < delay

(* Mutants of Decide: the wait is a unit longer; a denial restarts it.         *)
DecideInclusive(t) ==
  LET denied == Denied(Failures(t), Delay(thread[t].n) + 1)
  IN /\ At(t, "decide")
     /\ Leave(t, [thread[t] EXCEPT !.pc = IF denied THEN "denied" ELSE "compare",
                                   !.list = None, !.n = 0], tracker, lists)
     /\ UNCHANGED <<now, history>>

DecideProlongs(t) ==
  LET denied == Denied(Failures(t), Delay(thread[t].n))
  IN /\ At(t, "decide")
     /\ Leave(t, [thread[t] EXCEPT !.pc = IF denied THEN "denied" ELSE "compare",
                                   !.list = None, !.n = 0], tracker, lists)
     /\ at' = [i \in DOMAIN at |-> IF denied /\ IsLast(i, Failures(t)) THEN now ELSE at[i]]
     /\ UNCHANGED <<now, cleared, overlap>>

Decide(t) ==
  LET denied == Denied(Failures(t), Delay(thread[t].n))
  IN /\ At(t, "decide")
     /\ Leave(t, [thread[t] EXCEPT !.pc = IF denied THEN "denied" ELSE "compare",
                                   !.list = None, !.n = 0], tracker, lists)
     /\ UNCHANGED <<now, history>>

(* Mutant of Succeed: it forgets to forget.                                *)
SucceedKeeps(t) == /\ At(t, "compare")
                   /\ Leave(t, [Idle EXCEPT !.pc = "in"], tracker, lists)
                   /\ cleared' = Len(at)
                   /\ UNCHANGED <<now, at, overlap>>

(* The credentials are right, and clear_failures forgets the address.      *)
Succeed(t) == /\ At(t, "compare")
              /\ Leave(t, [Idle EXCEPT !.pc = "in"], None, lists)
              /\ cleared' = Len(at)
              /\ UNCHANGED <<now, at, overlap>>

(* They are wrong: record_failure cleans up as well, gets the list, which  *)
(* may be new, and the time, appends to the list, and reads the tracker    *)
(* once more for the log, which puts an empty list where there is none.    *)
Coming == Cardinality({t \in Threads : thread[t].why = "record"
                                         /\ thread[t].pc \in {"fetch", "assign", "grab", "append"}})

Mistake(t) == /\ At(t, "compare")
              /\ Len(at) + Coming < Mistakes /\ now <= LastMistake
              /\ thread' = [thread EXCEPT ![t] = [Idle EXCEPT !.pc = "fetch", !.why = "record", !.read = now]]
              /\ UNCHANGED <<now, tracker, lists, history>>

Grab(t) == /\ At(t, "grab")
           /\ Leave(t, [thread[t] EXCEPT !.pc = "append", !.list = Entry, !.stamp = now], Entry, lists)
           /\ UNCHANGED <<now, history>>

(* Mutant of AppendTime: the list gets the failure before it has its time. *)
AppendAhead(t) ==
  /\ At(t, "append")
  /\ Leave(t, [thread[t] EXCEPT !.pc = "count", !.list = None, !.stamp = 0], tracker,
           [lists EXCEPT ![thread[t].list] = @ \union {Len(at) + 1}])
  /\ UNCHANGED <<now, history>>

AppendTime(t) ==
  /\ At(t, "append")
  /\ at' = Append(at, thread[t].stamp)
  /\ Leave(t, [thread[t] EXCEPT !.pc = "count", !.list = None, !.stamp = 0], tracker,
           [lists EXCEPT ![thread[t].list] = @ \union {Len(at')}])
  /\ UNCHANGED <<now, cleared, overlap>>

Count(t) == /\ At(t, "count")
            /\ Leave(t, [Idle EXCEPT !.pc = "refused"], Entry, lists)
            /\ UNCHANGED <<now, history>>

(* 200, 401 or 429.                                                        *)
Reply(t) == /\ thread[t].pc \in {"in", "refused", "denied"}
            /\ thread' = [thread EXCEPT ![t] = Idle]
            /\ UNCHANGED <<now, tracker, lists, history>>

Tick == /\ now < MaxNow /\ (now >= LastMistake => Coming = 0)
        /\ now' = now + 1
        /\ UNCHANGED <<tracker, lists, thread, history>>

Step(t) == \/ Fetch(t) \/ Assign(t) \/ Look(t) \/ Measure(t) \/ Reckon(t) \/ Decide(t)
           \/ Succeed(t) \/ Mistake(t) \/ Grab(t) \/ AppendTime(t) \/ Count(t) \/ Reply(t)

Next == Tick \/ \E t \in Threads : Login(t) \/ Step(t)

Spec == Init /\ [][Next]_vars

(* Threads run, time passes, and clients go on trying.                     *)
FairSpec == /\ Spec
            /\ WF_vars(Tick)
            /\ \A t \in Threads : WF_vars(Step(t)) /\ WF_vars(Login(t))

-----------------------------------------------------------------------------

(* The variables have their types.                                         *)
Times == 0 .. MaxNow
Logins == [pc : {"idle", "fetch", "assign", "look", "measure", "reckon", "decide", "compare", "in",
                 "grab", "append", "count", "refused", "denied"},
           why : {"check", "record"}, list : Refs \union {None},
           read : Times, n : Nat, stamp : Times]
TypeOK == /\ now \in Times
          /\ tracker \in Refs \union {None}
          /\ lists \in [Refs -> SUBSET (DOMAIN at)]
          /\ thread \in [Threads -> Logins]
          /\ at \in Seq(Times)
          /\ cleared \in 0 .. Len(at)
          /\ overlap \in BOOLEAN

(* However the copies of several threads replace each other, nobody is     *)
(* kept waiting who has not failed often enough, or long after the last    *)
(* failure.                                                                *)
DenialIsEarned == [][\A t \in Threads : At(t, "decide") /\ At(t, "denied")' =>
                       /\ Len(at) >= MaxFailures
                       /\ \E i \in DOMAIN at : now - at[i] < MaxDelay]_vars

(* One login at a time is denied when and only when the failures since the *)
(* last success, in the window, call for it.                               *)
Counted(t) == {i \in DOMAIN at : i > cleared /\ at[i] + Window > thread[t].read}
MustWait(t) == LET n == Cardinality(Counted(t))
               IN n >= MaxFailures /\ Denied(Counted(t), Delay(n))
ExactAlone == [][\A t \in Threads : ~overlap /\ thread[t].pc \in {"measure", "decide"} =>
                   /\ At(t, "denied")' => MustWait(t)
                   /\ At(t, "compare")' => ~MustWait(t)]_vars

(* Nobody is kept out for good: when mistakes end (and they do, as they    *)
(* are bounded), whoever goes on trying gets in, again and again.          *)
LetIn == \A t \in Threads : []<>At(t, "in")
=============================================================================
