------------------------- MODULE LoginBackoffProofs -------------------------
(* Whom the backoff keeps waiting, for any number of threads and mistakes. *)
EXTENDS LoginBackoff, FiniteSetTheorems, TLAPS

(* There are enough list objects: one for each thread, the tracker's, and  *)
(* one more.                                                               *)
LEMMA FreshIsFree ==
  ASSUME TypeOK
  PROVE  Fresh \in Refs /\ Fresh # tracker /\ \A t \in Threads : thread[t].list # Fresh
<1> DEFINE held == [t \in Threads |-> thread[t].list]
           Held == {thread[t].list : t \in Threads}
           N == Cardinality(Threads)
<1>1. N \in Nat
  BY BackoffAssumption, FS_CardinalityType
<1>2. held \in Surjection(Threads, Held)
  BY DEF Surjection
<1>3. IsFiniteSet(Held) /\ Cardinality(Held) <= N
  BY <1>2, BackoffAssumption, FS_Surjection
<1> HIDE DEF Held, N
<1>4. /\ IsFiniteSet(Held \union {tracker})
      /\ Cardinality(Held \union {tracker}) <= N + 1
  <2>1. Cardinality(Held) \in Nat
    BY <1>3, FS_CardinalityType
  <2>2. /\ IsFiniteSet(Held \union {tracker})
        /\ Cardinality(Held \union {tracker})
             = IF tracker \in Held THEN Cardinality(Held) ELSE Cardinality(Held) + 1
    BY <1>3, FS_AddElement
  <2> QED
    BY <1>1, <1>3, <2>1, <2>2
<1>5. IsFiniteSet(Refs) /\ Cardinality(Refs) = N + 2
  <2>1. ASSUME NEW m \in Nat PROVE IsFiniteSet(1 .. m) /\ Cardinality(1 .. m) = m
    BY FS_Interval
  <2>2. N + 2 \in Nat /\ Refs = 1 .. N + 2
    BY <1>1 DEF Refs, N
  <2> QED
    BY <2>1, <2>2
<1>6. ~(Refs \subseteq Held \union {tracker})
  BY <1>1, <1>4, <1>5, FS_Subset, FS_CardinalityType
<1> USE DEF Held
<1>7. \E r \in Refs : r # tracker /\ \A t \in Threads : thread[t].list # r
  BY <1>6
<1> QED
  BY <1>7 DEF Fresh

(* A wait is never longer than the longest.                                *)
LEMMA DelayIsCapped ==
  ASSUME NEW n \in Nat, n >= MaxFailures, NEW x \in Int, x < Delay(n)
  PROVE  x < MaxDelay
<1>1. n - MaxFailures \in Nat
  BY BackoffAssumption
<1>2. 2 ^ (n - MaxFailures) \in Int
  BY <1>1
<1> QED
  BY <1>2, BackoffAssumption DEF Delay

-----------------------------------------------------------------------------
(* What Leave leaves, for a login, an entry and lists of their types.      *)
LEMMA LeaveTyped ==
  ASSUME TypeOK, NEW t \in Threads, NEW login \in Logins, NEW entry \in Refs \union {None},
         NEW S, NEW objects \in [Refs -> SUBSET S], Leave(t, login, entry, objects)
  PROVE  /\ thread' \in [Threads -> Logins]
         /\ thread' = [thread EXCEPT ![t] = login]
         /\ tracker' \in Refs \union {None}
         /\ lists' \in [Refs -> SUBSET S]
<1>1. thread' = [thread EXCEPT ![t] = login] /\ tracker' = entry
  BY DEF Leave
<1>2. thread' \in [Threads -> Logins]
  BY <1>1 DEF TypeOK
<1>3. lists' = [r \in Refs |-> IF r = entry \/ \E u \in Threads : thread'[u].list = r
                               THEN objects[r] ELSE {}]
  BY DEF Leave
<1>4. lists' \in [Refs -> SUBSET S]
  BY <1>3
<1> QED
  BY <1>1, <1>2, <1>4

(* Sets of failures are finite, and smaller ones have fewer.               *)
LEMMA Fewer ==
  ASSUME NEW m \in Nat, NEW B \in SUBSET (1 .. m), NEW A \in SUBSET B
  PROVE  Cardinality(A) \in Nat /\ Cardinality(A) <= Cardinality(B) /\ Cardinality(B) <= m
                                /\ Cardinality(B) \in Nat
<1>1. IsFiniteSet(1 .. m) /\ Cardinality(1 .. m) = m
  BY FS_Interval
<1>2. IsFiniteSet(B) /\ Cardinality(B) <= m
  BY <1>1, FS_Subset
<1>3. IsFiniteSet(A) /\ Cardinality(A) <= Cardinality(B)
  BY <1>2, FS_Subset
<1> QED
  BY <1>2, <1>3, FS_CardinalityType

(* The list a thread is about to copy, or to append to, exists; one that   *)
(* was found to have failures enough still has; a thread that is about to  *)
(* compare times has counted them.                                         *)
Ready == \A t \in Threads :
           /\ thread[t].pc \in {"assign", "append"} => thread[t].list \in Refs
           /\ thread[t].pc = "reckon" => /\ thread[t].list \in Refs
                                         /\ Cardinality(lists[thread[t].list]) >= MaxFailures
           /\ thread[t].pc = "decide" => thread[t].n >= MaxFailures /\ Len(at) >= MaxFailures
IInv == TypeOK /\ Ready

LEMMA IdleTyped == 0 \in Times /\ Idle \in Logins
<1>1. 0 \in Times
  BY BackoffAssumption DEF Times
<1> QED
  BY <1>1 DEF Idle, Logins

LEMMA InvStart == Init => IInv
<1> SUFFICES ASSUME Init PROVE IInv
  OBVIOUS
<1>3. at \in Seq(Times) /\ Len(at) = 0
  BY DEF Init
<1>4. lists \in [Refs -> SUBSET (DOMAIN at)]
  BY DEF Init
<1>5. thread \in [Threads -> Logins] /\ \A t \in Threads : thread[t].pc = "idle"
  BY IdleTyped DEF Init, Idle
<1>6. TypeOK
  <2>1. now \in Times /\ tracker \in Refs \union {None} /\ overlap \in BOOLEAN
    BY IdleTyped DEF Init
  <2>2. cleared \in 0 .. Len(at)
    BY <1>3 DEF Init
  <2> QED
    BY <1>3, <1>4, <1>5, <2>1, <2>2 DEF TypeOK
<1> QED
  BY <1>5, <1>6 DEF IInv, Ready

(* A step of t that leaves the history alone and t ready.                  *)
LEMMA Quietly ==
  ASSUME IInv, NEW t \in Threads, NEW login \in Logins, NEW entry \in Refs \union {None},
         NEW objects \in [Refs -> SUBSET (DOMAIN at)],
         Leave(t, login, entry, objects), UNCHANGED <<now, at, overlap>>,
         cleared' \in 0 .. Len(at),
         \A r \in Refs : (\E u \in Threads : thread[u].list = r) => lists[r] \subseteq objects[r],
         login.pc = "reckon" => login.list \in Refs /\ Cardinality(objects[login.list]) >= MaxFailures,
         login.pc \in {"assign", "append"} => login.list \in Refs,
         login.pc = "decide" => login.n >= MaxFailures /\ Len(at) >= MaxFailures
  PROVE  IInv'
<1>1. /\ thread' \in [Threads -> Logins]
      /\ thread' = [thread EXCEPT ![t] = login]
      /\ tracker' \in Refs \union {None}
      /\ lists' \in [Refs -> SUBSET (DOMAIN at)]
  BY LeaveTyped DEF IInv
<1>2. TypeOK'
  BY <1>1 DEF IInv, TypeOK
<1>3. ASSUME NEW u \in Threads, thread'[u].pc = "reckon"
      PROVE  thread'[u].list \in Refs /\ Cardinality(lists'[thread'[u].list]) >= MaxFailures
  <2>1. ASSUME thread'[u].list \in Refs PROVE lists'[thread'[u].list] = objects[thread'[u].list]
    BY <2>1 DEF Leave
  <2>2. CASE u = t
    BY <1>1, <1>3, <2>1, <2>2 DEF IInv, TypeOK
  <2>3. CASE u # t
    <3> DEFINE r == thread[u].list
    <3>1. thread'[u] = thread[u]
      BY <1>1, <2>3 DEF IInv, TypeOK
    <3>2. r \in Refs /\ Cardinality(lists[r]) >= MaxFailures
      BY <1>3, <3>1 DEF IInv, Ready
    <3>3. lists[r] \subseteq objects[r] /\ lists'[r] = objects[r]
      BY <2>1, <3>1, <3>2
    <3>4. Len(at) \in Nat /\ objects[r] \subseteq 1 .. Len(at)
      BY <3>2 DEF IInv, TypeOK
    <3>5. Cardinality(lists[r]) <= Cardinality(objects[r])
          /\ Cardinality(lists[r]) \in Nat /\ Cardinality(objects[r]) \in Nat
      BY <3>3, <3>4, Fewer
    <3> QED
      BY <3>1, <3>2, <3>3, <3>5, BackoffAssumption
  <2> QED
    BY <2>2, <2>3
<1>4. Ready'
  BY <1>1, <1>3 DEF IInv, TypeOK, Ready
<1> QED
  BY <1>2, <1>4 DEF IInv

LEMMA InvStep == IInv /\ [Next]_vars => IInv'
<1> SUFFICES ASSUME IInv, [Next]_vars PROVE IInv'
  OBVIOUS
<1> USE DEF At, history
<1>1. /\ Fresh \in Refs /\ Fresh # tracker /\ Entry \in Refs
      /\ \A t \in Threads : thread[t].list # Fresh
  BY FreshIsFree DEF Entry, IInv, TypeOK
<1>2. ASSUME NEW t \in Threads, Login(t) PROVE IInv'
  <2>1. [Idle EXCEPT !.pc = "fetch", !.read = now] \in Logins
    BY IdleTyped DEF IInv, TypeOK, Logins
  <2> QED
    BY <1>2, <2>1 DEF Login, IInv, TypeOK, Ready, Idle
<1>3. ASSUME NEW t \in Threads, Fetch(t) PROVE IInv'
  <2>1. [thread[t] EXCEPT !.pc = "assign", !.list = Entry] \in Logins
    BY <1>1 DEF IInv, TypeOK, Logins
  <2>2. lists \in [Refs -> SUBSET (DOMAIN at)] /\ cleared \in 0 .. Len(at)
    BY DEF IInv, TypeOK
  <2> QED
    BY <1>1, <1>3, <2>1, <2>2, Quietly DEF Fetch, IInv, TypeOK, Logins
<1>4. ASSUME NEW t \in Threads, Assign(t) PROVE IInv'
  <2> DEFINE login == [thread[t] EXCEPT !.pc = IF thread[t].why = "check" THEN "look" ELSE "grab",
                                        !.list = None]
             entry == IF Kept(t) = {} THEN None ELSE Fresh
             objects == [lists EXCEPT ![Fresh] = Kept(t)]
  <2>1. login \in Logins /\ login.pc \in {"look", "grab"}
    BY DEF IInv, TypeOK, Logins
  <2>2. Kept(t) \subseteq DOMAIN at
    BY <1>4 DEF Assign, Kept, IInv, TypeOK, Ready
  <2>3. objects \in [Refs -> SUBSET (DOMAIN at)] /\ cleared \in 0 .. Len(at)
    BY <1>1, <2>2 DEF IInv, TypeOK
  <2>4. entry \in Refs \union {None}
    BY <1>1
  <2>5. Leave(t, login, entry, objects) /\ UNCHANGED <<now, at, overlap, cleared>>
    BY <1>4 DEF Assign
  <2>6. \A r \in Refs : (\E u \in Threads : thread[u].list = r) => lists[r] \subseteq objects[r]
    BY <1>1 DEF IInv, TypeOK
  <2> HIDE DEF login, entry, objects
  <2> QED
    BY <2>1, <2>3, <2>4, <2>5, <2>6, Quietly
<1>5. ASSUME NEW t \in Threads, Look(t) PROVE IInv'
  <2>1. [thread[t] EXCEPT !.pc = "measure", !.list = tracker] \in Logins
    BY DEF IInv, TypeOK, Logins
  <2>2. lists \in [Refs -> SUBSET (DOMAIN at)] /\ cleared \in 0 .. Len(at) /\ tracker \in Refs \union {None}
    BY DEF IInv, TypeOK
  <2> QED
    BY <1>5, <2>1, <2>2, Quietly DEF Look, IInv, TypeOK, Logins
<1>6. ASSUME NEW t \in Threads, Measure(t) \/ Reckon(t) PROVE IInv'
  <2> DEFINE n == Cardinality(Failures(t))
  <2>1. Len(at) \in Nat /\ Failures(t) \subseteq 1 .. Len(at)
    BY DEF Failures, IInv, TypeOK, Logins, None
  <2>2. n \in Nat /\ n <= Len(at)
    BY <2>1, Fewer
  <2>3. n >= MaxFailures => thread[t].list \in Refs /\ Cardinality(lists[thread[t].list]) = n
    <3>1. n >= MaxFailures => Failures(t) # {}
      BY <2>2, FS_EmptySet, BackoffAssumption
    <3>2. Failures(t) # {} => thread[t].list # None /\ Failures(t) = lists[thread[t].list]
      BY DEF Failures
    <3> QED
      BY <3>1, <3>2 DEF IInv, TypeOK, Logins
  <2>4. /\ lists \in [Refs -> SUBSET (DOMAIN at)] /\ cleared \in 0 .. Len(at)
        /\ tracker \in Refs \union {None} /\ UNCHANGED <<now, at, overlap, cleared>>
    BY <1>6 DEF Measure, Reckon, IInv, TypeOK
  <2>5. CASE Measure(t) /\ n < MaxFailures
    <3> DEFINE login == [thread[t] EXCEPT !.pc = "compare", !.list = None]
    <3>1. login \in Logins /\ login.pc = "compare" /\ Leave(t, login, tracker, lists)
      BY <2>5 DEF Measure, IInv, TypeOK, Logins
    <3> HIDE DEF login
    <3> QED
      BY <2>4, <3>1, Quietly
  <2>6. CASE Measure(t) /\ ~(n < MaxFailures)
    <3> DEFINE login == [thread[t] EXCEPT !.pc = "reckon"]
    <3>1. login \in Logins /\ login.pc = "reckon" /\ login.list = thread[t].list
          /\ Leave(t, login, tracker, lists)
      BY <2>6 DEF Measure, IInv, TypeOK, Logins
    <3>2. login.list \in Refs /\ Cardinality(lists[login.list]) >= MaxFailures
      BY <2>2, <2>3, <2>6, <3>1, BackoffAssumption
    <3> HIDE DEF login
    <3> QED
      BY <2>4, <3>1, <3>2, Quietly
  <2>7. CASE Reckon(t)
    <3> DEFINE login == [thread[t] EXCEPT !.pc = "decide", !.n = n]
    <3>1. login \in Logins /\ login.pc = "decide" /\ login.n = n /\ Leave(t, login, tracker, lists)
      BY <2>2, <2>7 DEF Reckon, IInv, TypeOK, Logins
    <3>2. Failures(t) = lists[thread[t].list] /\ Cardinality(lists[thread[t].list]) >= MaxFailures
      BY <2>7 DEF Reckon, Failures, IInv, Ready, Refs, None
    <3>3. login.n >= MaxFailures /\ Len(at) >= MaxFailures
      BY <2>1, <2>2, <3>1, <3>2, BackoffAssumption
    <3> HIDE DEF login
    <3> QED
      BY <2>4, <3>1, <3>3, Quietly
  <2> QED
    BY <1>6, <2>5, <2>6, <2>7
<1>7. ASSUME NEW t \in Threads, Decide(t) PROVE IInv'
  <2>1. PICK pc \in {"denied", "compare"} :
          Leave(t, [thread[t] EXCEPT !.pc = pc, !.list = None, !.n = 0], tracker, lists)
    BY <1>7 DEF Decide
  <2> DEFINE login == [thread[t] EXCEPT !.pc = pc, !.list = None, !.n = 0]
  <2>2. login \in Logins /\ login.pc \in {"denied", "compare"}
    BY DEF IInv, TypeOK, Logins
  <2>3. /\ lists \in [Refs -> SUBSET (DOMAIN at)] /\ cleared \in 0 .. Len(at)
        /\ tracker \in Refs \union {None} /\ UNCHANGED <<now, at, overlap, cleared>>
    BY <1>7 DEF Decide, IInv, TypeOK
  <2> HIDE DEF login
  <2> QED
    BY <2>1, <2>2, <2>3, Quietly DEF login
<1>8. ASSUME NEW t \in Threads, Succeed(t) PROVE IInv'
  <2>1. [Idle EXCEPT !.pc = "in"] \in Logins
    BY IdleTyped DEF Logins
  <2>2. lists \in [Refs -> SUBSET (DOMAIN at)] /\ Len(at) \in 0 .. Len(at)
    BY DEF IInv, TypeOK
  <2> QED
    BY <1>8, <2>1, <2>2, Quietly DEF Succeed, Idle
<1>9. ASSUME NEW t \in Threads, Mistake(t) PROVE IInv'
  <2>1. [Idle EXCEPT !.pc = "fetch", !.why = "record", !.read = now] \in Logins
    BY IdleTyped DEF IInv, TypeOK, Logins
  <2> QED
    BY <1>9, <2>1 DEF Mistake, IInv, TypeOK, Ready, Idle
<1>10. ASSUME NEW t \in Threads, Grab(t) PROVE IInv'
  <2>1. [thread[t] EXCEPT !.pc = "append", !.list = Entry, !.stamp = now] \in Logins
    BY <1>1 DEF IInv, TypeOK, Logins
  <2>2. lists \in [Refs -> SUBSET (DOMAIN at)] /\ cleared \in 0 .. Len(at)
    BY DEF IInv, TypeOK
  <2> QED
    BY <1>1, <1>10, <2>1, <2>2, Quietly DEF Grab, IInv, TypeOK, Logins
<1>11. ASSUME NEW t \in Threads, AppendTime(t) PROVE IInv'
  <2> DEFINE login == [thread[t] EXCEPT !.pc = "count", !.list = None, !.stamp = 0]
             objects == [lists EXCEPT ![thread[t].list] = @ \union {Len(at')}]
  <2>1. at' = Append(at, thread[t].stamp) /\ Leave(t, login, tracker, objects)
        /\ UNCHANGED <<now, cleared, overlap>>
    BY <1>11 DEF AppendTime
  <2>2. at' \in Seq(Times) /\ Len(at') = Len(at) + 1 /\ DOMAIN at' = DOMAIN at \union {Len(at')}
    BY <2>1 DEF IInv, TypeOK, Logins
  <2>3. login \in Logins
    BY IdleTyped DEF IInv, TypeOK, Logins
  <2>4. objects \in [Refs -> SUBSET (DOMAIN at')]
    BY <2>2 DEF IInv, TypeOK
  <2>5. /\ thread' \in [Threads -> Logins] /\ thread' = [thread EXCEPT ![t] = login]
        /\ tracker' \in Refs \union {None} /\ lists' \in [Refs -> SUBSET (DOMAIN at')]
    <3> HIDE DEF login, objects
    <3> QED
      BY <2>1, <2>3, <2>4, LeaveTyped DEF IInv, TypeOK
  <2>6. TypeOK'
    BY <2>1, <2>2, <2>5 DEF IInv, TypeOK
  <2>7. ASSUME NEW u \in Threads, thread'[u].pc = "reckon"
        PROVE  thread'[u].list \in Refs /\ Cardinality(lists'[thread'[u].list]) >= MaxFailures
    <3> DEFINE r == thread[u].list
    <3>1. thread'[u] = thread[u]
      BY <2>5, <2>7 DEF IInv, TypeOK
    <3>2. r \in Refs /\ Cardinality(lists[r]) >= MaxFailures
      BY <2>7, <3>1 DEF IInv, Ready
    <3>3. lists[r] \subseteq objects[r] /\ lists'[r] = objects[r]
      BY <2>1, <3>1, <3>2 DEF Leave, IInv, TypeOK
    <3>4. Len(at') \in Nat /\ objects[r] \subseteq 1 .. Len(at')
      BY <2>2, <2>4, <3>2
    <3>5. /\ Cardinality(lists[r]) <= Cardinality(objects[r])
          /\ Cardinality(lists[r]) \in Nat /\ Cardinality(objects[r]) \in Nat
      BY <3>3, <3>4, Fewer
    <3> QED
      BY <3>1, <3>2, <3>3, <3>5, BackoffAssumption
  <2>8. Ready'
    BY <2>2, <2>5, <2>7, BackoffAssumption DEF IInv, TypeOK, Ready
  <2> QED
    BY <2>6, <2>8 DEF IInv
<1>12. ASSUME NEW t \in Threads, Count(t) PROVE IInv'
  <2>1. [Idle EXCEPT !.pc = "refused"] \in Logins
    BY IdleTyped DEF Logins
  <2>2. lists \in [Refs -> SUBSET (DOMAIN at)] /\ cleared \in 0 .. Len(at)
    BY DEF IInv, TypeOK
  <2> QED
    BY <1>1, <1>12, <2>1, <2>2, Quietly DEF Count, Idle
<1>13. ASSUME NEW t \in Threads, Reply(t) PROVE IInv'
  <2>1. Idle \in Logins
    BY IdleTyped DEF Logins
  <2> QED
    BY <1>13, <2>1 DEF Reply, IInv, TypeOK, Ready, Idle
<1>14. CASE Tick
  BY <1>14, BackoffAssumption DEF Tick, IInv, TypeOK, Ready, Times
<1>15. CASE UNCHANGED vars
  BY <1>15 DEF vars, IInv, TypeOK, Ready
<1> QED
  BY <1>2, <1>3, <1>4, <1>5, <1>6, <1>7, <1>8, <1>9, <1>10, <1>11, <1>12, <1>13, <1>14, <1>15
  DEF Next, Step

LEMMA Inductive == Spec => []IInv
  BY InvStart, InvStep, PTL DEF Spec

(* The tracker, the lists and the logins keep their types.                 *)
THEOREM TypeCorrect == Spec => []TypeOK
  BY Inductive, PTL DEF IInv

(* A login moves by its own steps.                                         *)
LEMMA OwnSteps ==
  ASSUME TypeOK, NEW t \in Threads, NEW u \in Threads \ {t}, Login(u) \/ Step(u)
  PROVE  thread'[t] = thread[t]
<1>1. ASSUME NEW login, NEW entry, NEW objects, Leave(u, login, entry, objects)
      PROVE  thread'[t] = thread[t]
  BY <1>1 DEF Leave, TypeOK
<1>2. CASE Login(u) \/ Mistake(u) \/ Reply(u)
  BY <1>2 DEF Login, Mistake, Reply, TypeOK
<1>3. CASE Fetch(u) \/ Assign(u) \/ Look(u)
  BY <1>1, <1>3 DEF Fetch, Assign, Look
<1>4. CASE Measure(u) \/ Reckon(u) \/ Decide(u) \/ Succeed(u)
  BY <1>1, <1>4 DEF Measure, Reckon, Decide, Succeed
<1>5. CASE Grab(u) \/ AppendTime(u) \/ Count(u)
  BY <1>1, <1>5 DEF Grab, AppendTime, Count
<1> QED
  BY <1>2, <1>3, <1>4, <1>5 DEF Step

(* Nobody is denied before MaxFailures failures were recorded, nor when    *)
(* MaxDelay has passed since the last, however threads interleave.         *)
THEOREM DenialsAreEarned == Spec => DenialIsEarned
<1> DEFINE Earned == /\ Len(at) >= MaxFailures
                     /\ \E i \in DOMAIN at : now - at[i] < MaxDelay
<1>1. ASSUME IInv, [Next]_vars, NEW t \in Threads, At(t, "decide"), At(t, "denied")'
      PROVE  Earned
  <2>1. thread'[t] # thread[t]
    BY <1>1 DEF At
  <2>2. Login(t) \/ Step(t)
    BY <1>1, <2>1, OwnSteps DEF Next, Tick, vars, IInv
  <2>3. Decide(t)
    BY <1>1, <2>2 DEF Step, At, Login, Fetch, Assign, Look, Measure, Reckon, Succeed, Mistake,
                      Grab, AppendTime, Count, Reply
  <2>4. Denied(Failures(t), Delay(thread[t].n))
    <3>1. Leave(t, [thread[t] EXCEPT !.pc = IF Denied(Failures(t), Delay(thread[t].n)) THEN "denied" ELSE "compare",
                                     !.list = None, !.n = 0], tracker, lists)
      BY <2>3 DEF Decide
    <3>2. thread'[t].pc = IF Denied(Failures(t), Delay(thread[t].n)) THEN "denied" ELSE "compare"
      <4>1. ASSUME NEW login \in Logins, Leave(t, login, tracker, lists) PROVE thread'[t].pc = login.pc
        BY <1>1, <4>1 DEF Leave, IInv, TypeOK
      <4>2. ASSUME NEW pc \in {"denied", "compare"} PROVE [thread[t] EXCEPT !.pc = pc, !.list = None, !.n = 0] \in Logins
        BY <1>1 DEF IInv, TypeOK, Logins
      <4>3. CASE Denied(Failures(t), Delay(thread[t].n))
        BY <1>1, <3>1, <4>1, <4>2, <4>3 DEF IInv, TypeOK, Logins
      <4>4. CASE ~Denied(Failures(t), Delay(thread[t].n))
        BY <1>1, <3>1, <4>1, <4>2, <4>4 DEF IInv, TypeOK, Logins
      <4> QED
        BY <4>3, <4>4
    <3> QED
      BY <1>1, <3>2 DEF At
  <2>5. PICK i \in Failures(t) : now - at[i] < Delay(thread[t].n)
    BY <2>4 DEF Denied
  <2>6. i \in DOMAIN at /\ now - at[i] \in Int
    <3>1. i \in DOMAIN at
      BY <1>1 DEF Failures, IInv, TypeOK, Logins, None
    <3>2. now \in Int /\ at[i] \in Int
      <4>1. now \in Times /\ at[i] \in Times
        BY <1>1, <3>1 DEF IInv, TypeOK
      <4> QED
        BY <4>1 DEF Times
    <3> QED
      BY <3>1, <3>2
  <2>7. thread[t].n \in Nat /\ thread[t].n >= MaxFailures /\ Len(at) >= MaxFailures
    BY <1>1 DEF At, IInv, TypeOK, Logins, Ready
  <2>8. now - at[i] < MaxDelay
    BY <2>5, <2>6, <2>7, DelayIsCapped
  <2> QED
    BY <2>6, <2>7, <2>8
<1>2. ASSUME IInv, [Next]_vars
      PROVE  [\A t \in Threads : At(t, "decide") /\ At(t, "denied")' => Earned]_vars
  BY <1>1, <1>2
<1> QED
  BY <1>2, Inductive, PTL DEF DenialIsEarned, Spec

-----------------------------------------------------------------------------
(* One login at a time.  A thread refers to a list only while it works on  *)
(* it, a list that nothing refers to is empty, and no cutoff lies ahead.   *)
Tracked == IF tracker = None THEN {} ELSE lists[tracker]
Holding == {"assign", "measure", "reckon", "decide", "append"}
Held == /\ \A t \in Threads : thread[t].pc \notin Holding => thread[t].list = None
        /\ \A r \in Refs : r # tracker /\ (\A t \in Threads : thread[t].list # r) => lists[r] = {}
        /\ \A t \in Threads : thread[t].read <= now

(* A failure since the last success that the tracker has not is too old.   *)
Expired(time) == \A i \in DOMAIN at : i > cleared /\ i \notin Tracked => at[i] + Window <= time

(* What t has read is what the tracker has; and once t has cleaned up, it  *)
(* has the failures that count and no other.                               *)
Exact(t) ==
  /\ thread[t].pc \in {"fetch", "assign", "look", "measure", "reckon", "decide"} => Expired(thread[t].read)
  /\ thread[t].pc \in {"look", "measure", "reckon", "decide"}
       => \A i \in Tracked : at[i] + Window > thread[t].read
  /\ thread[t].pc \in Holding => thread[t].list = tracker
  /\ thread[t].pc = "decide" => thread[t].n = Cardinality(Tracked)

Sole(t) == \A u \in Threads : thread[u].pc # "idle" => u = t

Alone == ~overlap => /\ \A t \in Threads : thread[t].pc # "idle" => Sole(t)
                     /\ \A t \in Threads : Exact(t)
                     /\ \A i \in Tracked : i > cleared
                     /\ Expired(now)

(* The times are numbers.                                                  *)
LEMMA TimesAreNumbers ==
  ASSUME TypeOK
  PROVE  /\ now \in Nat /\ Window \in Nat /\ cleared \in Nat /\ Len(at) \in Nat
         /\ DOMAIN at = 1 .. Len(at)
         /\ \A i \in DOMAIN at : at[i] \in Nat
         /\ \A t \in Threads : thread[t].read \in Nat /\ thread[t].stamp \in Nat
         /\ Tracked \subseteq DOMAIN at
<1>1. Times \subseteq Nat
  BY DEF Times
<1>2. at \in Seq(Times) /\ Len(at) \in Nat /\ DOMAIN at = 1 .. Len(at)
  BY DEF TypeOK
<1>3. \A i \in DOMAIN at : at[i] \in Times
  BY <1>2
<1>4. \A t \in Threads : thread[t].read \in Times /\ thread[t].stamp \in Times
  BY DEF TypeOK, Logins
<1>5. Tracked \subseteq DOMAIN at
  BY DEF Tracked, TypeOK
<1>6. now \in Nat /\ cleared \in Nat /\ Window \in Nat
  BY <1>1, <1>2, BackoffAssumption DEF TypeOK
<1> QED
  BY <1>1, <1>2, <1>3, <1>4, <1>5, <1>6

(* What is tracked after a step that leaves an entry and lists behind.     *)
LEMMA LeaveTracked ==
  ASSUME IInv, NEW t \in Threads, NEW login \in Logins, NEW entry \in Refs \union {None},
         NEW objects, Leave(t, login, entry, objects)
  PROVE  /\ thread' = [thread EXCEPT ![t] = login] /\ thread'[t] = login
         /\ \A u \in Threads : u # t => thread'[u] = thread[u]
         /\ tracker' = entry
         /\ Tracked' = IF entry = None THEN {} ELSE objects[entry]
         /\ \A r \in Refs : lists'[r] = IF r = entry \/ \E u \in Threads : thread'[u].list = r
                                         THEN objects[r] ELSE {}
<1>1. thread' = [thread EXCEPT ![t] = login] /\ tracker' = entry
  BY DEF Leave
<1>2. lists' = [r \in Refs |-> IF r = entry \/ \E u \in Threads : thread'[u].list = r
                               THEN objects[r] ELSE {}]
  BY DEF Leave
<1> QED
  BY <1>1, <1>2 DEF Tracked, IInv, TypeOK

(* What the logins that steps leave behind are made of.                    *)
LEMMA LoginParts ==
  ASSUME IInv
  PROVE  /\ 0 \in Times /\ now \in Times /\ now \in Nat
         /\ Entry \in Refs /\ Fresh \in Refs /\ tracker \in Refs \union {None}
         /\ \A t \in Threads : thread[t] \in Logins /\ Cardinality(Failures(t)) \in Nat
<1>1. Entry \in Refs /\ Fresh \in Refs
  BY FreshIsFree DEF Entry, IInv, TypeOK
<1>2. ASSUME NEW t \in Threads PROVE Cardinality(Failures(t)) \in Nat
  <2>1. Len(at) \in Nat /\ Failures(t) \subseteq 1 .. Len(at)
    BY DEF Failures, IInv, TypeOK, Logins, None
  <2> QED
    BY <2>1, Fewer
<1> QED
  BY <1>1, <1>2, IdleTyped, TimesAreNumbers DEF IInv, TypeOK

(* Held is kept: a step that takes a list leaves a thread that holds one,  *)
(* and fills none but the entry's and those of threads.                    *)
LEMMA HeldByLeave ==
  ASSUME IInv, Held, NEW t \in Threads, NEW login \in Logins, NEW entry \in Refs \union {None},
         NEW objects, Leave(t, login, entry, objects), now' = now,
         login.pc \notin Holding => login.list = None,
         login.read \in {thread[t].read, 0}
  PROVE  Held'
<1>1. /\ thread'[t] = login /\ \A u \in Threads : u # t => thread'[u] = thread[u]
      /\ tracker' = entry
      /\ \A r \in Refs : lists'[r] = IF r = entry \/ \E u \in Threads : thread'[u].list = r
                                      THEN objects[r] ELSE {}
  BY LeaveTracked
<1>2. login.read <= now
  BY TimesAreNumbers DEF IInv, Held
<1> QED
  BY <1>1, <1>2 DEF Held

LEMMA HeldStep == IInv /\ Held /\ [Next]_vars => Held'
<1> SUFFICES ASSUME IInv, Held, [Next]_vars PROVE Held'
  OBVIOUS
<1> USE DEF At, history
<1>1. /\ 0 \in Times /\ now \in Times /\ now \in Nat
      /\ Entry \in Refs /\ Fresh \in Refs /\ tracker \in Refs \union {None}
      /\ \A t \in Threads : thread[t] \in Logins /\ Cardinality(Failures(t)) \in Nat
  BY LoginParts
<1>2. ASSUME NEW t \in Threads, NEW login \in Logins, thread' = [thread EXCEPT ![t] = login],
             UNCHANGED <<now, tracker, lists>>, thread[t].list = None, login.list = None, login.read <= now
      PROVE  Held'
  <2>1. thread'[t] = login /\ \A u \in Threads : u # t => thread'[u] = thread[u]
    BY <1>2 DEF IInv, TypeOK
  <2>2. None \notin Refs
    BY DEF None, Refs
  <2> QED
    BY <1>2, <2>1, <2>2 DEF Held
<1>3. ASSUME NEW t \in Threads, Login(t) \/ Mistake(t) \/ Reply(t) PROVE Held'
  <2>1. thread[t].list = None
    BY <1>3 DEF Login, Mistake, Reply, Held, Holding
  <2>2. UNCHANGED <<now, tracker, lists>>
    BY <1>3 DEF Login, Mistake, Reply
  <2>3. CASE Login(t)
    <3> DEFINE login == [Idle EXCEPT !.pc = "fetch", !.read = now]
    <3>1. login \in Logins /\ login.list = None /\ login.read <= now
      <4>1. login \in Logins
        BY <1>1, IdleTyped DEF Logins
      <4>2. login.list = None /\ login.read = now
        BY DEF Idle
      <4> QED
        BY <1>1, <4>1, <4>2
    <3>2. thread' = [thread EXCEPT ![t] = login]
      BY <2>3 DEF Login
    <3> HIDE DEF login
    <3> QED
      BY <1>2, <2>1, <2>2, <3>1, <3>2
  <2>4. CASE Mistake(t)
    <3> DEFINE login == [Idle EXCEPT !.pc = "fetch", !.why = "record", !.read = now]
    <3>1. login \in Logins /\ login.list = None /\ login.read <= now
      <4>1. login \in Logins
        BY <1>1, IdleTyped DEF Logins
      <4>2. login.list = None /\ login.read = now
        BY DEF Idle
      <4> QED
        BY <1>1, <4>1, <4>2
    <3>2. thread' = [thread EXCEPT ![t] = login]
      BY <2>4 DEF Mistake
    <3> HIDE DEF login
    <3> QED
      BY <1>2, <2>1, <2>2, <3>1, <3>2
  <2>5. CASE Reply(t)
    <3>1. Idle \in Logins /\ Idle.list = None /\ Idle.read <= now
      BY <1>1 DEF Idle, Logins
    <3> QED
      BY <1>2, <2>1, <2>2, <2>5, <3>1 DEF Reply
  <2> QED
    BY <1>3, <2>3, <2>4, <2>5
<1>4. ASSUME NEW t \in Threads, Fetch(t) PROVE Held'
  <2> DEFINE login == [thread[t] EXCEPT !.pc = "assign", !.list = Entry]
  <2>1. login \in Logins /\ login.pc \in Holding /\ login.read = thread[t].read
    BY <1>1 DEF Holding, Logins
  <2>2. Leave(t, login, Entry, lists) /\ now' = now
    BY <1>4 DEF Fetch
  <2> HIDE DEF login
  <2> QED
    BY <1>1, <2>1, <2>2, HeldByLeave
<1>5. ASSUME NEW t \in Threads, Assign(t) PROVE Held'
  <2> DEFINE login == [thread[t] EXCEPT !.pc = IF thread[t].why = "check" THEN "look" ELSE "grab",
                                        !.list = None]
             entry == IF Kept(t) = {} THEN None ELSE Fresh
             objects == [lists EXCEPT ![Fresh] = Kept(t)]
  <2>1. login \in Logins /\ login.list = None /\ login.read = thread[t].read
    BY <1>1 DEF Logins
  <2>2. Leave(t, login, entry, objects) /\ now' = now /\ entry \in Refs \union {None}
    BY <1>1, <1>5 DEF Assign
  <2> HIDE DEF login, entry, objects
  <2> QED
    BY <2>1, <2>2, HeldByLeave
<1>6. ASSUME NEW t \in Threads, Look(t) PROVE Held'
  <2> DEFINE login == [thread[t] EXCEPT !.pc = "measure", !.list = tracker]
  <2>1. login \in Logins /\ login.pc \in Holding /\ login.read = thread[t].read
    BY <1>1 DEF Holding, Logins
  <2>2. Leave(t, login, tracker, lists) /\ now' = now
    BY <1>6 DEF Look
  <2> HIDE DEF login
  <2> QED
    BY <1>1, <2>1, <2>2, HeldByLeave
<1>7. ASSUME NEW t \in Threads, Measure(t) PROVE Held'
  <2>1. PICK login \in {[thread[t] EXCEPT !.pc = "compare", !.list = None], [thread[t] EXCEPT !.pc = "reckon"]} :
          Leave(t, login, tracker, lists) /\ now' = now
    BY <1>7 DEF Measure
  <2>2. login \in Logins /\ (login.pc \in Holding \/ login.list = None) /\ login.read = thread[t].read
    BY <1>1 DEF Holding, Logins
  <2> QED
    BY <1>1, <2>1, <2>2, HeldByLeave
<1>8. ASSUME NEW t \in Threads, Reckon(t) PROVE Held'
  <2> DEFINE login == [thread[t] EXCEPT !.pc = "decide", !.n = Cardinality(Failures(t))]
  <2>1. login \in Logins /\ login.pc \in Holding /\ login.read = thread[t].read
    BY <1>1 DEF Holding, Logins
  <2>2. Leave(t, login, tracker, lists) /\ now' = now
    BY <1>8 DEF Reckon
  <2> HIDE DEF login
  <2> QED
    BY <1>1, <2>1, <2>2, HeldByLeave
<1>9. ASSUME NEW t \in Threads, Decide(t) PROVE Held'
  <2>1. PICK pc \in {"denied", "compare"} :
          Leave(t, [thread[t] EXCEPT !.pc = pc, !.list = None, !.n = 0], tracker, lists) /\ now' = now
    BY <1>9 DEF Decide
  <2> DEFINE login == [thread[t] EXCEPT !.pc = pc, !.list = None, !.n = 0]
  <2>2. login \in Logins /\ login.list = None /\ login.read = thread[t].read
    BY <1>1 DEF Logins
  <2> HIDE DEF login
  <2> QED
    BY <1>1, <2>1, <2>2, HeldByLeave DEF login
<1>10. ASSUME NEW t \in Threads, Succeed(t) \/ Count(t) PROVE Held'
  <2>1. PICK pc \in {"in", "refused"}, entry \in {None, Entry} :
          Leave(t, [Idle EXCEPT !.pc = pc], entry, lists) /\ now' = now
    BY <1>10 DEF Succeed, Count
  <2> DEFINE login == [Idle EXCEPT !.pc = pc]
  <2>2. login \in Logins /\ login.list = None /\ login.read = 0
    BY <1>1 DEF Idle, Logins
  <2> HIDE DEF login
  <2> QED
    BY <1>1, <2>1, <2>2, HeldByLeave DEF login
<1>11. ASSUME NEW t \in Threads, Grab(t) PROVE Held'
  <2> DEFINE login == [thread[t] EXCEPT !.pc = "append", !.list = Entry, !.stamp = now]
  <2>1. login \in Logins /\ login.pc \in Holding /\ login.read = thread[t].read
    BY <1>1 DEF Holding, Logins
  <2>2. Leave(t, login, Entry, lists) /\ now' = now
    BY <1>11 DEF Grab
  <2> HIDE DEF login
  <2> QED
    BY <1>1, <2>1, <2>2, HeldByLeave
<1>12. ASSUME NEW t \in Threads, AppendTime(t) PROVE Held'
  <2> DEFINE login == [thread[t] EXCEPT !.pc = "count", !.list = None, !.stamp = 0]
             objects == [lists EXCEPT ![thread[t].list] = @ \union {Len(at')}]
  <2>1. login \in Logins /\ login.list = None /\ login.read = thread[t].read
    BY <1>1 DEF Logins
  <2>2. Leave(t, login, tracker, objects) /\ now' = now
    BY <1>12 DEF AppendTime
  <2> HIDE DEF login, objects
  <2> QED
    BY <1>1, <2>1, <2>2, HeldByLeave
<1>13. CASE Tick \/ UNCHANGED vars
  BY <1>1, <1>13, TimesAreNumbers DEF Tick, vars, Held, IInv
<1> QED
  BY <1>3, <1>4, <1>5, <1>6, <1>7, <1>8, <1>9, <1>10, <1>11, <1>12, <1>13 DEF Next, Step

(* While logins have not overlapped, the one that steps is the only one.   *)
LEMMA OnlyOne ==
  ASSUME IInv, Alone, NEW t \in Threads, Login(t) \/ Step(t), ~overlap'
  PROVE  /\ ~overlap /\ Sole(t) /\ Sole(t)'
         /\ Exact(t) /\ Expired(now) /\ \A i \in Tracked : i > cleared
<1>1. ~overlap /\ Sole(t)
  <2>1. CASE Login(t)
    BY <2>1 DEF Login, At, Sole, IInv, TypeOK
  <2>2. CASE Step(t)
    <3>1. overlap' = overlap
      BY <2>2 DEF Step, Fetch, Assign, Look, Measure, Reckon, Decide, Succeed, Mistake, Grab,
                  AppendTime, Count, Reply, history
    <3>2. thread[t].pc # "idle"
      BY <2>2 DEF Step, Fetch, Assign, Look, Measure, Reckon, Decide, Succeed, Mistake, Grab,
                  AppendTime, Count, Reply, At
    <3> QED
      BY <3>1, <3>2 DEF Alone
  <2> QED
    BY <2>1, <2>2
<1>2. \A u \in Threads \ {t} : thread'[u] = thread[u]
  <2>1. CASE Login(t)
    BY <2>1 DEF Login, IInv, TypeOK
  <2>2. CASE Step(t)
    BY <2>2, OwnSteps DEF IInv
  <2> QED
    BY <2>1, <2>2
<1> QED
  BY <1>1, <1>2 DEF Alone, Sole

LEMMA AloneByStep ==
  ASSUME IInv, Alone, NEW t \in Threads, Login(t) \/ Step(t), ~overlap',
         Exact(t)', Expired(now)', \A i \in Tracked' : i > cleared'
  PROVE  Alone'
<1>1. Sole(t)'
  BY OnlyOne
<1>2. ASSUME NEW u \in Threads, u # t PROVE Exact(u)'
  BY <1>1, <1>2 DEF Sole, Exact, Holding
<1> QED
  BY <1>1, <1>2 DEF Alone, Sole

LEMMA AloneStep == IInv /\ Held /\ Alone /\ [Next]_vars => Alone'
<1> SUFFICES ASSUME IInv, Held, Alone, [Next]_vars, ~overlap' PROVE Alone'
  BY DEF Alone
<1> USE DEF At, history
<1>1. /\ 0 \in Times /\ now \in Times /\ now \in Nat
      /\ Entry \in Refs /\ Fresh \in Refs /\ tracker \in Refs \union {None}
      /\ \A t \in Threads : thread[t] \in Logins /\ Cardinality(Failures(t)) \in Nat
  BY LoginParts
<1>2. /\ Window \in Nat /\ cleared \in Nat /\ Len(at) \in Nat /\ DOMAIN at = 1 .. Len(at)
      /\ \A i \in DOMAIN at : at[i] \in Nat
      /\ \A t \in Threads : thread[t].read \in Nat /\ thread[t].read <= now
      /\ Tracked \subseteq DOMAIN at
  BY TimesAreNumbers DEF IInv, Held
<1>3. None \notin Refs /\ Entry \in Refs \union {None} /\ tracker \in Refs \union {None}
  BY <1>1 DEF None, Refs
<1>4. (IF Entry = None THEN {} ELSE lists[Entry]) = Tracked
  BY <1>1, <1>3, FreshIsFree DEF Entry, Tracked, Held, IInv
<1>5. ASSUME NEW t \in Threads, Login(t) \/ Mistake(t) PROVE Alone'
  <2>1. thread'[t].pc = "fetch" /\ thread'[t].read = now
    BY <1>1, <1>5 DEF Login, Mistake, Idle, IInv, TypeOK
  <2>2. UNCHANGED <<tracker, lists, now, at, cleared>>
    BY <1>5 DEF Login, Mistake
  <2>3. Tracked' = Tracked
    BY <2>2 DEF Tracked
  <2>4. Expired(now) /\ \A i \in Tracked : i > cleared
    BY <1>5, OnlyOne DEF Step
  <2> QED
    BY <1>5, <2>1, <2>2, <2>3, <2>4, AloneByStep DEF Exact, Expired, Holding, Step
<1>6. ASSUME NEW t \in Threads, Fetch(t) PROVE Alone'
  <2> DEFINE login == [thread[t] EXCEPT !.pc = "assign", !.list = Entry]
  <2>1. /\ login \in Logins /\ login.pc = "assign" /\ login.list = Entry /\ login.read = thread[t].read
    BY <1>1 DEF Logins
  <2>2. Leave(t, login, Entry, lists) /\ UNCHANGED <<now, at, cleared>> /\ thread[t].pc = "fetch"
    BY <1>6 DEF Fetch
  <2> HIDE DEF login
  <2>3. thread'[t] = login /\ tracker' = Entry /\ Tracked' = Tracked
    <3>1. /\ thread'[t] = login /\ tracker' = Entry
          /\ Tracked' = IF Entry = None THEN {} ELSE lists[Entry]
      BY <1>3, <2>1, <2>2, LeaveTracked
    <3> QED
      BY <1>4, <3>1
  <2>4. Exact(t) /\ Expired(now) /\ \A i \in Tracked : i > cleared
    BY <1>6, OnlyOne DEF Step
  <2> QED
    BY <1>6, <2>1, <2>2, <2>3, <2>4, AloneByStep DEF Exact, Expired, Holding, Step
<1>7. ASSUME NEW t \in Threads, Assign(t) PROVE Alone'
  <2> DEFINE login == [thread[t] EXCEPT !.pc = IF thread[t].why = "check" THEN "look" ELSE "grab",
                                        !.list = None]
             entry == IF Kept(t) = {} THEN None ELSE Fresh
             objects == [lists EXCEPT ![Fresh] = Kept(t)]
  <2>1. /\ login \in Logins /\ login.pc \in {"look", "grab"} /\ login.list = None
        /\ login.read = thread[t].read
    BY <1>1 DEF Logins
  <2>2. /\ Leave(t, login, entry, objects) /\ UNCHANGED <<now, at, cleared>>
        /\ thread[t].pc = "assign" /\ entry \in Refs \union {None}
    BY <1>1, <1>7 DEF Assign
  <2>3. Exact(t) /\ Expired(now) /\ \A i \in Tracked : i > cleared
    BY <1>7, OnlyOne DEF Step
  <2>4. Kept(t) = {i \in Tracked : at[i] + Window > thread[t].read}
    BY <1>3, <2>2, <2>3 DEF Kept, Tracked, Exact, Holding, IInv, Ready
  <2>5. (IF entry = None THEN {} ELSE objects[entry]) = Kept(t)
    BY <1>1, <1>3 DEF IInv, TypeOK
  <2> HIDE DEF login, entry, objects
  <2>6. thread'[t] = login /\ Tracked' = Kept(t)
    <3>1. /\ thread'[t] = login /\ tracker' = entry
          /\ Tracked' = IF entry = None THEN {} ELSE objects[entry]
      BY <2>1, <2>2, LeaveTracked
    <3> QED
      BY <2>5, <3>1
  <2>7. Expired(thread[t].read)
    BY <2>2, <2>3 DEF Exact
  <2>8. ASSUME NEW i \in DOMAIN at, i > cleared, i \notin Kept(t)
        PROVE  at[i] + Window <= thread[t].read /\ at[i] + Window <= now
    BY <1>1, <1>2, <2>4, <2>7, <2>8 DEF Expired
  <2>9. \A i \in DOMAIN at' : i > cleared' /\ i \notin Tracked'
                               => at'[i] + Window <= thread'[t].read /\ at'[i] + Window <= now'
    BY <2>1, <2>2, <2>6, <2>8
  <2>10. (\A i \in Tracked' : i > cleared') /\ \A i \in Tracked' : at'[i] + Window > thread'[t].read
    BY <2>1, <2>2, <2>3, <2>4, <2>6
  <2>11. Exact(t)'
    BY <2>1, <2>6, <2>9, <2>10 DEF Exact, Expired, Holding
  <2>12. Expired(now)'
    BY <2>9 DEF Expired
  <2> QED
    BY <1>7, <2>10, <2>11, <2>12, AloneByStep DEF Step
<1>8. ASSUME NEW t \in Threads, Look(t) PROVE Alone'
  <2> DEFINE login == [thread[t] EXCEPT !.pc = "measure", !.list = tracker]
  <2>1. /\ login \in Logins /\ login.pc = "measure" /\ login.list = tracker /\ login.read = thread[t].read
    BY <1>1 DEF Logins
  <2>2. Leave(t, login, tracker, lists) /\ UNCHANGED <<now, at, cleared>> /\ thread[t].pc = "look"
    BY <1>8 DEF Look
  <2> HIDE DEF login
  <2>3. thread'[t] = login /\ tracker' = tracker /\ Tracked' = Tracked
    <3>1. /\ thread'[t] = login /\ tracker' = tracker
          /\ Tracked' = IF tracker = None THEN {} ELSE lists[tracker]
      BY <1>3, <2>1, <2>2, LeaveTracked
    <3> QED
      BY <3>1 DEF Tracked
  <2>4. Exact(t) /\ Expired(now) /\ \A i \in Tracked : i > cleared
    BY <1>8, OnlyOne DEF Step
  <2> QED
    BY <1>8, <2>1, <2>2, <2>3, <2>4, AloneByStep DEF Exact, Expired, Holding, Step
<1>9. ASSUME NEW t \in Threads, Measure(t) PROVE Alone'
  <2>1. PICK login \in {[thread[t] EXCEPT !.pc = "compare", !.list = None], [thread[t] EXCEPT !.pc = "reckon"]} :
          Leave(t, login, tracker, lists)
    BY <1>9 DEF Measure
  <2>2. /\ login \in Logins /\ login.read = thread[t].read
        /\ login.pc = "compare" \/ (login.pc = "reckon" /\ login.list = thread[t].list)
    BY <1>1 DEF Logins
  <2>3. UNCHANGED <<now, at, cleared>> /\ thread[t].pc = "measure"
    BY <1>9 DEF Measure
  <2>4. thread'[t] = login /\ tracker' = tracker /\ Tracked' = Tracked
    <3>1. /\ thread'[t] = login /\ tracker' = tracker
          /\ Tracked' = IF tracker = None THEN {} ELSE lists[tracker]
      BY <1>3, <2>1, <2>2, LeaveTracked
    <3> QED
      BY <3>1 DEF Tracked
  <2>5. Exact(t) /\ Expired(now) /\ \A i \in Tracked : i > cleared
    BY <1>9, OnlyOne DEF Step
  <2> QED
    BY <1>9, <2>2, <2>3, <2>4, <2>5, AloneByStep DEF Exact, Expired, Holding, Step
<1>10. ASSUME NEW t \in Threads, Reckon(t) PROVE Alone'
  <2> DEFINE login == [thread[t] EXCEPT !.pc = "decide", !.n = Cardinality(Failures(t))]
  <2>1. /\ login \in Logins /\ login.pc = "decide" /\ login.list = thread[t].list
        /\ login.read = thread[t].read /\ login.n = Cardinality(Failures(t))
    BY <1>1 DEF Logins
  <2>2. Leave(t, login, tracker, lists) /\ UNCHANGED <<now, at, cleared>> /\ thread[t].pc = "reckon"
    BY <1>10 DEF Reckon
  <2> HIDE DEF login
  <2>3. thread'[t] = login /\ tracker' = tracker /\ Tracked' = Tracked
    <3>1. /\ thread'[t] = login /\ tracker' = tracker
          /\ Tracked' = IF tracker = None THEN {} ELSE lists[tracker]
      BY <1>3, <2>1, <2>2, LeaveTracked
    <3> QED
      BY <3>1 DEF Tracked
  <2>4. Exact(t) /\ Expired(now) /\ \A i \in Tracked : i > cleared
    BY <1>10, OnlyOne DEF Step
  <2>5. Failures(t) = Tracked
    BY <2>2, <2>4 DEF Exact, Holding, Failures, Tracked
  <2> QED
    BY <1>10, <2>1, <2>2, <2>3, <2>4, <2>5, AloneByStep DEF Exact, Expired, Holding, Step
<1>11. ASSUME NEW t \in Threads, Decide(t) PROVE Alone'
  <2>1. PICK pc \in {"denied", "compare"} :
          Leave(t, [thread[t] EXCEPT !.pc = pc, !.list = None, !.n = 0], tracker, lists)
    BY <1>11 DEF Decide
  <2> DEFINE login == [thread[t] EXCEPT !.pc = pc, !.list = None, !.n = 0]
  <2>2. login \in Logins /\ login.pc \in {"denied", "compare"}
    BY <1>1 DEF Logins
  <2>3. UNCHANGED <<now, at, cleared>>
    BY <1>11 DEF Decide
  <2>4. Leave(t, login, tracker, lists)
    BY <2>1
  <2> HIDE DEF login
  <2>5. thread'[t] = login /\ tracker' = tracker /\ Tracked' = Tracked
    <3>1. /\ thread'[t] = login /\ tracker' = tracker
          /\ Tracked' = IF tracker = None THEN {} ELSE lists[tracker]
      BY <1>3, <2>2, <2>4, LeaveTracked
    <3> QED
      BY <3>1 DEF Tracked
  <2>6. Expired(now) /\ \A i \in Tracked : i > cleared
    BY <1>11, OnlyOne DEF Step
  <2> QED
    BY <1>11, <2>2, <2>3, <2>5, <2>6, AloneByStep DEF Exact, Expired, Holding, Step
<1>12. ASSUME NEW t \in Threads, Succeed(t) PROVE Alone'
  <2> DEFINE login == [Idle EXCEPT !.pc = "in"]
  <2>1. login \in Logins /\ login.pc = "in"
    BY IdleTyped DEF Logins
  <2>2. /\ Leave(t, login, None, lists) /\ UNCHANGED <<now, at>>
        /\ cleared' = Len(at)
    BY <1>12 DEF Succeed
  <2> HIDE DEF login
  <2>3. thread'[t] = login /\ Tracked' = {}
    BY <2>1, <2>2, LeaveTracked
  <2>4. \A i \in DOMAIN at : ~(i > cleared')
    BY <1>2, <2>2
  <2> QED
    BY <1>12, <2>1, <2>2, <2>3, <2>4, AloneByStep DEF Exact, Expired, Holding, Step
<1>13. ASSUME NEW t \in Threads, Grab(t) PROVE Alone'
  <2> DEFINE login == [thread[t] EXCEPT !.pc = "append", !.list = Entry, !.stamp = now]
  <2>1. login \in Logins /\ login.pc = "append" /\ login.list = Entry
    BY <1>1 DEF Logins
  <2>2. Leave(t, login, Entry, lists) /\ UNCHANGED <<now, at, cleared>>
    BY <1>13 DEF Grab
  <2> HIDE DEF login
  <2>3. thread'[t] = login /\ tracker' = Entry /\ Tracked' = Tracked
    <3>1. /\ thread'[t] = login /\ tracker' = Entry
          /\ Tracked' = IF Entry = None THEN {} ELSE lists[Entry]
      BY <1>3, <2>1, <2>2, LeaveTracked
    <3> QED
      BY <1>4, <3>1
  <2>4. Expired(now) /\ \A i \in Tracked : i > cleared
    BY <1>13, OnlyOne DEF Step
  <2> QED
    BY <1>13, <2>1, <2>2, <2>3, <2>4, AloneByStep DEF Exact, Expired, Holding, Step
<1>14. ASSUME NEW t \in Threads, AppendTime(t) PROVE Alone'
  <2> DEFINE login == [thread[t] EXCEPT !.pc = "count", !.list = None, !.stamp = 0]
             objects == [lists EXCEPT ![thread[t].list] = @ \union {Len(at')}]
  <2>1. login \in Logins /\ login.pc = "count"
    BY <1>1 DEF Logins
  <2>2. /\ Leave(t, login, tracker, objects) /\ UNCHANGED <<now, cleared>>
        /\ at' = Append(at, thread[t].stamp) /\ thread[t].pc = "append"
    BY <1>14 DEF AppendTime
  <2>3. Exact(t) /\ Expired(now) /\ \A i \in Tracked : i > cleared
    BY <1>14, OnlyOne DEF Step
  <2>4. thread[t].list = tracker /\ tracker \in Refs
    BY <2>2, <2>3 DEF Exact, Holding, IInv, Ready
  <2>5. (IF tracker = None THEN {} ELSE objects[tracker]) = Tracked \union {Len(at')}
    BY <1>3, <2>4 DEF Tracked, IInv, TypeOK
  <2> HIDE DEF login, objects
  <2>6. thread'[t] = login /\ Tracked' = Tracked \union {Len(at')}
    BY <1>1, <2>1, <2>2, <2>5, LeaveTracked
  <2>7. /\ Len(at') = Len(at) + 1 /\ DOMAIN at' = DOMAIN at \union {Len(at')}
        /\ \A i \in DOMAIN at : at'[i] = at[i]
    BY <1>1, <2>2 DEF IInv, TypeOK, Logins
  <2>8. Len(at') > cleared
    BY <1>2, <2>7 DEF IInv, TypeOK
  <2> QED
    BY <1>14, <2>1, <2>2, <2>3, <2>6, <2>7, <2>8, AloneByStep DEF Exact, Expired, Holding, Step
<1>15. ASSUME NEW t \in Threads, Count(t) PROVE Alone'
  <2> DEFINE login == [Idle EXCEPT !.pc = "refused"]
  <2>1. login \in Logins /\ login.pc = "refused"
    BY IdleTyped DEF Logins
  <2>2. Leave(t, login, Entry, lists) /\ UNCHANGED <<now, at, cleared>>
    BY <1>15 DEF Count
  <2> HIDE DEF login
  <2>3. thread'[t] = login /\ Tracked' = Tracked
    <3>1. /\ thread'[t] = login /\ tracker' = Entry
          /\ Tracked' = IF Entry = None THEN {} ELSE lists[Entry]
      BY <1>3, <2>1, <2>2, LeaveTracked
    <3> QED
      BY <1>4, <3>1
  <2>4. Expired(now) /\ \A i \in Tracked : i > cleared
    BY <1>15, OnlyOne DEF Step
  <2> QED
    BY <1>15, <2>1, <2>2, <2>3, <2>4, AloneByStep DEF Exact, Expired, Holding, Step
<1>16. ASSUME NEW t \in Threads, Reply(t) PROVE Alone'
  <2>1. thread'[t].pc = "idle" /\ UNCHANGED <<now, tracker, lists, at, cleared>>
    BY <1>16 DEF Reply, Idle, IInv, TypeOK
  <2>2. Tracked' = Tracked
    BY <2>1 DEF Tracked
  <2>3. Expired(now) /\ \A i \in Tracked : i > cleared
    BY <1>16, OnlyOne DEF Step
  <2> QED
    BY <1>16, <2>1, <2>2, <2>3, AloneByStep DEF Exact, Expired, Holding, Step
<1>17. CASE Tick
  <2>1. now' = now + 1 /\ UNCHANGED <<tracker, lists, thread, at, cleared, overlap>>
    BY <1>17 DEF Tick
  <2>2. Tracked' = Tracked
    BY <2>1 DEF Tracked
  <2>3. Expired(now)'
    BY <1>1, <1>2, <2>1, <2>2 DEF Alone, Expired
  <2> QED
    BY <2>1, <2>2, <2>3 DEF Alone, Sole, Exact, Expired
<1>18. CASE UNCHANGED vars
  <2>1. Tracked' = Tracked
    BY <1>18 DEF vars, Tracked
  <2> QED
    BY <1>18, <2>1 DEF vars, Alone, Sole, Exact, Expired
<1> QED
  BY <1>5, <1>6, <1>7, <1>8, <1>9, <1>10, <1>11, <1>12, <1>13, <1>14, <1>15, <1>16, <1>17, <1>18
  DEF Next, Step

LEMMA AloneStart == Init => Held /\ Alone
<1> SUFFICES ASSUME Init PROVE Held /\ Alone
  OBVIOUS
<1>1. /\ \A t \in Threads : thread[t].pc = "idle" /\ thread[t].list = None /\ thread[t].read = 0
      /\ now = 0 /\ tracker = None /\ \A r \in Refs : lists[r] = {}
      /\ DOMAIN at = {}
  BY DEF Init, Idle
<1> QED
  BY <1>1 DEF Held, Alone, Sole, Exact, Expired, Holding, Tracked

(* Exact logins: whoever is denied must wait, and whoever passes need not. *)
THEOREM ExactWhenAlone == Spec => ExactAlone
<1> DEFINE All == \A t \in Threads : ~overlap /\ thread[t].pc \in {"measure", "decide"} =>
                    /\ At(t, "denied")' => MustWait(t)
                    /\ At(t, "compare")' => ~MustWait(t)
<1>1. ASSUME IInv, Alone, [Next]_vars, NEW t \in Threads, ~overlap, thread[t].pc \in {"measure", "decide"}
      PROVE  /\ At(t, "denied")' => MustWait(t)
             /\ At(t, "compare")' => ~MustWait(t)
  <2> SUFFICES ASSUME thread'[t].pc \in {"denied", "compare"}
               PROVE  thread'[t].pc = "denied" <=> MustWait(t)
    BY DEF At
  <2>1. Exact(t) /\ Tracked \subseteq DOMAIN at /\ \A i \in Tracked : i > cleared
    BY <1>1, TimesAreNumbers DEF Alone, IInv
  <2>2. Counted(t) = Tracked
    <3>1. \A i \in Tracked : at[i] + Window > thread[t].read
      BY <1>1, <2>1 DEF Exact
    <3>2. \A i \in DOMAIN at : i > cleared /\ i \notin Tracked => ~(at[i] + Window > thread[t].read)
      BY <1>1, <2>1, TimesAreNumbers DEF Exact, Expired, IInv
    <3> QED
      BY <2>1, <3>1, <3>2 DEF Counted
  <2>3. Failures(t) = Tracked
    BY <1>1, <2>1 DEF Exact, Holding, Failures, Tracked
  <2>4. Login(t) \/ Step(t)
    BY <1>1, OwnSteps DEF Next, Tick, vars, IInv
  <2>5. Measure(t) \/ Decide(t)
    BY <1>1, <2>4 DEF Step, At, Login, Fetch, Assign, Look, Reckon, Succeed, Mistake, Grab,
                      AppendTime, Count, Reply
  <2>6. thread[t] \in Logins /\ Cardinality(Failures(t)) \in Nat /\ tracker \in Refs \union {None}
    BY <1>1, LoginParts
  <2>7. CASE Measure(t)
    <3>1. CASE Cardinality(Failures(t)) < MaxFailures
      <4> DEFINE login == [thread[t] EXCEPT !.pc = "compare", !.list = None]
      <4>1. login \in Logins /\ login.pc = "compare" /\ Leave(t, login, tracker, lists)
        BY <2>6, <2>7, <3>1 DEF Measure, Logins
      <4> HIDE DEF login
      <4>2. thread'[t].pc = "compare"
        BY <1>1, <2>6, <4>1, LeaveTracked
      <4> QED
        BY <2>2, <2>3, <2>6, <3>1, <4>2, BackoffAssumption DEF MustWait
    <3>2. CASE ~(Cardinality(Failures(t)) < MaxFailures)
      <4> DEFINE login == [thread[t] EXCEPT !.pc = "reckon"]
      <4>1. login \in Logins /\ login.pc = "reckon" /\ Leave(t, login, tracker, lists)
        BY <2>6, <2>7, <3>2 DEF Measure, Logins
      <4> HIDE DEF login
      <4>2. thread'[t].pc = "reckon"
        BY <1>1, <2>6, <4>1, LeaveTracked
      <4> QED
        BY <4>2
    <3> QED
      BY <3>1, <3>2
  <2>8. CASE Decide(t)
    <3> DEFINE pc == IF Denied(Failures(t), Delay(thread[t].n)) THEN "denied" ELSE "compare"
               login == [thread[t] EXCEPT !.pc = pc, !.list = None, !.n = 0]
    <3>1. login \in Logins /\ login.pc = pc
      BY <2>6, IdleTyped DEF Logins
    <3>2. Leave(t, login, tracker, lists) /\ thread[t].pc = "decide"
      BY <2>8 DEF Decide, At
    <3> HIDE DEF login
    <3>3. thread'[t].pc = pc
      BY <1>1, <2>6, <3>1, <3>2, LeaveTracked
    <3>4. thread[t].n = Cardinality(Tracked) /\ thread[t].n >= MaxFailures
      BY <1>1, <2>1, <3>2 DEF Exact, IInv, Ready
    <3>5. MustWait(t) <=> Denied(Failures(t), Delay(thread[t].n))
      BY <2>2, <2>3, <3>4 DEF MustWait
    <3> QED
      BY <3>3, <3>5
  <2> QED
    BY <2>5, <2>7, <2>8
<1>2. IInv /\ Alone /\ [Next]_vars => [All]_vars
  BY <1>1
<1>3. Init => IInv /\ Held /\ Alone
  BY InvStart, AloneStart
<1>4. IInv /\ Held /\ Alone /\ [Next]_vars => (IInv /\ Held /\ Alone)'
  BY InvStep, HeldStep, AloneStep
<1> QED
  BY <1>2, <1>3, <1>4, PTL DEF ExactAlone, Spec
=============================================================================
