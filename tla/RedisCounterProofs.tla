------------------------ MODULE RedisCounterProofs ------------------------
(* The numbers the counter gives, for every number of requests and retries. *)
EXTENDS RedisCounter, FiniteSetTheorems, TLAPS

(* Nothing that was given, or is about to be, exceeds the counter; a number *)
(* is set only where the request is done; until then attempts are left; and *)
(* Unique.                                                                 *)
UInv == /\ TypeOK
        /\ \A n \in given : n <= hits
        /\ \A t \in Tasks : /\ task[t].value <= hits
                            /\ task[t].value # 0 => At(t, "done")
                            /\ At(t, "done") \/ task[t].tries < Retries
                            /\ \A n \in task[t].above : n <= hits
        /\ Unique

LEMMA Start == Init => UInv
  BY CounterAssumption DEF Init, UInv, TypeOK, Unique, Idle, At

LEMMA Step == UInv /\ [Next]_vars => UInv'
<1> SUFFICES ASSUME UInv, [Next]_vars PROVE UInv'
  OBVIOUS
<1> USE CounterAssumption
<1>1. ASSUME NEW t \in Tasks, Ask(t) PROVE UInv'
  <2>1. PICK pc \in {"incr", "done"} : task' = [task EXCEPT ![t].pc = pc, ![t].above = given]
    BY <1>1 DEF Ask
  <2>2. task[t].value = 0 /\ task[t].tries < Retries
    BY <1>1 DEF Ask, UInv, At
  <2>3. TypeOK'
    <3>1. task' \in [Tasks -> [pc : {"idle", "incr", "done"}, tries : 0 .. Retries,
                              value : Nat, above : SUBSET Nat]]
      BY <2>1 DEF UInv, TypeOK
    <3> QED
      BY <1>1, <3>1 DEF Ask, UInv, TypeOK
  <2>4. Unique'
    BY <1>1, <2>1, <2>2 DEF Ask, UInv, TypeOK, Unique, At
  <2> QED
    BY <1>1, <2>1, <2>2, <2>3, <2>4 DEF Ask, UInv, TypeOK, At
<1>2. ASSUME NEW t \in Tasks, Incr(t) PROVE UInv'
  BY <1>2 DEF Incr, UInv, TypeOK, Unique, At
<1>3. ASSUME NEW t \in Tasks, IncrFails(t) PROVE UInv'
  <2> DEFINE n == task[t].tries + 1
             pc == IF n < Retries THEN "incr" ELSE "done"
  <2>1. /\ task[t].value = 0 /\ n \in 0 .. Retries /\ hits \in Nat
        /\ pc \in {"incr", "done"} /\ (pc = "incr" => n < Retries)
    BY <1>3 DEF IncrFails, UInv, TypeOK, At
  <2>2. hits' \in Nat /\ hits <= hits'
    BY <1>3, <2>1 DEF IncrFails
  <2>3. task' = [task EXCEPT ![t].tries = n, ![t].pc = pc] /\ UNCHANGED <<asked, given>>
    BY <1>3 DEF IncrFails
  <2> HIDE DEF n, pc
  <2>4. TypeOK'
    BY <2>1, <2>2, <2>3 DEF UInv, TypeOK
  <2>5. Unique'
    BY <2>1, <2>3 DEF UInv, TypeOK, Unique, At
  <2>6. \A m \in given' : m <= hits'
    BY <2>1, <2>2, <2>3 DEF UInv, TypeOK
  <2>7. \A u \in Tasks : /\ task'[u].value = task[u].value /\ task'[u].above = task[u].above
                         /\ task'[u].tries < Retries \/ task'[u].pc = "done"
                         /\ task[u].pc = "done" => task'[u].pc = "done"
    BY <1>3, <2>1, <2>3 DEF UInv, TypeOK, At, IncrFails
  <2>8. \A u \in Tasks : /\ task[u].value \in Nat /\ task[u].above \subseteq Nat
                         /\ task[u].value <= hits /\ \A m \in task[u].above : m <= hits
                         /\ task[u].value # 0 => task[u].pc = "done"
    BY DEF UInv, TypeOK, At
  <2>9. \A u \in Tasks : /\ task'[u].value <= hits'
                         /\ task'[u].value # 0 => task'[u].pc = "done"
                         /\ \A m \in task'[u].above : m <= hits'
    BY <2>1, <2>2, <2>7, <2>8
  <2> QED
    BY <2>4, <2>5, <2>6, <2>7, <2>9 DEF UInv, At
<1>4. ASSUME NEW t \in Tasks, Reply(t) PROVE UInv'
  <2>1. /\ At(t, "done") /\ task[t].value \in Nat /\ task[t].value <= hits
        /\ given' = given \union ({task[t].value} \ {0})
        /\ task' = [task EXCEPT ![t] = Idle] /\ UNCHANGED <<hits, asked>>
    BY <1>4 DEF Reply, UInv, TypeOK
  <2>2. TypeOK'
    <3>1. Idle \in [pc : {"idle", "incr", "done"}, tries : 0 .. Retries,
                   value : Nat, above : SUBSET Nat]
      BY DEF Idle
    <3>2. given' \in SUBSET Nat
      BY <2>1 DEF UInv, TypeOK
    <3> QED
      BY <2>1, <3>1, <3>2 DEF UInv, TypeOK
  <2>3. Unique'
    BY <2>1 DEF UInv, TypeOK, Unique, At, Idle
  <2> QED
    BY <2>1, <2>2, <2>3 DEF UInv, TypeOK, At, Idle
<1>5. CASE UNCHANGED vars
  BY <1>5 DEF vars, UInv, TypeOK, Unique, At
<1> QED
  BY <1>1, <1>2, <1>3, <1>4, <1>5 DEF Next

LEMMA Invariance == Spec => []UInv
  BY Start, Step, PTL DEF Spec

(* The counter's variables keep their types.                               *)
THEOREM TypeCorrect == Spec => []TypeOK
  BY Invariance, PTL DEF UInv

(* However often INCR is repeated, no two requests are given one number,   *)
(* and the numbers grow from a request to those that begin after its end.  *)
THEOREM NumbersAreUnique == Spec => []Unique
<1>1. UInv => Unique
  BY DEF UInv
<1> QED
  BY <1>1, Invariance, PTL

-----------------------------------------------------------------------------
(* The attempts that are left.  What was counted and what may still be     *)
(* counted are together no more than the requests have attempts.           *)
Left == {p \in Tasks \X (1 .. Retries) : At(p[1], "incr") /\ task[p[1]].tries < p[2]}

BInv == /\ UInv
        /\ IsFiniteSet(Left)
        /\ hits + Cardinality(Left) <= Retries * asked

(* A step that uses an attempt up, or several.                             *)
LEMMA OneLess ==
  ASSUME BInv, NEW p \in Left, Left' \subseteq Left \ {p}, hits' \in {hits, hits + 1}, asked' = asked
  PROVE  IsFiniteSet(Left)' /\ (hits + Cardinality(Left) <= Retries * asked)'
<1>1. /\ IsFiniteSet(Left \ {p}) /\ Cardinality(Left \ {p}) = Cardinality(Left) - 1
  BY FS_RemoveElement DEF BInv
<1>2. IsFiniteSet(Left') /\ Cardinality(Left') <= Cardinality(Left \ {p})
  BY <1>1, FS_Subset
<1>3. Cardinality(Left) \in Nat /\ Cardinality(Left') \in Nat
  BY <1>2, FS_CardinalityType DEF BInv
<1>4. hits \in Nat /\ Retries * asked \in Nat
  BY CounterAssumption DEF BInv, UInv, TypeOK
<1> QED
  BY <1>1, <1>2, <1>3, <1>4 DEF BInv

LEMMA BoundStep == BInv /\ [Next]_vars => BInv'
<1> SUFFICES ASSUME BInv, [Next]_vars
             PROVE  IsFiniteSet(Left)' /\ (hits + Cardinality(Left) <= Retries * asked)'
  BY Step DEF BInv
<1> USE CounterAssumption
<1>0. /\ IsFiniteSet(Left) /\ hits + Cardinality(Left) <= Retries * asked
      /\ UInv /\ hits \in Nat /\ asked \in Nat /\ Cardinality(Left) \in Nat
  BY FS_CardinalityType DEF BInv, UInv, TypeOK
<1>1. ASSUME NEW t \in Tasks, Ask(t)
      PROVE  IsFiniteSet(Left)' /\ (hits + Cardinality(Left) <= Retries * asked)'
  <2> DEFINE New == {t} \X (1 .. Retries)
  <2>1. IsFiniteSet(New) /\ Cardinality(New) = Retries
    <3>1. IsFiniteSet({t}) /\ Cardinality({t}) = 1  BY FS_Singleton
    <3>2. IsFiniteSet(1 .. Retries) /\ Cardinality(1 .. Retries) = Retries  BY FS_Interval
    <3>3. IsFiniteSet(New) /\ Cardinality(New) = 1 * Retries  BY <3>1, <3>2, FS_Product
    <3> QED  BY <3>3
  <2>2. PICK pc \in {"incr", "done"} : task' = [task EXCEPT ![t].pc = pc, ![t].above = given]
    BY <1>1 DEF Ask
  <2>3. Left' \subseteq Left \union New
    <3> SUFFICES ASSUME NEW u \in Tasks, NEW k \in 1 .. Retries, u # t, At(u, "incr")', task'[u].tries < k
                 PROVE  At(u, "incr") /\ task[u].tries < k
      BY DEF Left
    <3> QED  BY <1>0, <2>2 DEF At, UInv, TypeOK
  <2>4. /\ IsFiniteSet(Left \union New)
        /\ Cardinality(Left \union New) = Cardinality(Left) + Retries - Cardinality(Left \intersect New)
    BY <1>0, <2>1, FS_Union
  <2>5. Cardinality(Left \intersect New) \in Nat
    BY <1>0, FS_Intersection, FS_CardinalityType
  <2>6. IsFiniteSet(Left') /\ Cardinality(Left') <= Cardinality(Left \union New)
    BY <2>3, <2>4, FS_Subset
  <2>7. Cardinality(Left') \in Nat  BY <2>6, FS_CardinalityType
  <2>8. Retries * asked' = Retries * asked + Retries /\ hits' = hits /\ Retries * asked \in Nat
    BY <1>0, <1>1 DEF Ask
  <2> HIDE DEF New
  <2>9. Cardinality(Left') <= Cardinality(Left) + Retries
    BY <1>0, <2>4, <2>5, <2>6, <2>7
  <2> QED
    BY <1>0, <2>6, <2>7, <2>8, <2>9
<1>2. ASSUME NEW t \in Tasks, At(t, "incr"),
             At(t, "done")' \/ (At(t, "incr")' /\ task'[t].tries = task[t].tries + 1),
             \A u \in Tasks \ {t} : task'[u] = task[u],
             hits' \in {hits, hits + 1}, asked' = asked
      PROVE  IsFiniteSet(Left)' /\ (hits + Cardinality(Left) <= Retries * asked)'
  <2>1. task[t].tries \in Nat /\ task[t].tries < Retries
    BY <1>0, <1>2 DEF UInv, TypeOK, At
  <2> DEFINE p == <<t, task[t].tries + 1>>
  <2>2. p \in Left  BY <1>2, <2>1 DEF Left
  <2>3. Left' \subseteq Left \ {p}
    <3> SUFFICES ASSUME NEW u \in Tasks, NEW k \in 1 .. Retries, At(u, "incr")', task'[u].tries < k
                 PROVE  At(u, "incr") /\ task[u].tries < k /\ <<u, k>> # p
      BY DEF Left
    <3>1. CASE u = t  BY <1>2, <2>1, <3>1 DEF At
    <3>2. CASE u # t  BY <1>2, <3>2 DEF At
    <3> QED  BY <3>1, <3>2
  <2> HIDE DEF p
  <2> QED  BY <1>2, <2>2, <2>3, OneLess
<1>3. ASSUME NEW t \in Tasks, Incr(t)
      PROVE  IsFiniteSet(Left)' /\ (hits + Cardinality(Left) <= Retries * asked)'
  <2>1. At(t, "done")'  BY <1>0, <1>3 DEF Incr, At, UInv, TypeOK
  <2> QED  BY <1>0, <1>2, <1>3, <2>1 DEF Incr, UInv, TypeOK
<1>4. ASSUME NEW t \in Tasks, IncrFails(t)
      PROVE  IsFiniteSet(Left)' /\ (hits + Cardinality(Left) <= Retries * asked)'
  <2>1. At(t, "done")' \/ (At(t, "incr")' /\ task'[t].tries = task[t].tries + 1)
    BY <1>0, <1>4 DEF IncrFails, At, UInv, TypeOK
  <2> QED  BY <1>0, <1>2, <1>4, <2>1 DEF IncrFails, UInv, TypeOK
<1>5. ASSUME NEW t \in Tasks, Reply(t)
      PROVE  IsFiniteSet(Left)' /\ (hits + Cardinality(Left) <= Retries * asked)'
  <2>1. \A u \in Tasks : At(u, "incr")' => At(u, "incr") /\ task'[u].tries = task[u].tries
    BY <1>0, <1>5 DEF Reply, At, Idle, UInv, TypeOK
  <2>2. Left' \subseteq Left  BY <2>1 DEF Left
  <2>3. IsFiniteSet(Left') /\ Cardinality(Left') <= Cardinality(Left)
    BY <1>0, <2>2, FS_Subset
  <2>4. Cardinality(Left') \in Nat  BY <2>3, FS_CardinalityType
  <2> QED  BY <1>0, <1>5, <2>3, <2>4 DEF Reply
<1>6. CASE UNCHANGED vars
  <2>1. Left' = Left  BY <1>6 DEF Left, At, vars
  <2> QED  BY <1>0, <1>6, <2>1 DEF vars
<1> QED
  BY <1>1, <1>3, <1>4, <1>5, <1>6 DEF Next

(* Repetition moves the counter by Retries for each request at most, for   *)
(* every number of requests in flight, of attempts and of requests in all. *)
THEOREM OvercountIsBounded == Spec => []Bounded
<1>1. Init => BInv
  <2>1. ASSUME Init  PROVE Left = {}
    BY <2>1 DEF Init, Left, At, Idle
  <2> QED  BY <2>1, Start, FS_EmptySet, CounterAssumption DEF Init, BInv
<1>2. BInv => Bounded
  <2>1. BInv => Cardinality(Left) \in Nat  BY FS_CardinalityType DEF BInv
  <2> QED  BY <2>1, CounterAssumption DEF BInv, UInv, TypeOK, Bounded
<1> QED
  BY <1>1, <1>2, BoundStep, PTL DEF Spec
=============================================================================
