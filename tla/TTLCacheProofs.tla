--------------------------- MODULE TTLCacheProofs ---------------------------
(* Proofs about the local cache, for every set of keys, every capacity and *)
(* every time to live.                                                     *)
EXTENDS TTLCache, TLAPS, FiniteSetTheorems

(* What eviction relies on: the last_access of an entry is the last use of *)
(* its key, and no use lies in the future.                                 *)
UseInv == \A k \in Keys : /\ lastUse[k] <= now
                          /\ k \in Stored => store[k].last_access = lastUse[k]

IInv == TypeOK /\ CapacityBound /\ NoResurrection /\ UseInv /\ LruOnly

Calls == [op : {"none", "get", "set", "delete", "clear"},
          key : Keys \union {Absent}, value : Values \union {Absent}]

-----------------------------------------------------------------------------

LEMMA StoredFinite ==
  /\ IsFiniteSet(Stored) /\ Cardinality(Stored) \in Nat
  /\ IsFiniteSet(Stored') /\ Cardinality(Stored') \in Nat
<1>1. Stored \subseteq Keys /\ Stored' \subseteq Keys
  BY DEF Stored
<1> QED
  BY <1>1, FS_Subset, FS_CardinalityType, CacheAssumption

(* Every way of making room leaves room for k, touches no other live entry *)
(* unless the cache is full of live ones, and then removes one that no     *)
(* entry's last access precedes.                                           *)
LEMMA EvictionMakesRoom ==
  ASSUME TypeOK, CapacityBound, NEW k \in Keys, NEW out \in Evictions(k)
  PROVE  /\ out \subseteq Stored \ {k}
         /\ Cardinality((Stored \ out) \union {k}) <= MaxSize
         /\ \/ out \subseteq Stale
            \/ /\ k \notin Stored
               /\ Cardinality(Stored) = MaxSize
               /\ \E l \in Stored : /\ out = {l}
                                    /\ \A j \in Stored :
                                         store[l].last_access <= store[j].last_access
<1> DEFINE kept == Stored \ Stale
<1>0. /\ MaxSize \in Nat \ {0}
      /\ IsFiniteSet(Stored) /\ Cardinality(Stored) \in Nat
      /\ Cardinality(Stored) <= MaxSize
  BY StoredFinite, CacheAssumption DEF CapacityBound
<1>1. /\ Stale \subseteq Stored
      /\ kept \subseteq Stored
      /\ IsFiniteSet(kept) /\ Cardinality(kept) \in Nat
  <2>1. Stale \subseteq Stored
    BY DEF Stale
  <2> QED
    BY <1>0, <2>1, FS_Subset, FS_CardinalityType
<1>2. CASE out = {} /\ k \in Stored
  <2>1. (Stored \ out) \union {k} = Stored
    BY <1>2
  <2> QED
    BY <1>0, <1>2, <2>1
<1>3. CASE out = {} /\ k \notin Stored /\ Cardinality(Stored) < MaxSize
  <2>1. (Stored \ out) \union {k} = Stored \union {k}
    BY <1>3
  <2>2. Cardinality(Stored \union {k}) = Cardinality(Stored) + 1
    BY <1>0, <1>3, FS_AddElement
  <2> QED
    BY <1>0, <1>3, <2>1, <2>2
<1>4. CASE k \notin Stored /\ out = Stale /\ Cardinality(kept) < MaxSize
  <2>1. (Stored \ out) \union {k} = kept \union {k} /\ k \notin kept
    BY <1>4
  <2>2. Cardinality(kept \union {k}) = Cardinality(kept) + 1
    BY <1>1, <2>1, FS_AddElement
  <2> QED
    BY <1>0, <1>1, <1>4, <2>1, <2>2
<1>5. CASE /\ k \notin Stored
           /\ Cardinality(kept) >= MaxSize
           /\ \E l \in Oldest(kept) : out = Stale \union {l}
  <2>1. PICK l \in Oldest(kept) : out = Stale \union {l}
    BY <1>5
  <2>2. kept = Stored /\ Cardinality(Stored) = MaxSize
    BY <1>0, <1>1, <1>5, FS_Subset
  <2>3. Stale = {}
    BY <1>1, <2>2
  <2>4. out = {l} /\ l \in Stored /\ l # k
    BY <1>5, <2>1, <2>2, <2>3 DEF Oldest
  <2>5. \A j \in Stored : store[l].last_access <= store[j].last_access
    BY <2>1, <2>2 DEF Oldest
  <2>6. Cardinality((Stored \ {l}) \union {k}) = MaxSize
    <3>1. /\ IsFiniteSet(Stored \ {l})
          /\ Cardinality(Stored \ {l}) = Cardinality(Stored) - 1
      BY <1>0, <2>4, FS_RemoveElement
    <3>2. k \notin Stored \ {l}
      BY <1>5
    <3>3. Cardinality((Stored \ {l}) \union {k}) = Cardinality(Stored \ {l}) + 1
      BY <3>1, <3>2, FS_AddElement
    <3> QED
      BY <1>0, <2>2, <3>1, <3>3
  <2> QED
    BY <1>0, <1>5, <2>2, <2>4, <2>5, <2>6
<1> QED
  BY <1>0, <1>1, <1>2, <1>3, <1>4, <1>5 DEF Evictions

(* More keys used since only helps: UsedSince grows as long as k is not    *)
(* used itself, and the number of its members does not fall.               *)
LEMMA UsedSinceGrows ==
  ASSUME TypeOK, TypeOK', NEW k \in Keys,
         lastUse'[k] = lastUse[k],
         \A j \in Keys : lastUse'[j] >= lastUse[j],
         Cardinality(UsedSince(k)) >= MaxSize
  PROVE  Cardinality(UsedSince(k)') >= MaxSize
<1>1. UsedSince(k) \subseteq UsedSince(k)'
  <2>1. SUFFICES ASSUME NEW j \in Keys \ {k}, lastUse[j] >= lastUse[k]
                 PROVE  lastUse'[j] >= lastUse'[k]
    BY DEF UsedSince
  <2>2. /\ lastUse[j] \in Nat /\ lastUse[k] \in Nat
        /\ lastUse'[j] \in Nat /\ lastUse'[k] \in Nat
    BY DEF TypeOK
  <2> QED
    BY <2>1, <2>2
<1>2. UsedSince(k)' \subseteq Keys /\ IsFiniteSet(Keys)
  BY CacheAssumption DEF UsedSince
<1>3. IsFiniteSet(UsedSince(k)')
  BY <1>2, FS_Subset
<1>4. /\ Cardinality(UsedSince(k)') \in Nat
      /\ Cardinality(UsedSince(k)) \in Nat
      /\ Cardinality(UsedSince(k)) <= Cardinality(UsedSince(k)')
  BY <1>1, <1>3, FS_Subset, FS_CardinalityType
<1> QED
  BY <1>4, CacheAssumption

(* A step that puts nothing into the store keeps it within its capacity.   *)
LEMMA SmallerFits ==
  ASSUME CapacityBound, Stored' \subseteq Stored
  PROVE  CapacityBound'
<1>1. Cardinality(Stored') <= Cardinality(Stored)
  BY StoredFinite, FS_Subset
<1> QED
  BY <1>1, StoredFinite, CacheAssumption DEF CapacityBound

LEMMA InitIInv == Init => IInv
<1> SUFFICES ASSUME Init
             PROVE  IInv
  OBVIOUS
<1>1. Stored = {}
  BY DEF Init, Stored
<1>2. CapacityBound
  BY <1>1, FS_EmptySet, CacheAssumption DEF CapacityBound
<1> QED
  BY <1>1, <1>2 DEF Init, IInv, TypeOK, NoResurrection, UseInv, LruOnly, Live

(* A step that only removes entries the callers no longer expect, and uses *)
(* no key, preserves the invariant: Miss, Delete, Clear and Len.           *)
LEMMA RemovalKeepsIInv ==
  ASSUME IInv, NEW gone \in SUBSET Keys, NEW dropped \in SUBSET gone,
         store' = Without(gone),
         due' = [k \in Keys |-> IF k \in dropped THEN Absent ELSE due[k]],
         \A k \in gone \ dropped : k \in Stored => k \in Stale,
         last' \in Calls,
         UNCHANGED <<now, lastUse>>
  PROVE  IInv'
<1> USE DEF IInv
<1>1. Stored' = Stored \ gone
  BY DEF Stored, Without
<1>2. TypeOK'
  BY DEF TypeOK, Without, Calls
<1>3. CapacityBound'
  BY <1>1, SmallerFits
<1>4. NoResurrection'
  BY <1>1 DEF NoResurrection, Without, Stored
<1>5. UseInv'
  BY <1>1 DEF UseInv, Without
<1>6. LruOnly'
  <2>1. SUFFICES ASSUME NEW k \in Keys, Live(k)', k \notin Stored'
                 PROVE  Cardinality(UsedSince(k)') >= MaxSize
    BY DEF LruOnly
  <2>2. Live(k) /\ k \notin dropped
    BY <2>1 DEF Live
  <2>3. k \notin Stored
    <3>1. ASSUME k \in Stale
          PROVE  FALSE
      BY <2>2, <3>1 DEF Stale, NoResurrection, Live, TypeOK, Stored, Promise
    <3> QED
      BY <1>1, <2>1, <2>2, <3>1
  <2>4. Cardinality(UsedSince(k)) >= MaxSize
    BY <2>2, <2>3 DEF LruOnly
  <2>5. \A j \in Keys : lastUse'[j] >= lastUse[j]
    BY DEF TypeOK
  <2> QED
    BY <1>2, <2>4, <2>5, UsedSinceGrows
<1> QED
  BY <1>2, <1>3, <1>4, <1>5, <1>6

LEMMA HitKeepsIInv ==
  ASSUME IInv, NEW k \in Keys, Hit(k)
  PROVE  IInv'
<1> USE DEF IInv
<1>1. k \in Stored /\ store[k] \in Entry
  BY DEF Hit, TypeOK, Stored
<1>2. store' = [store EXCEPT ![k] = [store[k] EXCEPT !.last_access = now]]
  BY DEF Hit
<1>3. [store[k] EXCEPT !.last_access = now] \in Entry
  BY <1>1 DEF Entry, TypeOK
<1>4. TypeOK'
  <2>1. store' \in [Keys -> Entry \union {Absent}]
    BY <1>2, <1>3 DEF TypeOK
  <2>2. last' \in Calls
    BY <1>1 DEF Hit, Called, Calls, Entry
  <2> QED
    BY <2>1, <2>2 DEF Hit, TypeOK, Calls
<1>5. Stored' = Stored
  BY <1>1, <1>2, <1>3, CacheAssumption DEF Stored, TypeOK
<1>6. CapacityBound'
  BY <1>5 DEF CapacityBound
<1>7. NoResurrection'
  BY <1>1, <1>2, <1>5 DEF NoResurrection, Hit, TypeOK, Entry
<1>8. UseInv'
  BY <1>1, <1>2, <1>5 DEF UseInv, Hit, TypeOK, Entry
<1>9. LruOnly'
  <2>1. SUFFICES ASSUME NEW j \in Keys, Live(j)', j \notin Stored'
                 PROVE  Cardinality(UsedSince(j)') >= MaxSize
    BY DEF LruOnly
  <2>2. Live(j) /\ j \notin Stored /\ j # k
    BY <1>1, <1>5, <2>1 DEF Live, Hit
  <2>3. Cardinality(UsedSince(j)) >= MaxSize
    BY <2>2 DEF LruOnly
  <2>4. lastUse'[j] = lastUse[j] /\ \A i \in Keys : lastUse'[i] >= lastUse[i]
    BY <2>2 DEF Hit, UseInv, TypeOK
  <2> QED
    BY <1>4, <2>3, <2>4, UsedSinceGrows
<1> QED
  BY <1>4, <1>6, <1>7, <1>8, <1>9

LEMMA SetKeepsIInv ==
  ASSUME IInv, NEW k \in Keys, NEW v \in Values, NEW ttl \in CallTtls, Set(k, v, ttl)
  PROVE  IInv'
<1> DEFINE entry == [value |-> v, expires_at |-> now + TtlOf(ttl), last_access |-> now]
<1> USE DEF IInv
<1>1. PICK out \in Evictions(k) : store' = [Without(out) EXCEPT ![k] = entry]
  BY DEF Set
<1>2. /\ entry \in Entry
      /\ now + TtlOf(ttl) \in Nat
      /\ [value |-> v, until |-> now + TtlOf(ttl)] \in Promise
  BY CacheAssumption DEF Entry, Promise, TypeOK, TtlOf
<1>3. /\ out \subseteq Stored \ {k}
      /\ Cardinality((Stored \ out) \union {k}) <= MaxSize
      /\ \/ out \subseteq Stale
         \/ /\ k \notin Stored
            /\ Cardinality(Stored) = MaxSize
            /\ \E l \in Stored : /\ out = {l}
                                 /\ \A j \in Stored :
                                      store[l].last_access <= store[j].last_access
  BY EvictionMakesRoom
<1>4. TypeOK'
  BY <1>1, <1>2 DEF Set, Called, TypeOK, Without
<1>5. Stored' = (Stored \ out) \union {k}
  BY <1>1, <1>2, CacheAssumption DEF Stored, Without
<1>6. CapacityBound'
  BY <1>3, <1>5 DEF CapacityBound
<1>7. /\ store'[k] = entry
      /\ \A j \in Keys \ {k} : store'[j] = (IF j \in out THEN Absent ELSE store[j])
  BY <1>1 DEF Without
<1>8. NoResurrection'
  <2>1. SUFFICES ASSUME NEW j \in Stored'
                 PROVE  /\ due'[j] # Absent
                        /\ store'[j].value = due'[j].value
                        /\ store'[j].expires_at = due'[j].until
    BY DEF NoResurrection
  <2>2. CASE j = k
    <3>1. due'[k] = [value |-> v, until |-> now + TtlOf(ttl)]
      BY DEF Set, TypeOK
    <3> QED
      BY <1>2, <1>7, <2>2, <3>1, CacheAssumption
  <2>3. CASE j # k
    <3>1. j \in Stored /\ j \notin out /\ j \in Keys
      BY <1>5, <2>1, <2>3 DEF Stored
    <3>2. due'[j] = due[j] /\ store'[j] = store[j]
      BY <1>7, <2>3, <3>1 DEF Set, TypeOK
    <3> QED
      BY <3>1, <3>2 DEF NoResurrection
  <2> QED
    BY <2>2, <2>3
<1>9. /\ lastUse'[k] = now /\ now' = now
      /\ \A j \in Keys \ {k} : lastUse'[j] = lastUse[j]
  BY DEF Set, TypeOK
<1>10. UseInv'
  <2>1. SUFFICES ASSUME NEW j \in Keys
                 PROVE  /\ lastUse'[j] <= now'
                        /\ j \in Stored' => store'[j].last_access = lastUse'[j]
    BY DEF UseInv
  <2>2. CASE j = k
    BY <1>7, <1>9, <2>2 DEF TypeOK
  <2>3. CASE j # k
    BY <1>5, <1>7, <1>9, <2>3 DEF UseInv
  <2> QED
    BY <2>2, <2>3
<1>11. LruOnly'
  <2>1. SUFFICES ASSUME NEW j \in Keys, Live(j)', j \notin Stored'
                 PROVE  Cardinality(UsedSince(j)') >= MaxSize
    BY DEF LruOnly
  <2>2. j # k /\ Live(j)
    BY <1>5, <2>1 DEF Live, Set, TypeOK
  <2>3. CASE j \notin Stored
    <3>1. Cardinality(UsedSince(j)) >= MaxSize
      BY <2>2, <2>3 DEF LruOnly
    <3>2. lastUse'[j] = lastUse[j] /\ \A i \in Keys : lastUse'[i] >= lastUse[i]
      BY <1>9, <2>2 DEF UseInv, TypeOK
    <3> QED
      BY <1>4, <3>1, <3>2, UsedSinceGrows
  <2>4. CASE j \in Stored
    <3>1. j \in out /\ j \notin Stale
      <4>1. j \in out
        BY <1>5, <2>1, <2>4
      <4>2. ~(now > store[j].expires_at)
        BY <2>2, <2>4 DEF NoResurrection, Live, TypeOK, Promise
      <4> QED
        BY <4>1, <4>2 DEF Stale
    <3>2. /\ k \notin Stored
          /\ Cardinality(Stored) = MaxSize
          /\ \A i \in Stored : store[j].last_access <= store[i].last_access
      BY <1>3, <3>1
    <3>3. (Stored \ {j}) \union {k} \subseteq UsedSince(j)'
      <4>1. SUFFICES ASSUME NEW i \in (Stored \ {j}) \union {k}
                     PROVE  i \in Keys \ {j} /\ lastUse'[i] >= lastUse'[j]
        BY DEF UsedSince
      <4>2. i \in Keys \ {j}
        BY <2>2 DEF Stored
      <4>3. lastUse'[j] = store[j].last_access /\ lastUse'[j] = lastUse[j]
        BY <1>9, <2>2, <2>4 DEF UseInv
      <4>4. CASE i = k
        BY <1>9, <4>2, <4>3, <4>4 DEF UseInv, TypeOK
      <4>5. CASE i # k
        <5>1. i \in Stored /\ lastUse'[i] = lastUse[i]
          BY <1>9, <4>2, <4>5
        <5>2. store[i].last_access = lastUse[i]
          BY <4>2, <5>1 DEF UseInv
        <5> QED
          BY <3>2, <4>2, <4>3, <5>1, <5>2
      <4> QED
        BY <4>2, <4>4, <4>5
    <3>4. Cardinality((Stored \ {j}) \union {k}) = MaxSize
      <4>1. /\ IsFiniteSet(Stored \ {j})
            /\ Cardinality(Stored \ {j}) = Cardinality(Stored) - 1
        BY <2>4, StoredFinite, FS_RemoveElement
      <4>2. Cardinality((Stored \ {j}) \union {k}) = Cardinality(Stored \ {j}) + 1
        BY <3>2, <4>1, FS_AddElement
      <4> QED
        BY <3>2, <4>1, <4>2, StoredFinite
    <3>5. IsFiniteSet(UsedSince(j)')
      <4>1. UsedSince(j)' \subseteq Keys
        BY DEF UsedSince
      <4> QED
        BY <4>1, FS_Subset, CacheAssumption
    <3> QED
      BY <3>3, <3>4, <3>5, FS_Subset, FS_CardinalityType, CacheAssumption
  <2> QED
    BY <2>3, <2>4
<1> QED
  BY <1>4, <1>6, <1>8, <1>10, <1>11

LEMMA TickKeepsIInv == IInv /\ Tick => IInv'
<1> SUFFICES ASSUME IInv, Tick
             PROVE  IInv'
  OBVIOUS
<1> USE DEF IInv
<1>1. TypeOK' /\ CapacityBound' /\ NoResurrection'
  BY DEF Tick, TypeOK, CapacityBound, NoResurrection, Stored
<1>2. UseInv'
  BY DEF Tick, TypeOK, UseInv, Stored
<1>3. LruOnly'
  BY DEF Tick, TypeOK, LruOnly, Live, Stored, UsedSince, Promise
<1> QED
  BY <1>1, <1>2, <1>3

LEMMA NextIInv == IInv /\ [Next]_vars => IInv'
<1> SUFFICES ASSUME IInv, [Next]_vars
             PROVE  IInv'
  OBVIOUS
<1>0. TypeOK
  BY DEF IInv
<1>1. ASSUME NEW k \in Keys, Get(k)
      PROVE  IInv'
  <2>1. CASE Hit(k)
    BY <2>1, HitKeepsIInv
  <2>2. CASE Miss(k)
    <3>1. store' = Without({k}) /\ due' = [j \in Keys |-> IF j \in {} THEN Absent ELSE due[j]]
      BY <1>0, <2>2 DEF Miss, Without, TypeOK
    <3>2. /\ \A j \in {k} \ {} : j \in Stored => j \in Stale
          /\ last' \in Calls
          /\ UNCHANGED <<now, lastUse>>
          /\ {k} \in SUBSET Keys /\ {} \in SUBSET {k}
      BY <2>2 DEF Miss, Called, Calls
    <3> QED
      BY <3>1, <3>2, RemovalKeepsIInv
  <2> QED
    BY <1>1, <2>1, <2>2 DEF Get
<1>2. ASSUME NEW k \in Keys, NEW v \in Values, NEW ttl \in CallTtls, Set(k, v, ttl)
      PROVE  IInv'
  BY <1>2, SetKeepsIInv
<1>3. ASSUME NEW k \in Keys, Delete(k)
      PROVE  IInv'
  <2>1. /\ store' = Without({k})
        /\ due' = [j \in Keys |-> IF j \in {k} THEN Absent ELSE due[j]]
    BY <1>0, <1>3 DEF Delete, Without, TypeOK
  <2>2. /\ last' \in Calls
        /\ UNCHANGED <<now, lastUse>>
        /\ {k} \in SUBSET Keys /\ {k} \in SUBSET {k}
    BY <1>0, <1>3 DEF Delete, Called, Calls, TypeOK
  <2> QED
    BY <2>1, <2>2, RemovalKeepsIInv
<1>4. CASE Clear
  <2>1. /\ store' = Without(Keys)
        /\ due' = [j \in Keys |-> IF j \in Keys THEN Absent ELSE due[j]]
    BY <1>4 DEF Clear, Without
  <2>2. /\ last' \in Calls
        /\ UNCHANGED <<now, lastUse>>
        /\ Keys \in SUBSET Keys
    BY <1>0, <1>4 DEF Clear, Called, Calls, TypeOK
  <2> QED
    BY <2>1, <2>2, RemovalKeepsIInv
<1>5. CASE Len
  <2>1. /\ due' = [j \in Keys |-> IF j \in {} THEN Absent ELSE due[j]]
        /\ Stale \subseteq Keys
    BY <1>0, <1>5 DEF Len, TypeOK, Stale, Stored
  <2>2. /\ store' = Without(Stale)
        /\ \A k \in Stale \ {} : k \in Stored => k \in Stale
        /\ last' \in Calls
        /\ UNCHANGED <<now, lastUse>>
        /\ Stale \in SUBSET Keys /\ {} \in SUBSET Stale
    BY <1>0, <1>5, <2>1 DEF Len, Calls, TypeOK
  <2> QED
    BY <2>1, <2>2, RemovalKeepsIInv
<1>6. CASE Tick
  BY <1>6, TickKeepsIInv
<1>7. CASE UNCHANGED vars
  BY <1>7 DEF IInv, vars, TypeOK, CapacityBound, NoResurrection, UseInv, LruOnly, Live,
              Stored, UsedSince
<1> QED
  BY <1>1, <1>2, <1>3, <1>4, <1>5, <1>6, <1>7 DEF Next

(* The invariant behind the theorems below: the strengthening of the cache *)
(* invariants by UseInv holds in every reachable state.                    *)
THEOREM Invariance == Spec => []IInv
  BY InitIInv, NextIInv, PTL DEF Spec

(* The variables keep their types through every operation.                 *)
THEOREM TypeCorrect == Spec => []TypeOK
<1>1. IInv => TypeOK
  BY DEF IInv
<1> QED
  BY <1>1, Invariance, PTL

(* set() makes room before it stores: the dict never outgrows max_size.    *)
THEOREM CapacityCorrect == Spec => []CapacityBound
<1>1. IInv => CapacityBound
  BY DEF IInv
<1> QED
  BY <1>1, Invariance, PTL

(* An entry is what was last put under its key, with the deadline it was   *)
(* put with, whatever has been read, evicted or deleted since.             *)
THEOREM ResurrectionFree == Spec => []NoResurrection
<1>1. IInv => NoResurrection
  BY DEF IInv
<1> QED
  BY <1>1, Invariance, PTL

(* A value still due is missing only because max_size other keys were used *)
(* at least as recently: what set() evicts is the least recently used.     *)
THEOREM EvictsLeastRecentlyUsed == Spec => []LruOnly
<1>1. IInv => LruOnly
  BY DEF IInv
<1> QED
  BY <1>1, Invariance, PTL

(* get() answers the value last put under its key, not past its deadline.  *)
THEOREM AnswersAreDue == Spec => OnlyDueAnswers
<1>1. ASSUME IInv, Next, NEW k \in Keys, Get(k), last'.value # Absent
      PROVE  Live(k) /\ last'.value = due[k].value
  <2>1. Hit(k)
    BY <1>1 DEF Get, Miss, Called
  <2>2. /\ k \in Stored /\ ~(now > store[k].expires_at)
        /\ last'.value = store[k].value
    BY <2>1 DEF Hit, Called, Stale
  <2>3. /\ due[k] # Absent /\ store[k].value = due[k].value
        /\ store[k].expires_at = due[k].until
    BY <1>1, <2>2 DEF IInv, NoResurrection
  <2>4. now \in Nat /\ due[k].until \in Nat
    BY <1>1, <2>3 DEF IInv, TypeOK, Promise
  <2> QED
    BY <2>2, <2>3, <2>4 DEF Live
<1>2. IInv /\ [Next]_vars
        => [\A k \in Keys : Get(k) /\ last'.value # Absent => Live(k) /\ last'.value = due[k].value]_vars
  BY <1>1
<1> QED
  BY <1>2, Invariance, PTL DEF Spec, OnlyDueAnswers

-----------------------------------------------------------------------------

LEMMA InitAbstract == Init => Abstract!Init
  BY DEF Init, Abstract!Init, Content, Stored

(* What leaves the dict leaves the map, and nothing else does.             *)
LEMMA RemovalForgets ==
  ASSUME NEW gone \in SUBSET Keys, store' = Without(gone), now' = now
  PROVE  Content' = Abstract!Without(gone)
  BY DEF Content, Abstract!Without, Without, Stored, Stale

LEMMA StepImplements == TypeOK /\ [Next]_vars => [Abstract!Next]_(Abstract!vars)
<1> SUFFICES ASSUME TypeOK, [Next]_vars
             PROVE  [Abstract!Next]_(Abstract!vars)
  OBVIOUS
<1>1. ASSUME NEW k \in Keys, Hit(k)
      PROVE  Abstract!Get(k)
  <2>1. k \in Stored /\ store[k] \in Entry
    BY <1>1 DEF Hit, TypeOK, Stored
  <2>2. store' = [store EXCEPT ![k] = [store[k] EXCEPT !.last_access = now]]
    BY <1>1 DEF Hit
  <2>3. [store[k] EXCEPT !.last_access = now] \in Entry
    BY <2>1 DEF Entry, TypeOK
  <2>4. Content' = Content
    BY <1>1, <2>1, <2>2, <2>3, CacheAssumption DEF Content, Stored, Stale, Hit, TypeOK, Entry
  <2>5. store[k].value = Content[k]
    BY <1>1 DEF Hit, Content
  <2> QED
    BY <1>1, <2>4, <2>5 DEF Abstract!Get, Abstract!Called, Called, Hit, Miss
<1>2. ASSUME NEW k \in Keys, Miss(k)
      PROVE  Abstract!Get(k)
  <2>1. Content' = Content
    BY <1>2 DEF Miss, Content, Stored, Stale, TypeOK
  <2>2. Absent = Content[k]
    BY <1>2 DEF Miss, Content
  <2> QED
    BY <1>2, <2>1, <2>2 DEF Abstract!Get, Abstract!Called, Called, Hit, Miss
<1>3. ASSUME NEW k \in Keys, NEW v \in Values, NEW ttl \in CallTtls, Set(k, v, ttl)
      PROVE  Abstract!Set(k, v)
  <2> DEFINE entry == [value |-> v, expires_at |-> now + TtlOf(ttl), last_access |-> now]
  <2>1. PICK out \in Evictions(k) : store' = [Without(out) EXCEPT ![k] = entry]
    BY <1>3 DEF Set
  <2>2. entry \in Entry /\ ~(now > now + TtlOf(ttl))
    BY CacheAssumption DEF Entry, TypeOK, TtlOf
  <2>3. out \subseteq Keys
    BY DEF Evictions, Stored, Stale, Oldest
  <2>4. Content' = [Abstract!Without(out) EXCEPT ![k] = v]
    BY <1>3, <2>1, <2>2, CacheAssumption
    DEF Content, Stored, Stale, Without, Abstract!Without, Set
  <2> QED
    BY <1>3, <2>3, <2>4 DEF Abstract!Set, Abstract!Called, Called, Set
<1>4. ASSUME NEW k \in Keys, Delete(k)
      PROVE  Abstract!Delete(k)
  <2>1. store' = Without({k}) /\ now' = now
    BY <1>4 DEF Delete, Without, TypeOK
  <2>2. Content' = Abstract!Without({k})
    BY <2>1, RemovalForgets
  <2> QED
    BY <1>4, <2>2 DEF Delete, Called, Abstract!Delete, Abstract!Called
<1>5. CASE Clear
  <2>1. store' = Without(Keys) /\ now' = now
    BY <1>5 DEF Clear, Without
  <2>2. Content' = Abstract!Without(Keys)
    BY <2>1, RemovalForgets
  <2>3. Abstract!Clear
    BY <1>5, <2>2 DEF Clear, Called, Abstract!Clear, Abstract!Called
  <2> QED
    BY <2>3 DEF Abstract!Next
<1>6. CASE Len
  <2>1. store' = Without(Stale) /\ now' = now /\ Stale \in SUBSET Keys
    BY <1>6 DEF Len, Stale, Stored
  <2>2. Content' = Abstract!Without(Stale)
    BY <2>1, RemovalForgets
  <2>3. Abstract!Forget(Stale)
    BY <1>6, <2>2 DEF Len, Abstract!Forget
  <2> QED
    BY <2>1, <2>3 DEF Abstract!Next
<1>7. CASE Tick
  <2> DEFINE expiring == {k \in Stored : now + 1 > store[k].expires_at}
  <2>1. expiring \in SUBSET Keys
    BY DEF Stored
  <2>2. Content' = Abstract!Without(expiring)
    BY <1>7 DEF Tick, Content, Abstract!Without, Stored, Stale, TypeOK, Entry
  <2>3. Abstract!Forget(expiring)
    BY <1>7, <2>2 DEF Tick, Abstract!Forget
  <2> QED
    BY <2>1, <2>3 DEF Abstract!Next
<1>8. CASE UNCHANGED vars
  BY <1>8 DEF vars, Abstract!vars, Content, Stored, Stale
<1> QED
  BY <1>1, <1>2, <1>3, <1>4, <1>5, <1>6, <1>7, <1>8 DEF Next, Get, Abstract!Next

(* Every behaviour of the cache is one of the map that may forget, which   *)
(* is all the storage service relies on.                                   *)
THEOREM CacheIsLossyMap == Spec => ImplementsLossyCache
<1>1. Init /\ [][Next]_vars /\ []TypeOK => Abstract!Spec
  BY InitAbstract, StepImplements, PTL DEF Abstract!Spec
<1> QED
  BY <1>1, TypeCorrect, PTL DEF Spec, ImplementsLossyCache
=============================================================================
