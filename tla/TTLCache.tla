------------------------------ MODULE TTLCache ------------------------------
(***************************************************************************)
(* The local cache of app/services/cache.py: a dict of bounded size whose  *)
(* entries expire.  Every method holds the cache's lock from its first     *)
(* read to its last write, so a method is one action.  Time is a counter;  *)
(* a method reads one instant of it.                                       *)
(***************************************************************************)
EXTENDS Naturals, FiniteSets

CONSTANTS Keys,        \* cache keys
          Values,      \* cached values
          Absent,      \* Python's None: no entry, no answer
          DefaultTtl,  \* settings.cache_ttl
          CallTtls,    \* ttl arguments of set(); 0 stands for None as well
          MaxSize,     \* settings.cache_max_size
          MaxNow       \* bound: the clock stops here

Entry == [value : Values, expires_at : Nat, last_access : Nat]
Promise == [value : Values, until : Nat]

ASSUME CacheAssumption == /\ IsFiniteSet(Keys)
                          /\ MaxSize \in Nat \ {0}
                          /\ DefaultTtl \in Nat
                          /\ CallTtls \subseteq Nat
                          /\ MaxNow \in Nat
                          /\ Absent \notin Values \union Entry \union Promise

VARIABLES now,      \* time.monotonic()
          store,    \* _store: key -> entry
          last,     \* the last call and, for a get, its answer
          due,      \* history: what callers put and neither deleted nor cleared
          lastUse   \* history: when the key was last set, or got with success

vars == <<now, store, last, due, lastUse>>

Called(op, k, v) == last' = [op |-> op, key |-> k, value |-> v]

Stored == {k \in Keys : store[k] # Absent}
Stale == {k \in Stored : now > store[k].expires_at}
Without(S) == [k \in Keys |-> IF k \in S THEN Absent ELSE store[k]]

Init == /\ now = 1
        /\ store = [k \in Keys |-> Absent]
        /\ last = [op |-> "none", key |-> Absent, value |-> Absent]
        /\ due = [k \in Keys |-> Absent]
        /\ lastUse = [k \in Keys |-> 0]

(* Of the keys in S, those min() may pick: last_access orders them, and    *)
(* the dict's insertion order, which breaks ties, is not modelled.         *)
Oldest(S) == {k \in S : \A j \in S : store[k].last_access <= store[j].last_access}

(* Mutant of Evictions: only what has expired is thrown out.               *)
EvictsExpired(k) == {IF Cardinality(Stored) >= MaxSize /\ k \notin Stored THEN Stale ELSE {}}

(* The sets of keys that set(k, ...) may throw out to make room for k.     *)
Evictions(k) ==
  LET full(S) == Cardinality(S) >= MaxSize /\ k \notin S
      kept == Stored \ Stale
  IN IF ~full(Stored) THEN {{}}
     ELSE IF ~full(kept) THEN {Stale}
     ELSE {Stale \union {l} : l \in Oldest(kept)}

TtlOf(ttl) == IF ttl = 0 THEN DefaultTtl ELSE ttl

(* Mutants of Hit: it answers the whole tuple; gives the entry a new       *)
(* deadline; forgets to note the access; does not look at the deadline.    *)
HitAnswersEntry(k) == /\ k \in Stored \ Stale
                      /\ Called("get", k, store[k])
                      /\ UNCHANGED <<now, store, due, lastUse>>
HitProlongs(k) == /\ k \in Stored \ Stale
                  /\ Called("get", k, store[k].value)
                  /\ store' = [store EXCEPT ![k].expires_at = now + DefaultTtl]
                  /\ UNCHANGED <<now, due, lastUse>>
HitLeavesNoTrace(k) == /\ k \in Stored \ Stale
                       /\ Called("get", k, store[k].value)
                       /\ lastUse' = [lastUse EXCEPT ![k] = now]
                       /\ UNCHANGED <<now, store, due>>
HitIgnoresDeadline(k) == /\ k \in Stored
                         /\ Called("get", k, store[k].value)
                         /\ UNCHANGED <<now, store, due, lastUse>>

(* The entry is there and its time is not up.                              *)
Hit(k) == /\ k \in Stored \ Stale
          /\ Called("get", k, store[k].value)
          /\ store' = [store EXCEPT ![k].last_access = now]
          /\ lastUse' = [lastUse EXCEPT ![k] = now]
          /\ UNCHANGED <<now, due>>

(* No entry, or an entry past its time, which get deletes.                 *)
Miss(k) == /\ k \notin Stored \ Stale
           /\ Called("get", k, Absent)
           /\ store' = [store EXCEPT ![k] = Absent]
           /\ UNCHANGED <<now, due, lastUse>>

Get(k) == Hit(k) \/ Miss(k)

(* Mutant of Set: an entry that is there stays as it is.                   *)
SetDefault(k, v, ttl) ==
  /\ \E out \in Evictions(k) :
       store' = IF k \in Stored THEN store
                ELSE [Without(out) EXCEPT
                        ![k] = [value |-> v, expires_at |-> now + TtlOf(ttl), last_access |-> now]]
  /\ Called("set", k, v)
  /\ UNCHANGED <<now, due, lastUse>>

Set(k, v, ttl) ==
  /\ \E out \in Evictions(k) :
       store' = [Without(out) EXCEPT
                   ![k] = [value |-> v, expires_at |-> now + TtlOf(ttl), last_access |-> now]]
  /\ due' = [due EXCEPT ![k] = [value |-> v, until |-> now + TtlOf(ttl)]]
  /\ lastUse' = [lastUse EXCEPT ![k] = now]
  /\ Called("set", k, v)
  /\ UNCHANGED now

Delete(k) == /\ store' = [store EXCEPT ![k] = Absent]
             /\ due' = [due EXCEPT ![k] = Absent]
             /\ Called("delete", k, Absent)
             /\ UNCHANGED <<now, lastUse>>

Clear == /\ store' = [k \in Keys |-> Absent]
         /\ due' = [k \in Keys |-> Absent]
         /\ Called("clear", Absent, Absent)
         /\ UNCHANGED <<now, lastUse>>

(* len(cache) evicts what has expired before it counts.                    *)
Len == /\ store' = Without(Stale)
       /\ UNCHANGED <<now, last, due, lastUse>>

Tick == /\ now < MaxNow
        /\ now' = now + 1
        /\ UNCHANGED <<store, last, due, lastUse>>

Next == \/ \E k \in Keys : Get(k)
        \/ \E k \in Keys, v \in Values, ttl \in CallTtls : Set(k, v, ttl)
        \/ \E k \in Keys : Delete(k)
        \/ Clear
        \/ Len
        \/ Tick

Spec == Init /\ [][Next]_vars

-----------------------------------------------------------------------------

(* The variables have their types.                                         *)
TypeOK == /\ now \in Nat
          /\ store \in [Keys -> Entry \union {Absent}]
          /\ last \in [op : {"none", "get", "set", "delete", "clear"},
                      key : Keys \union {Absent}, value : Values \union {Absent}]
          /\ due \in [Keys -> Promise \union {Absent}]
          /\ lastUse \in [Keys -> Nat]

(* The dict never holds more than max_size entries, expired ones included. *)
CapacityBound == Cardinality(Stored) <= MaxSize

(* Reads never prolong a life (get rewrites the whole tuple to note the    *)
(* access) and nothing undoes a deletion or a clear: an entry is what was  *)
(* last put under its key, with the deadline it was put with.              *)
NoResurrection == \A k \in Stored : /\ due[k] # Absent
                                    /\ store[k].value = due[k].value
                                    /\ store[k].expires_at = due[k].until

(* Eviction is least-recently-used: a value that is still due but gone was *)
(* pushed out by MaxSize other keys, each used at least as recently.  It   *)
(* takes a fill, a choice of victim and any later deletions to break it.   *)
Live(k) == due[k] # Absent /\ now <= due[k].until
UsedSince(k) == {j \in Keys \ {k} : lastUse[j] >= lastUse[k]}
LruOnly == \A k \in Keys : Live(k) /\ k \notin Stored
                             => Cardinality(UsedSince(k)) >= MaxSize

(* A get never answers what is past its time, was deleted or was replaced. *)
OnlyDueAnswers == [][\A k \in Keys : Get(k) /\ last'.value # Absent
                       => Live(k) /\ last'.value = due[k].value]_vars

(* Seen from outside the cache is a map that may forget.                   *)
Content == [k \in Keys |-> IF k \in Stored \ Stale THEN store[k].value ELSE Absent]
Abstract == INSTANCE LossyCache WITH content <- Content
ImplementsLossyCache == Abstract!Spec
=============================================================================
