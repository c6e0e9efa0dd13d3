----------------------------- MODULE LossyCache -----------------------------
(***************************************************************************)
(* What the local cache promises to its callers: a map that may forget.    *)
(* A get answers the value last set under the key and not deleted since,   *)
(* or nothing; an entry can vanish at any time and does not come back      *)
(* until it is set again.  This is all that app/services/storage.py relies *)
(* on: TTLCache implements it, and Storage uses it.                        *)
(***************************************************************************)
CONSTANTS Keys,     \* cache keys, "ctx:<id>" in the code
          Values,   \* cached values
          Absent    \* no value: Python's None

VARIABLES content,  \* what a get would find now
          last      \* the last call and, for a get, its answer

vars == <<content, last>>

Called(op, k, v) == last' = [op |-> op, key |-> k, value |-> v]

Init == /\ content = [k \in Keys |-> Absent]
        /\ last = [op |-> "none", key |-> Absent, value |-> Absent]

Without(S) == [k \in Keys |-> IF k \in S THEN Absent ELSE content[k]]

Get(k) == Called("get", k, content[k]) /\ UNCHANGED content

(* Storing one value may cost others: the cache is bounded.                *)
Set(k, v) == /\ Called("set", k, v)
             /\ \E S \in SUBSET Keys : content' = [Without(S) EXCEPT ![k] = v]

Delete(k) == Called("delete", k, Absent) /\ content' = Without({k})

Clear == Called("clear", Absent, Absent) /\ content' = Without(Keys)

(* Expiry: nobody calls, entries vanish.                                   *)
Forget(S) == content' = Without(S) /\ UNCHANGED last

Next == \/ \E k \in Keys : Get(k)
        \/ \E k \in Keys, v \in Values : Set(k, v)
        \/ \E k \in Keys : Delete(k)
        \/ Clear
        \/ \E S \in SUBSET Keys : Forget(S)

Spec == Init /\ [][Next]_vars
=============================================================================
