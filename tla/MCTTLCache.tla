----------------------------- MODULE MCTTLCache -----------------------------
(* The cache with room for two of three keys; one key more than fits makes *)
(* eviction happen, two times to live make expiry race with it.            *)
EXTENDS TTLCache, TLC
MCCallTtls == {0, 2}
Symmetry == Permutations(Keys) \union Permutations(Values)
=============================================================================
