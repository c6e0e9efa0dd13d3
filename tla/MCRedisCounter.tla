--------------------------- MODULE MCRedisCounter ---------------------------
(* Instances of the counter for TLC.                                       *)
EXTENDS RedisCounter, TLC
Symmetry == Permutations(Tasks)
=============================================================================
