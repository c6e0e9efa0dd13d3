---------------------------- MODULE MCDebugTools ----------------------------
(* Instances of the debug requests of a process for TLC.                   *)
EXTENDS DebugTools
Delays == {-1, 1, 3}
=============================================================================
