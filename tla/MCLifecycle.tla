---------------------------- MODULE MCLifecycle ----------------------------
(* Instances of the life of a process for TLC.                             *)
EXTENDS Lifecycle
=============================================================================
