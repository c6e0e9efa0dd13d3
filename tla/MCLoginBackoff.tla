--------------------------- MODULE MCLoginBackoff ---------------------------
(* Instances of the login backoff for TLC.                                 *)
EXTENDS LoginBackoff
=============================================================================
