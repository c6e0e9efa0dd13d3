---------------------------- MODULE MCDashboard ----------------------------
(* Instances of the dashboard over the life of a process for TLC.          *)
EXTENDS Dashboard
=============================================================================
