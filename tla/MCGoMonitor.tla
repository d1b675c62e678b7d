---------------------------- MODULE MCGoMonitor -----------------------------
(* TLC instance of GoMonitor. *)
EXTENDS GoMonitor
=============================================================================
