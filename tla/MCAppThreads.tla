---------------------------- MODULE MCAppThreads ----------------------------
(* TLC instance of AppThreads. *)
EXTENDS AppThreads
=============================================================================
