---------------------------- MODULE MCIPRegistry ----------------------------
(* TLC instance of IPRegistry. *)
EXTENDS IPRegistry

CONSTANT ip1

One == {ip1}
=============================================================================
