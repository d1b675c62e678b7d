---------------------------- MODULE MCLogReaders ----------------------------
(* TLC instance of LogReaders. *)
EXTENDS LogReaders

CONSTANTS s1, s2
=============================================================================
