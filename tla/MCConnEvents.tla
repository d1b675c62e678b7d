---------------------------- MODULE MCConnEvents ----------------------------
(* Instance of ConnEvents for TLC; the bounds are in the .cfg file.        *)
EXTENDS ConnEvents
=============================================================================
