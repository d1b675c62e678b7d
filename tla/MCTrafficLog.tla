---------------------------- MODULE MCTrafficLog ----------------------------
(* TLC instance of TrafficLog. *)
EXTENDS TrafficLog

CONSTANTS alice, bob

\* alice only downloads, so with a floor of 0 she takes part in restart detection
\* once her base is positive; bob only uploads, so he never does.
MCUsers == {alice, bob}
MCMoves == {<<alice, "dn", 1>>, <<bob, "up", 1>>}
=============================================================================
