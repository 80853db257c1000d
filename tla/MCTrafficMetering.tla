------------------------- MODULE MCTrafficMetering -------------------------
(* Instances of TrafficMetering for TLC. *)
EXTENDS TrafficMetering

CONSTANTS alice

One == {alice}
=============================================================================
