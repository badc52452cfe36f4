--------------------------- MODULE RideResultMC ---------------------------
(* Instances of RideResult for TLC. *)
EXTENDS RideResult
=============================================================================
