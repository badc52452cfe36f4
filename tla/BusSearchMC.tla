---------------------------- MODULE BusSearchMC ----------------------------
(* Instances of BusSearch for TLC. *)
EXTENDS BusSearch
=============================================================================
