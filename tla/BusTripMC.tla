----------------------------- MODULE BusTripMC -----------------------------
(* Instances of BusTrip for TLC: no line is configured under way. *)
EXTENDS BusTrip

MCNames == {}
MCClip == [n \in {} |-> n]
AnyNeighbour == {"padding", "bus_num", "bus_derection",
                 "bus_cur_line_info", "bus_cur_sta"}
=============================================================================
