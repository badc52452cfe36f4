---------------------------- MODULE BusConfigMC ----------------------------
(* Instances of BusConfig for TLC. *)
EXTENDS BusConfig

CONSTANTS K1, K2, L1, L2

MCNames == {K1, K2}
MCLongNames == {L1, L2}
\* both long names lose their distinguishing tail
MCClip == [n \in MCLongNames |-> K1]
MCLines == {K2}
\* the fuzzy search for K1 also finds line K2
MCLike == {<<K1, K2>>, <<K2, K2>>}
AnyNeighbour == {"padding", "bus_num", "bus_derection",
                 "bus_cur_line_info", "bus_cur_sta"}

MCDecs == {-1, 0, 1, 2}
\* the stations in between are reached by the reports of BusTripMC
EdgeSeqs == {-1, 0, BUS_STA_MX_COUNT - 1, BUS_STA_MX_COUNT}
MCStatuses == 0 .. BUS_STATUS_MAX
=============================================================================
