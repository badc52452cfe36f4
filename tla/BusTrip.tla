------------------------------ MODULE BusTrip ------------------------------
(***************************************************************************)
(* A bus on its way, reporting every stop to the sta_status requests of    *)
(* BusConfig.  The reporter is outside the repository; it follows the      *)
(* meaning rq_head.h gives to the reports.  A report may be lost, or sent  *)
(* again before the next one, and the server may restart under way.        *)
(***************************************************************************)
EXTENDS BusConfig

CONSTANT LineLength   \* stations of the line

ASSUME LineLengthAssumption ==
    LineLength \in Nat /\ LineLength > 1 /\ LineLength <= BUS_STA_MX_COUNT

VARIABLES
    leg,      \* "ended", "at" a station, "leaving" it, or going "toward" it
    pos,      \* the station leg is about
    last,     \* the report sent last: <<seq, status>>
    unheard,  \* stations whose report of this trip the server does not have
    lossy     \* whether reports may be lost; chosen once

tripVars == <<leg, pos, last, unheard, lossy>>
allVars == <<vars, tripVars>>

Destination == LineLength - 1

TripInit ==
    /\ Init
    /\ leg = "ended" /\ pos = 0 /\ unheard = {}
    /\ last = <<0, BUS_STATUS_TERMINAL>>
    /\ lossy \in BOOLEAN

(* The stations whose approach - or, for 0, whose BEGIN - is unknown when   *)
(* the report of status at station s arrives, or is lost.                  *)
Unheard(s, status, arrives) ==
    LET known == IF status = BUS_STATUS_BEGIN THEN {} ELSE unheard
    IN IF status \notin {BUS_STATUS_BEGIN, BUS_STATUS_INBOUND} THEN known
       ELSE IF arrives THEN known \ {s} ELSE known \cup {s}

(* The bus moves, and its report reaches the server or is lost.            *)
Report(status) ==
    /\ last' = <<pos', status>> /\ lossy' = lossy
    /\ \/ /\ StaStatusSet(pos', status)
          /\ unheard' = Unheard(pos', status, TRUE)
       \/ /\ lossy
          /\ UNCHANGED vars
          /\ unheard' = Unheard(pos', status, FALSE)

Begin == leg = "ended" /\ leg' = "at" /\ pos' = 0 /\ Report(BUS_STATUS_BEGIN)

Leave ==
    /\ leg = "at" /\ pos < Destination
    /\ leg' = "leaving" /\ pos' = pos
    /\ Report(BUS_STATUS_OUTBOUND)

Approach ==
    /\ leg = "leaving"
    /\ leg' = "toward" /\ pos' = pos + 1
    /\ Report(BUS_STATUS_INBOUND)

Arrive ==
    /\ leg = "toward"
    /\ leg' = "at" /\ pos' = pos
    /\ Report(BUS_STATUS_IN_STATION)

Finish ==
    /\ leg = "at" /\ pos = Destination
    /\ leg' = "ended" /\ pos' = pos
    /\ Report(BUS_STATUS_TERMINAL)

(* No answer came: the same report once more.                              *)
Retry ==
    /\ StaStatusSet(last[1], last[2])
    /\ unheard' = Unheard(last[1], last[2], TRUE)
    /\ UNCHANGED <<leg, pos, last, lossy>>

ServerRestart ==
    /\ Restart
    /\ unheard' = 0 .. pos
    /\ UNCHANGED <<leg, pos, last, lossy>>

TripNext ==
    Begin \/ Leave \/ Approach \/ Arrive \/ Finish \/ Retry \/ ServerRestart

TripSpec == TripInit /\ [][TripNext]_allVars

-----------------------------------------------------------------------------
(* The reporter stays inside the line and its state has the shape declared.*)
TripTypeOK ==
    /\ leg \in {"ended", "at", "leaving", "toward"}
    /\ pos \in 0 .. Destination
    /\ last \in (0 .. Destination) \X (1 .. BUS_STATUS_MAX - 1)
    /\ unheard \in SUBSET (0 .. Destination)
    /\ lossy \in BOOLEAN

(* Under way, every station the bus has left behind is shown STA_PASSED,   *)
(* provided the report of the next station's approach arrived: a lost or   *)
(* repeated arrival or departure report does no lasting harm.              *)
BehindPassed ==
    leg # "ended" =>
        \A s \in 1 .. pos : s \notin unheard => bus_sta_status[s - 1] = STA_PASSED

(* A bus that reports in the order of its line never makes the server      *)
(* write past bus_sta_status, not even when every entry is a station.      *)
TripKeepsLine == [][lineVars' = lineVars]_lineVars

(* rq_head.h:57 and :61: BUS_STATUS_BEGIN is the start of the run and      *)
(* STA_PASSED a station already passed; a station the bus has not reached  *)
(* since an accepted BEGIN is not shown as passed.                         *)
AheadNotPassed ==
    leg # "ended" /\ 0 \notin unheard /\ ~lossy =>
        \A s \in pos + 1 .. Destination : bus_sta_status[s] # STA_PASSED

(* What the answer to a get says of station s, by the enumeration of       *)
(* rq_head.h; a number that is not in it says nothing.                     *)
ShownOf(s) ==
    CASE bus_sta_status[s] = STA_PASSED   -> "passed"
      [] bus_sta_status[s] = STA_IN_STA   -> "in"
      [] bus_sta_status[s] = STA_INBOUND  -> "inbound"
      [] bus_sta_status[s] = STA_OUTBOUND -> "outbound"
      [] OTHER                            -> "none"

StationsShown == [s \in 0 .. Destination |-> ShownOf(s)]

TripBoardShown == INSTANCE TripBoard WITH shown <- StationsShown

(* The status array implements TripBoard: lost and repeated reports and    *)
(* restarts under way leave gaps and old entries in it, but no report ever *)
(* makes an entry say what is not true of the bus at that moment.          *)
ShowsTruth == TripBoardShown!Board
=============================================================================
