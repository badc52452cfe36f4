------------------------------- MODULE PosCmp -------------------------------
(***************************************************************************)
(* js/position_cmp.js: which station of the line a position is nearest to, *)
(* whether the bus stands there, and whether it is time for the reminder.  *)
(*                                                                         *)
(* A position is given by its distances to the stations (the haversine     *)
(* formula is left out; only the order of the distances and the two limits *)
(* matter).  The comparison loop is modelled turn by turn; a callback runs *)
(* to its end, so that nothing else happens while it scans.                *)
(***************************************************************************)
EXTENDS Integers

CONSTANTS
    Names,       \* station names
    NoSta,       \* null
    MaxSize,     \* stations of the longest line considered
    Dists,       \* distances in metres
    Thresholds   \* arguments of set_reminde_threshold

ASSUME PosCmpAssumption ==
    /\ NoSta \notin Names
    /\ MaxSize \in Nat
    /\ Dists \subseteq Nat
    /\ Thresholds \subseteq Int

VARIABLES
    line_sta,    \* names of the stations, by index from 0
    sta_size,
    remind_sta,  \* name of the station to remind of, or NoSta
    threshold,
    dis,         \* distances of the position being compared
    i, min_dis, min_index,
    sta_last,    \* nearest station of the last position
    dis_last,    \* and its distance
    pc,          \* "idle", or where the callback is: "scan", "check"
    result       \* what the checks said of the last position

vars == <<line_sta, sta_size, remind_sta, threshold, dis, i, min_dis,
          min_index, sta_last, dis_last, pc, result>>

settings == <<line_sta, sta_size, remind_sta, threshold>>
scan     == <<dis, i, min_dis, min_index>>
outcome  == <<sta_last, dis_last, result>>

Indices == 0 .. sta_size - 1

(* undefined, which compares as neither smaller nor greater than a number. *)
Undefined == -1

OnStation == 50

Init ==
    /\ line_sta = [k \in {} |-> NoSta] /\ sta_size = 0
    /\ remind_sta = NoSta
    /\ threshold = Undefined
    /\ dis = [k \in {} |-> 0] /\ i = 0 /\ min_dis = 0 /\ min_index = 0
    /\ sta_last = Undefined /\ dis_last = Undefined
    /\ pc = "idle" /\ result = "none"

-----------------------------------------------------------------------------
set_line_sta(arr, size) ==
    /\ pc = "idle"
    /\ line_sta' = arr /\ sta_size' = size
    /\ UNCHANGED <<remind_sta, threshold, scan, outcome, pc>>

set_remind_sta(rm_sta) ==
    /\ pc = "idle"
    /\ remind_sta' = rm_sta
    /\ UNCHANGED <<line_sta, sta_size, threshold, scan, outcome, pc>>

set_reminde_threshold(v) ==
    /\ pc = "idle"
    /\ threshold' = IF v <= 0 THEN 200 ELSE v
    /\ UNCHANGED <<line_sta, sta_size, remind_sta, scan, outcome, pc>>

(* rebuild_dis: the distances are computed, then scanned.                  *)
rebuild_dis_begin(d) ==
    /\ pc = "idle" /\ pc' = "scan"
    /\ dis' = d
    /\ i' = 0 /\ min_index' = 0
    /\ min_dis' = IF sta_size = 0 THEN Undefined ELSE d[0]
    /\ UNCHANGED <<settings, outcome>>

MutCloser(k) == dis[k] <= min_dis

Closer(k) == dis[k] < min_dis

MutTurnOnlyWhenCloser ==
    /\ pc = "scan" /\ i < sta_size
    /\ \/ Closer(i) /\ min_dis' = dis[i] /\ min_index' = i /\ i' = i + 1
       \/ ~Closer(i) /\ UNCHANGED <<min_dis, min_index, i>>
    /\ UNCHANGED <<settings, dis, outcome, pc>>

rebuild_dis_turn ==
    /\ pc = "scan" /\ i < sta_size
    /\ \/ /\ Closer(i)
          /\ min_dis' = dis[i] /\ min_index' = i
       \/ /\ ~Closer(i)
          /\ UNCHANGED <<min_dis, min_index>>
    /\ i' = i + 1
    /\ UNCHANGED <<settings, dis, outcome, pc>>

rebuild_dis_end ==
    /\ pc = "scan" /\ i >= sta_size
    /\ sta_last' = min_index /\ dis_last' = min_dis
    /\ pc' = "check"
    /\ UNCHANGED <<settings, scan, result>>

Within(limit) == dis_last # Undefined /\ dis_last <= limit

MutOnStationByThreshold == Within(threshold)

check_on_station == Within(OnStation)

check_threshold ==
    /\ remind_sta # NoSta
    /\ line_sta[sta_last] = remind_sta
    /\ Within(threshold)

(* The caller asks for the threshold only when the bus is at no station.   *)
(* With a reminder kept from an earlier line, reading the nearest station  *)
(* of an empty line throws.                                                *)
checks ==
    /\ pc = "check" /\ pc' = "idle"
    /\ result' = IF check_on_station THEN "on station"
                 ELSE IF remind_sta = NoSta THEN "none"
                 ELSE IF sta_size = 0 THEN "error"
                 ELSE IF check_threshold THEN "remind" ELSE "none"
    /\ UNCHANGED <<settings, scan, sta_last, dis_last>>

Next ==
    \/ \E n \in 0 .. MaxSize : \E arr \in [0 .. n - 1 -> Names] : set_line_sta(arr, n)
    \/ \E rm_sta \in Names \cup {NoSta} :
           /\ sta_size = 0 => rm_sta = NoSta
           /\ set_remind_sta(rm_sta)
    \/ \E v \in Thresholds : set_reminde_threshold(v)
    \/ \E d \in [Indices -> Dists] : rebuild_dis_begin(d)
    \/ rebuild_dis_turn
    \/ rebuild_dis_end
    \/ checks

Spec == Init /\ [][Next]_vars

(* A callback that has begun is run to its end.                            *)
FairSpec == Spec /\ WF_vars(rebuild_dis_turn \/ rebuild_dis_end \/ checks)

-----------------------------------------------------------------------------
SettingsOK ==
    /\ sta_size \in Nat
    /\ line_sta \in [Indices -> Names]
    /\ remind_sta \in Names \cup {NoSta}
    /\ threshold \in Int

ScanOK ==
    /\ pc # "idle" => dis \in [Indices -> Dists]
    /\ i \in Nat /\ min_dis \in Int /\ min_index \in Nat

OutcomeOK ==
    /\ sta_last \in Int /\ dis_last \in Int
    /\ result \in {"on station", "remind", "none", "error"}

(* The variables have the shape the script gives them.                     *)
TypeOK ==
    /\ SettingsOK /\ ScanOK /\ OutcomeOK
    /\ pc \in {"idle", "scan", "check"}

(* k is the first of the stations that are nearest, among those before n.  *)
FirstNearest(k, n) ==
    /\ k \in 0 .. n - 1
    /\ \A j \in 0 .. n - 1 : dis[k] <= dis[j]
    /\ \A j \in 0 .. k - 1 : dis[k] < dis[j]

(* When rebuild_dis returns, sta_last and dis_last are the nearest station *)
(* and its distance; of several as near, the first in driving order.       *)
NearestFound ==
    pc = "check" /\ sta_size > 0 =>
        FirstNearest(sta_last, sta_size) /\ dis_last = dis[sta_last]

(* The bus is said to stand at a station, or the reminder to be due, only  *)
(* on the distances of this very position: no stale sta_last or dis_last   *)
(* decides, and of a line without stations nothing is said.                *)
VerdictOnPosition ==
    [][pc = "check" =>
        /\ result' = "on station" =>
               \E j \in Indices : dis[j] <= OnStation /\ sta_last = j
        /\ result' = "remind" =>
               \E j \in Indices : /\ line_sta[j] = remind_sta
                                  /\ dis[j] > OnStation /\ dis[j] <= threshold
                                  /\ \A k \in Indices : dis[j] <= dis[k]]_vars

(* Every callback comes to its verdict.                                    *)
CallbackEnds == [](pc = "scan" => <>(pc = "idle"))
=============================================================================
