------------------------------ MODULE CurLine ------------------------------
(***************************************************************************)
(* The page that shows the bus on its line (realtime/cur_line.html): it    *)
(* asks the server for the line until there is one, has the map service    *)
(* draw it, locates the bus by the browser or by the router every few      *)
(* seconds, and announces stations.                                        *)
(*                                                                         *)
(* Every answer is a callback that runs to its end; answers come late, in  *)
(* any order, or never.  A position is what rebuild_dis makes of it (see   *)
(* PosCmp): the nearest station, and whether it is within 50 m ("on"),     *)
(* within the threshold ("near") or neither ("far").                       *)
(***************************************************************************)
EXTENDS Integers

CONSTANTS
    LastSta,     \* index of the last station
    Line,        \* station names of the line, by index
    NoName,      \* the empty string
    NoSta,       \* null
    ReqLimit,    \* req_count at which the page stops asking (10)
    MaxPending   \* bound: locate requests of one kind under way at once

Indices == 0 .. LastSta
Names == {Line[s] : s \in Indices}

ASSUME CurLineAssumption ==
    /\ LastSta \in Nat \ {0} /\ DOMAIN Line = Indices
    /\ NoName \notin Names /\ NoSta \notin Names \cup {NoName}
    /\ ReqLimit \in Nat /\ ReqLimit > 1
    /\ MaxPending \in Nat \ {0}

VARIABLES
    req_count, poll,      \* asking the server for the line
    search, timer,        \* the map service's line search; the locate timer
    slider,               \* whether #remind_status may be moved
    loaded, sta_count,    \* whether sta_arr is set; stations counted for it
    locate_fun, brower_geo_obj,
    pending,              \* locate requests under way, by kind
    dst_remind_status, dst_sta, dst_index,
    remind_sta,           \* the station PosCmp is to remind of
    passed_sta, inbound_sta,
    alerts,               \* history: what the last callback alerted
    arrivals, approaches, \* history: how often a name was alerted (2: more)
    heard                 \* history: stations a position was heard from

pollVars   == <<req_count, poll>>
lineVars   == <<search, slider, loaded, sta_count>>
locateVars == <<locate_fun, brower_geo_obj>>
remindVars == <<dst_remind_status, dst_sta, dst_index, remind_sta>>
toldVars   == <<passed_sta, inbound_sta, arrivals, approaches, heard>>
vars == <<pollVars, lineVars, timer, locateVars, pending, remindVars,
          toldVars, alerts>>

Kinds == {"browser", "router", "convert"}
Positions == Indices \X {"on", "near", "far"}

(* $(document).ready has run: both change handlers, and the first request. *)
Init ==
    /\ req_count = 1 /\ poll = "asked"
    /\ search = "none" /\ timer = "none" /\ slider = TRUE
    /\ loaded = FALSE /\ sta_count = 0
    /\ locate_fun = "browser" /\ brower_geo_obj = "object"
    /\ pending = [k \in Kinds |-> 0]
    /\ dst_remind_status = "off" /\ dst_sta = NoName /\ dst_index = 0
    /\ remind_sta = NoSta
    /\ passed_sta = {} /\ inbound_sta = {} /\ alerts = {}
    /\ arrivals = [n \in Names |-> 0]
    /\ approaches = [n \in Names \cup {NoName} |-> 0]
    /\ heard = {}

-----------------------------------------------------------------------------
(* Getting the line.                                                       *)

MutLimitPassed ==
    /\ req_count' = req_count + 1
    /\ poll' = IF req_count' > ReqLimit THEN "given up" ELSE "asked"

MutNotCounted ==
    /\ UNCHANGED req_count
    /\ poll' = IF req_count >= ReqLimit THEN "given up" ELSE "asked"

get_cur_line_info ==
    /\ req_count' = req_count + 1
    /\ poll' = IF req_count' >= ReqLimit THEN "given up" ELSE "asked"

(* The retry, 1.5 seconds after an empty answer.                           *)
AskAgain ==
    /\ poll = "waiting" /\ get_cur_line_info
    /\ UNCHANGED <<lineVars, timer, locateVars, pending, remindVars, toldVars, alerts>>

(* Nobody handles a request that fails: the page never asks again.         *)
CurLineAnswer ==
    /\ poll = "asked"
    /\ \/ poll' \in {"waiting", "lost"} /\ UNCHANGED search
       \/ poll' = "answered" /\ search' = "asked"
    /\ UNCHANGED <<req_count, slider, loaded, sta_count, timer, locateVars,
                   pending, remindVars, toldVars, alerts>>

(* The list of directions found; the configured one may not be among them. *)
onGetBusListComplete ==
    /\ search = "asked"
    /\ \E found \in 0 .. 2, cur_dec \in {1, 2} :
           LET line_dir == IF cur_dec = 2 THEN 1 ELSE 0
           IN /\ search' = IF line_dir < found THEN "listed" ELSE "nothing"
              /\ slider' = (slider /\ found > 0)
    /\ UNCHANGED <<pollVars, loaded, sta_count, timer, locateVars, pending,
                   remindVars, toldVars, alerts>>

onBusListHtmlSet ==
    /\ search \in {"listed", "nothing", "drawn"} /\ timer = "none"
    /\ timer' = "running"
    /\ UNCHANGED <<pollVars, lineVars, locateVars, pending, remindVars, toldVars, alerts>>

(* onMarkersSet calls set_panel_info, which gives PosCmp the stations.     *)
onMarkersSet ==
    /\ search = "listed" /\ search' = "drawn"
    /\ loaded' = TRUE /\ sta_count' = sta_count + 1
    /\ UNCHANGED <<pollVars, slider, timer, locateVars, pending, remindVars,
                   toldVars, alerts>>

-----------------------------------------------------------------------------
(* A position has arrived.                                                 *)

Counted(counts, n) == [counts EXCEPT ![n] = IF @ = 2 THEN 2 ELSE @ + 1]

MutBookedNotKept(name) ==
    IF name = dst_sta THEN passed_sta ELSE passed_sta \cup {name}

(* Both branches of an arrival remember the name they alerted.             *)
PassedWith(name) == passed_sta \cup {name}

MutNewWithoutApproach(name) == name \notin passed_sta \cup inbound_sta

NewArrival(name) == name \notin passed_sta

(* The reserved station or any other: each name is alerted once.           *)
Arrived(s) ==
    LET new == NewArrival(Line[s])
    IN /\ passed_sta' = PassedWith(Line[s])
       /\ arrivals' = IF new THEN Counted(arrivals, Line[s]) ELSE arrivals
       /\ alerts' = (IF new THEN {<<"arrived", s>>} ELSE {})
                    \cup (IF s = sta_count THEN {<<"terminal", s>>} ELSE {})
       /\ timer' = IF s = sta_count THEN "cleared" ELSE timer
       /\ UNCHANGED <<inbound_sta, approaches>>

(* The reminder compares with remind_sta and speaks of dst_sta.            *)
Approached(s) ==
    LET new == dst_sta \notin inbound_sta
    IN /\ inbound_sta' = inbound_sta \cup {dst_sta}
       /\ approaches' = IF new THEN Counted(approaches, dst_sta) ELSE approaches
       /\ alerts' = IF new THEN {<<"approaching", dst_sta>>} ELSE {}
       /\ UNCHANGED <<passed_sta, arrivals, timer>>

SaysNothing ==
    /\ alerts' = {}
    /\ UNCHANGED <<timer, passed_sta, inbound_sta, arrivals, approaches>>

(* An unloaded line has no station to be at or to be reminded of.          *)
translateCallback ==
    /\ \E p \in Positions :
           LET at  == loaded /\ p[2] = "on"
               due == loaded /\ p[2] = "near" /\ Line[p[1]] = remind_sta
           IN /\ heard' = IF at THEN heard \cup {p[1]} ELSE heard
              /\ \/ at /\ Arrived(p[1])
                 \/ due /\ Approached(p[1])
                 \/ ~at /\ ~due /\ SaysNothing
    /\ UNCHANGED <<pollVars, lineVars, locateVars, remindVars>>

NoPosition ==
    /\ SaysNothing
    /\ UNCHANGED <<pollVars, lineVars, locateVars, remindVars, heard>>

-----------------------------------------------------------------------------
(* Locating the bus.                                                       *)

More(k) == [pending EXCEPT ![k] = @ + 1]
Less(k) == [pending EXCEPT ![k] = @ - 1]

LocateTick ==
    /\ timer = "running" /\ pending[locate_fun] < MaxPending
    /\ pending' = More(locate_fun)
    /\ UNCHANGED <<pollVars, lineVars, timer, locateVars, remindVars, toldVars, alerts>>

(* browser_locate_baidu asks the object of the moment for the status: gone *)
(* after a switch to the router, when the callback throws.                 *)
BrowserAnswer ==
    /\ pending["browser"] > 0 /\ pending' = Less("browser")
    /\ \/ brower_geo_obj # "null" /\ translateCallback
       \/ NoPosition

(* The router's answer holds a position to convert, or none, or is lost.   *)
RouterAnswer ==
    /\ pending["router"] > 0
    /\ \/ /\ pending["convert"] < MaxPending
          /\ pending' = [Less("router") EXCEPT !["convert"] = @ + 1]
       \/ pending' = Less("router")
    /\ NoPosition

(* The conversion script calls back with the position, or fails to load.   *)
ConvertAnswer ==
    /\ pending["convert"] > 0 /\ pending' = Less("convert")
    /\ translateCallback \/ NoPosition

-----------------------------------------------------------------------------
(* What the passenger does in the panel.                                   *)

(* Without stations the handler throws after it has stored the status.     *)
MutReminderOff == UNCHANGED remind_sta

ReminderOff == remind_sta' = NoSta

RemindStatusChange ==
    /\ slider
    /\ \/ /\ dst_remind_status = "on" /\ dst_remind_status' = "off"
          /\ ReminderOff
       \/ /\ dst_remind_status = "off" /\ dst_remind_status' = "on"
          /\ remind_sta' = IF loaded THEN Line[dst_index] ELSE remind_sta
    /\ UNCHANGED <<pollVars, lineVars, timer, locateVars, pending, dst_sta,
                   dst_index, toldVars, alerts>>

(* The menu is filled by set_panel_info and its first entry is selected.   *)
StaRemindChange ==
    /\ loaded /\ dst_remind_status = "on"
    /\ \E s \in Indices \ {dst_index} :
           dst_sta' = Line[s] /\ dst_index' = s /\ remind_sta' = Line[s]
    /\ UNCHANGED <<pollVars, lineVars, timer, locateVars, pending,
                   dst_remind_status, toldVars, alerts>>

LocateTypeChange ==
    /\ \/ /\ locate_fun = "router" /\ locate_fun' = "browser"
          /\ brower_geo_obj' = "object"
       \/ /\ locate_fun = "browser" /\ locate_fun' = "router"
          /\ brower_geo_obj' = "null"
    /\ UNCHANGED <<pollVars, lineVars, timer, pending, remindVars, toldVars, alerts>>

Next ==
    \/ AskAgain \/ CurLineAnswer
    \/ onGetBusListComplete \/ onBusListHtmlSet \/ onMarkersSet
    \/ LocateTick \/ BrowserAnswer \/ RouterAnswer \/ ConvertAnswer
    \/ RemindStatusChange \/ StaRemindChange \/ LocateTypeChange

Spec == Init /\ [][Next]_vars

(* The retry timer fires, and a request to the server comes back or fails. *)
FairSpec == Spec /\ WF_vars(AskAgain) /\ WF_vars(CurLineAnswer)

-----------------------------------------------------------------------------
(* The variables keep their shapes, and the page asks less than ReqLimit   *)
(* times.                                                                  *)
TypeOK ==
    /\ req_count \in 1 .. ReqLimit
    /\ poll \in {"asked", "waiting", "lost", "given up", "answered"}
    /\ poll \in {"asked", "waiting"} => req_count < ReqLimit
    /\ search \in {"none", "asked", "listed", "nothing", "drawn"}
    /\ timer \in {"none", "running", "cleared"}
    /\ slider \in BOOLEAN /\ loaded \in BOOLEAN /\ sta_count \in 0 .. 1
    /\ locate_fun \in {"browser", "router"} /\ brower_geo_obj \in {"null", "object"}
    /\ pending \in [Kinds -> 0 .. MaxPending]
    /\ dst_remind_status \in {"on", "off"}
    /\ dst_sta \in Names \cup {NoName} /\ dst_index \in Indices
    /\ remind_sta \in Names \cup {NoSta}
    /\ passed_sta \subseteq Names /\ inbound_sta \subseteq Names \cup {NoName}
    /\ arrivals \in [Names -> 0 .. 2]
    /\ approaches \in [Names \cup {NoName} -> 0 .. 2]
    /\ heard \subseteq Indices

(* However late and in whatever order positions are answered, and however  *)
(* the reminder is moved meanwhile, no name is announced twice.            *)
ToldOnce ==
    /\ \A n \in Names : arrivals[n] <= 1
    /\ \A n \in Names \cup {NoName} : approaches[n] <= 1

(* Every station a position was heard from has been announced, whichever   *)
(* branch - reserved or ordinary - it took.                                *)
HeardTold == \A s \in heard : arrivals[Line[s]] >= 1

(* PosCmp is told of a station only while the reminder is on, and it is    *)
(* the one selected in the menu.                                           *)
ReminderOfMenu ==
    remind_sta # NoSta =>
        dst_remind_status = "on" /\ loaded /\ remind_sta = Line[dst_index]

(* The page finds the line, gives up, or has lost a request.               *)
PollEnds == <>(poll \in {"answered", "given up", "lost"})
=============================================================================
