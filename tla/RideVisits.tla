----------------------------- MODULE RideVisits -----------------------------
(***************************************************************************)
(* The ride form (realtime/bus_ride.html) and the plan page it opens       *)
(* (realtime/ride_result.html), visit after visit.  Both pages live in one *)
(* document and share its globals; the plan page is taken out of it when   *)
(* it is left, but what it asked for is still answered, and the form goes  *)
(* on locating under it.  Ways, options and fares are in RideResult.       *)
(*                                                                         *)
(* A point is a position located, or a text: the one typed, or, for its    *)
(* name, any station found for it.  An address is named by its position.   *)
(* Services answer late, in any order, or never.  Requests alike are one   *)
(* member of a set, which may stay when one of them is answered: another   *)
(* may be under way.                                                       *)
(***************************************************************************)
EXTENDS FiniteSetsExt

CONSTANTS
    Texts, Positions,
    NoText,     \* an empty box or list
    Nowhere,    \* no position, or no address, yet
    MaxLate     \* bound: station searches answered after a page was left

ASSUME RideVisitsAssumption ==
    /\ NoText \notin Texts \cup Positions /\ Nowhere \notin Texts \cup Positions
    /\ Texts \cap Positions = {}
    /\ MaxLate \in Nat

VARIABLES
    last_validate_loc,
    addresses,         \* positions whose address was asked for, for no label
    pos_str,           \* address of a position
    ride_param,        \* ends handed over, as they were last committed
    page,              \* "form", "loading", "loaded", "plan"
    point, bak,        \* start_point and end_point; as they were given
    reselect_point_flag,
    local,             \* station searches under way: of an end, for a text
    list,              \* the texts whose stations the panel lists
    label,             \* the addresses #line_start and #line_end show, if any
    geocodes,          \* addresses asked for them: of an end, of a position
    turned,            \* history: whether the return trip is shown
    foreign,           \* history: whether labels may be written for other ends
    hasty              \* history: stations may come for other ends than shown

locating == <<last_validate_loc, addresses>>
ends     == <<point, bak>>
lists    == <<reselect_point_flag, local, list>>
labels   == <<label, geocodes>>
history  == <<turned, foreign, hasty>>
vars == <<locating, pos_str, ride_param, page, ends, lists, labels, history>>

Ends == {"start", "end"}
Other(e) == IF e = "start" THEN "end" ELSE "start"
Located(pt) == {e \in Ends : pt[e] \in Positions}

Init ==
    /\ last_validate_loc = Nowhere /\ addresses = {} /\ pos_str = Nowhere
    /\ ride_param = [e \in Ends |-> NoText] /\ page = "form"
    /\ point = ride_param /\ bak = ride_param
    /\ reselect_point_flag = FALSE /\ local = {} /\ list = [e \in Ends |-> NoText]
    /\ label = [e \in Ends |-> Nowhere] /\ geocodes = {}
    /\ turned = FALSE /\ foreign = FALSE /\ hasty = FALSE

-----------------------------------------------------------------------------
(* The form.                                                               *)

(* The passenger has filled both boxes as he likes, or exchanged them      *)
(* (refresh_point).  Without a start the journey begins at the last        *)
(* position; with less nothing is done.  While the plan page is loaded it  *)
(* is not opened again, but what its script will find is another journey.  *)
bus_commit(start, end) ==
    /\ page \in {"form", "loading"} /\ page' = "loading"
    /\ start # NoText \/ last_validate_loc # Nowhere
    /\ ride_param' = [e \in Ends |-> IF e = "end" THEN end
                                     ELSE IF start = NoText THEN last_validate_loc
                                     ELSE start]
    /\ UNCHANGED <<locating, pos_str, ends, lists, labels, history>>

(* The timer is never cleared and asks under the plan page too, so a       *)
(* position may always come, and after the browser's its address.  After a *)
(* change of locate_type it may be that of the other way, or, as           *)
(* brower_geo_obj is null then, none.                                      *)
PositionAnswer(p) ==
    /\ last_validate_loc' = p
    /\ addresses' \in {addresses, addresses \cup {p}}
    /\ UNCHANGED <<pos_str, ride_param, page, ends, lists, labels, history>>

AddressAnswer(p) ==
    /\ p \in addresses /\ pos_str' = p
    /\ foreign' = (foreign \/ (page = "plan" /\ p # ride_param["start"]))
    /\ UNCHANGED <<locating, ride_param, page, ends, lists, labels, turned, hasty>>

-----------------------------------------------------------------------------
(* The plan page.                                                          *)

(* Its script runs: the globals are defined again.                         *)
Load ==
    /\ page = "loading" /\ page' = "loaded"
    /\ point' = ride_param /\ bak' = ride_param
    /\ reselect_point_flag' = FALSE
    /\ hasty' = (local # {})
    /\ UNCHANGED <<locating, pos_str, ride_param, local, list, labels, turned, foreign>>

(* Requests of a page that was left are told apart from this one's.        *)
Here == page \in {"loaded", "plan"}

MutLookUpsOfAll(flag) ==
    IF flag THEN {} ELSE {[end |-> e, of |-> bak[e], own |-> Here] : e \in Ends}

MutLookUps(flag) ==
    {[end |-> e, of |-> bak[e], own |-> Here] : e \in Ends \ Located(bak)}

(* Stations are looked up for the ends as given, if they were typed and    *)
(* none were listed yet.                                                   *)
LookUps(flag) ==
    IF flag THEN {}
    ELSE {[end |-> e, of |-> bak[e], own |-> Here] : e \in Ends \ Located(bak)}

(* A located end is labelled by the address at hand, or by one asked for.  *)
init_point_info(pt, address) ==
    LET unknown == IF address = Nowhere THEN Located(pt) ELSE {}
    IN /\ label' = [e \in Ends |-> IF e \in unknown THEN label[e]
                                   ELSE IF e \in Located(pt) THEN address ELSE Nowhere]
       /\ geocodes' = geocodes \cup {[end |-> e, of |-> pt[e]] : e \in unknown}

MutAddressReset == pos_str

(* reset_all, so that a page opened after going back starts afresh.        *)
AddressReset == Nowhere

Show ==
    /\ page = "loaded" /\ page' = "plan"
    /\ reselect_point_flag' = FALSE /\ pos_str' = AddressReset
    /\ local' = local \cup LookUps(FALSE)
    /\ init_point_info(point, pos_str')
    /\ UNCHANGED <<locating, ride_param, ends, list, history>>

(* A search for plans, which the passenger may start at any time, is       *)
(* answered, also after the page was left.                                 *)
transit_callback ==
    /\ bak["end"] # NoText
    /\ local' = local \cup LookUps(reselect_point_flag)
    /\ UNCHANGED <<locating, pos_str, ride_param, page, ends, reselect_point_flag, list,
                   labels, history>>

(* The return trip; stations looked up are still for the ends as given.    *)
change_point ==
    /\ page = "plan"
    /\ point' = [e \in Ends |-> point[Other(e)]]
    /\ init_point_info(point', pos_str)
    /\ turned' = ~turned /\ foreign' = (foreign \/ geocodes # {})
    /\ hasty' = (hasty \/ local # {} \/ ~reselect_point_flag)
    /\ UNCHANGED <<locating, pos_str, ride_param, page, bak, lists>>

re_search ==
    /\ page = "plan"
    /\ init_point_info(point, pos_str)
    /\ UNCHANGED <<locating, pos_str, ride_param, page, ends, lists, history>>

(* A station of a list is taken, for the end as given.                     *)
StationClick(e) ==
    /\ page = "plan" /\ list[e] # NoText
    /\ point' = [point EXCEPT ![e] = list[e]]
    /\ hasty' = (hasty \/ turned)
    /\ UNCHANGED <<locating, pos_str, ride_param, page, bak, lists, labels, turned,
                   foreign>>

(* Stations found are listed, and the first one listed is taken.  A panel  *)
(* is found by its name: what an earlier page asked for is listed in this  *)
(* one, or, if the map service found the panel when it was asked, nowhere. *)
(* With nothing listed the callback throws.                                *)
onResultsHtmlSet(l) ==
    LET e == l.end
    IN /\ l \in local /\ local' \in {local, local \ {l}}
       /\ \/ UNCHANGED <<list, point, reselect_point_flag>>
          \/ /\ Here
             /\ \/ list' = [list EXCEPT ![e] = l.of]
                \/ ~l.own /\ list[e] # NoText /\ UNCHANGED list
             /\ point' = [point EXCEPT ![e] = list'[e]]
             /\ reselect_point_flag' = TRUE
       /\ UNCHANGED <<locating, pos_str, ride_param, page, bak, labels, history>>

AddressFound(g) ==
    /\ g \in geocodes /\ geocodes' \in {geocodes, geocodes \ {g}}
    /\ \/ pos_str' = g.of /\ label' = [label EXCEPT ![g.end] = g.of]
       \/ UNCHANGED <<pos_str, label>>
    /\ UNCHANGED <<locating, ride_param, page, ends, lists, history>>

(* Bound: of the station searches of a page left, others never come back.  *)
Late(requests) ==
    UNION {kSubset(n, {[r EXCEPT !.own = FALSE] : r \in requests}) : n \in 0 .. MaxLate}

(* The page is taken out of the document: addresses still to come have no  *)
(* label to be written to.                                                 *)
Back ==
    /\ page = "plan" /\ page' = "form"
    /\ local' \in Late(local)
    /\ addresses' = addresses \cup {g.of : g \in geocodes} /\ geocodes' = {}
    /\ list' = [e \in Ends |-> NoText] /\ label' = [e \in Ends |-> Nowhere]
    /\ turned' = FALSE /\ foreign' = FALSE /\ hasty' = FALSE
    /\ UNCHANGED <<last_validate_loc, pos_str, ride_param, ends, reselect_point_flag>>

(* The browser's button opens the page left again.                         *)
Forward ==
    /\ page = "form" /\ bak["end"] # NoText /\ page' = "loading"
    /\ UNCHANGED <<locating, pos_str, ride_param, ends, lists, labels, history>>

Next ==
    \/ \E start \in Texts \cup {NoText}, end \in Texts : bus_commit(start, end)
    \/ \E p \in Positions : PositionAnswer(p) \/ AddressAnswer(p)
    \/ Load \/ Show \/ transit_callback \/ change_point \/ re_search
    \/ \E e \in Ends : StationClick(e)
    \/ \E l \in local : onResultsHtmlSet(l)
    \/ \E g \in geocodes : AddressFound(g)
    \/ Back \/ Forward

Spec == Init /\ [][Next]_vars

-----------------------------------------------------------------------------
Points == Texts \cup Positions \cup {NoText}

(* The variables keep their shapes: only texts are looked up, only         *)
(* positions have addresses.                                               *)
TypeOK ==
    /\ last_validate_loc \in Positions \cup {Nowhere} /\ addresses \subseteq Positions
    /\ pos_str \in Positions \cup {Nowhere}
    /\ page \in {"form", "loading", "loaded", "plan"}
    /\ ride_param \in [Ends -> Points] /\ bak \in [Ends -> Points]
    /\ point \in [Ends -> Points] /\ list \in [Ends -> Texts \cup {NoText}]
    /\ reselect_point_flag \in BOOLEAN
    /\ local \subseteq [end : Ends, of : Texts, own : BOOLEAN]
    /\ label \in [Ends -> Positions \cup {Nowhere}]
    /\ geocodes \subseteq [end : Ends, of : Positions]
    /\ turned \in BOOLEAN /\ foreign \in BOOLEAN /\ hasty \in BOOLEAN

(* The journey shown is the one committed last, turned round as often as   *)
(* was asked, and the stations listed are those of its ends - unless it    *)
(* was turned while stations might still be looked up, or stations were    *)
(* taken after that, or an earlier visit still waited for some when this   *)
(* one began.                                                              *)
JourneyShown ==
    Here /\ ~hasty => \A e \in Ends :
        /\ point[IF turned THEN Other(e) ELSE e] = ride_param[e]
        /\ list[e] \in {NoText, ride_param[e]}

(* However often the page is opened, turned round or searched again, a     *)
(* located end is labelled by the address of its own position and by none  *)
(* of an earlier visit (reset_all, ride_result.html 478), and no address   *)
(* is written over the name of an end that was typed - unless, in this     *)
(* visit, the form learned the address of another position and wrote it    *)
(* into the pos_str they share, or the journey was turned round before an  *)
(* address asked for had come, or stations may come for other ends.        *)
LabelOfPosition ==
    page = "plan" /\ ~foreign /\ ~hasty => \A e \in Ends :
        label[IF turned THEN Other(e) ELSE e] \in {Nowhere, ride_param[e]}
=============================================================================
