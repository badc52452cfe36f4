----------------------------- MODULE RideResult -----------------------------
(***************************************************************************)
(* Plans on the page of travel plans (realtime/ride_result.html): they are *)
(* searched by bus, by car or on foot, with the options ticked, for the    *)
(* journey as given or turned round, and a taxi fare is asked for.  Every  *)
(* search is made by an object of its own, but all those of one way write  *)
(* into one panel.  The map service answers late, in any order, or never;  *)
(* searches alike are one, answered with the last of them.                 *)
(*                                                                         *)
(* What the same handlers do to the ends of the journey, its labels and    *)
(* stations is in RideVisits, over several visits of the page.             *)
(***************************************************************************)
EXTENDS Integers, FiniteSetsExt

CONSTANTS
    Clicked,     \* ways the passenger clicks on
    BusWays,     \* ticks of the group bus_way
    Tools,       \* ticks of the group way_tools
    DrvWays,     \* ticks of the group drv_way
    MaxEarlier,  \* bound: searches under way besides the last ones of each way
    MaxPending   \* bound: requests of a fare under way that count

ASSUME RideResultAssumption ==
    /\ Clicked \subseteq 0 .. 2
    /\ BusWays \subseteq 0 .. 2 /\ 0 \in BusWays
    /\ Tools \subseteq {3, 4} /\ 3 \in Tools
    /\ DrvWays \subseteq 0 .. 2 /\ 0 \in DrvWays
    /\ MaxEarlier \in Nat /\ MaxPending \in Nat

VARIABLES
    delayed,     \* whether the click after three seconds is still to come
    cur_chose, last_travel_way,
    ticked, last_pol,       \* options ticked, by group; last change, by way
    turned,      \* whether start_point and end_point are exchanged
    searches,    \* searches under way: <<way, what it goes by>>
    shown,       \* what the plans go by that the panel of a way shows
    taxi, taxi_type, taxi_f,
    asked,       \* history: what the last search of a way went by
    overtaken    \* history: ways whose last answer was overwritten by an earlier one

choice == <<cur_chose, last_travel_way, ticked, last_pol, turned>>
plans  == <<searches, shown, asked, overtaken>>
fare   == <<taxi, taxi_type, taxi_f>>
vars == <<delayed, choice, plans, fare>>

Bus == 0
Drv == 1
Walk == 2
Ways == {Bus, Drv, Walk}
Groups == {"bus_way", "way_tools", "drv_way"}
WayOf(g) == IF g = "drv_way" THEN Drv ELSE Bus
Options(g) == IF g = "bus_way" THEN BusWays
              ELSE IF g = "way_tools" THEN Tools ELSE DrvWays

NoSearch == <<>>

MutWithout == Bus

(* The value of last_travel_way before any way was clicked.                *)
Without == -1

More(n) == IF n = MaxPending THEN n ELSE n + 1

-----------------------------------------------------------------------------
(* Parts of the handlers.                                                  *)

(* What a search by way w goes by; the tools overrule the way.             *)
Policy(w, t) ==
    IF w = Walk THEN <<"walk">>
    ELSE IF w = Drv THEN <<"drv", t["drv_way"]>>
    ELSE IF t["way_tools"] = 4 THEN <<"bus, no subway">>
    ELSE <<"bus", t["bus_way"]>>

Goal(w, t, back) == <<Policy(w, t), back>>

(* rebuild_bus_way, rebuild_drv_way or rebuild_walk_way.  Of the searches  *)
(* under way that are no way's last one, MaxEarlier may still be answered. *)
Rebuild(w, t, back) ==
    LET new == <<w, Goal(w, t, back)>>
        earlier == {s \in searches \cup {new} : s[2] # asked'[s[1]]}
    IN /\ asked' = [asked EXCEPT ![w] = new[2]]
       /\ \E late \in kSubset(Min({MaxEarlier, Cardinality(earlier)}), earlier) :
              searches' = ((searches \cup {new}) \ earlier) \cup late
       /\ overtaken' = overtaken \ {w}
       /\ shown' = shown

(* A search and, by bus, the request of the taxi fare (rebuild_taxi_ret),  *)
(* which has no panel.  The answer to a search by car is not rendered as a *)
(* fare, its callback being replaced.                                      *)
Search(w, t, back, withTaxi) ==
    /\ Rebuild(w, t, back)
    /\ taxi' = IF w = Bus /\ withTaxi THEN More(taxi) ELSE taxi
    /\ taxi_type' = IF w = Bus /\ withTaxi THEN 0
                    ELSE IF w = Drv THEN t["drv_way"] ELSE taxi_type

NoSearchMade == UNCHANGED <<plans, taxi, taxi_type>>

(* A click on a way: nothing is searched again for the way shown.          *)
way_click(w, need_refresh) ==
    /\ cur_chose' = w /\ last_travel_way' = w
    /\ \/ /\ w # last_travel_way \/ need_refresh
          /\ Search(w, ticked, turned, TRUE)
       \/ /\ w = last_travel_way /\ ~need_refresh
          /\ NoSearchMade

-----------------------------------------------------------------------------
(* The script has been loaded and the page is shown.                       *)
Init ==
    /\ delayed = TRUE
    /\ cur_chose = Bus /\ last_travel_way = Without
    /\ ticked = [g \in Groups |-> IF g = "way_tools" THEN 3 ELSE 0]
    /\ last_pol = [w \in Ways |-> 0]
    /\ turned = FALSE
    /\ searches = {} /\ overtaken = {}
    /\ asked = [w \in Ways |-> NoSearch] /\ shown = [w \in Ways |-> NoSearch]
    /\ taxi = 0 /\ taxi_type = 0 /\ taxi_f = "none"

DelayedClick ==
    /\ delayed /\ delayed' = FALSE
    /\ way_click(Bus, FALSE)
    /\ UNCHANGED <<ticked, last_pol, turned, taxi_f>>

WayClick(w) ==
    /\ way_click(w, FALSE)
    /\ UNCHANGED <<delayed, ticked, last_pol, turned, taxi_f>>

MutSharedLastPol(g, v) ==
    /\ WayOf(g) = cur_chose /\ v # ticked[g]
    /\ ticked' = [ticked EXCEPT ![g] = v]
    /\ \/ v # last_pol[Bus] /\ Search(cur_chose, ticked', turned, FALSE)
       \/ v = last_pol[Bus] /\ NoSearchMade
    /\ last_pol' = [last_pol EXCEPT ![Bus] = v]
    /\ UNCHANGED <<delayed, cur_chose, last_travel_way, turned, taxi_f>>

(* Only the groups of the way shown are visible.                           *)
OptionChange(g, v) ==
    /\ WayOf(g) = cur_chose /\ v # ticked[g]
    /\ ticked' = [ticked EXCEPT ![g] = v]
    /\ \/ v # last_pol[cur_chose] /\ Search(cur_chose, ticked', turned, FALSE)
       \/ v = last_pol[cur_chose] /\ NoSearchMade
    /\ last_pol' = [last_pol EXCEPT ![cur_chose] = v]
    /\ UNCHANGED <<delayed, cur_chose, last_travel_way, turned, taxi_f>>

(* The return trip.                                                        *)
change_point ==
    /\ turned' = ~turned
    /\ Search(cur_chose, ticked, turned', TRUE)
    /\ last_travel_way' = cur_chose
    /\ UNCHANGED <<delayed, cur_chose, ticked, last_pol, taxi_f>>

re_search ==
    /\ way_click(Bus, TRUE)
    /\ UNCHANGED <<delayed, ticked, last_pol, turned, taxi_f>>

-----------------------------------------------------------------------------
(* Answers.                                                                *)

(* Plans, or the notice that there are none, are rendered into the panel   *)
(* of the way, whichever of its searches is answered.                      *)
transit_callback(w, goal) ==
    /\ <<w, goal>> \in searches
    /\ searches' = searches \ {<<w, goal>>}
    /\ shown' = [shown EXCEPT ![w] = goal]
    /\ overtaken' = IF goal = asked[w] THEN overtaken \ {w}
                    ELSE IF <<w, asked[w]>> \in searches THEN overtaken
                    ELSE overtaken \cup {w}
    /\ UNCHANGED <<delayed, choice, asked, fare>>

(* Without a result the fare is the empty one of the beginning, taxi_bak.  *)
render_drv_ret ==
    /\ taxi > 0 /\ taxi' = taxi - 1
    /\ taxi_f' \in {"none", "shortest distance"}
    /\ UNCHANGED <<delayed, choice, plans, taxi_type>>

Next ==
    \/ DelayedClick
    \/ \E w \in Clicked : WayClick(w)
    \/ \E g \in Groups : \E v \in Options(g) : OptionChange(g, v)
    \/ change_point \/ re_search
    \/ \E s \in searches : transit_callback(s[1], s[2])
    \/ render_drv_ret

Spec == Init /\ [][Next]_vars

(* The browser's timer fires.                                              *)
FairSpec == Spec /\ WF_vars(DelayedClick)

-----------------------------------------------------------------------------
(* The variables keep their shapes.                                        *)
TypeOK ==
    /\ delayed \in BOOLEAN /\ turned \in BOOLEAN
    /\ cur_chose \in Ways /\ last_travel_way \in {Without, cur_chose}
    /\ ticked \in [Groups -> 0 .. 4] /\ last_pol \in [Ways -> 0 .. 4]
    /\ \A s \in searches : s[1] \in Ways
    /\ DOMAIN shown = Ways /\ DOMAIN asked = Ways /\ overtaken \subseteq Ways
    /\ taxi \in 0 .. MaxPending /\ taxi_type \in DrvWays
    /\ taxi_f \in {"none", "shortest distance"}

(* The panel of the way chosen shows plans for the journey as it is turned *)
(* now, by the options ticked now, or they are still to come: no sequence  *)
(* of clicks and changes is taken for a repetition, and no panel is taken  *)
(* for current that was filled before the way was left.  Only the answer   *)
(* to an earlier search that comes after that to the last one shows others.*)
PlansOfOptions ==
    LET due == Goal(cur_chose, ticked, turned)
    IN cur_chose \notin overtaken =>
           \/ shown[cur_chose] \in {NoSearch, due}
           \/ <<cur_chose, due>> \in searches

(* Plans by bus are searched without the passenger doing anything.         *)
BusSearched == <>(asked[Bus] # NoSearch)
=============================================================================
