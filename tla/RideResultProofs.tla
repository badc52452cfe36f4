-------------------------- MODULE RideResultProofs --------------------------
(***************************************************************************)
(* The plans RideResult shows and the shapes of its variables, for every   *)
(* set of ticks, any number of searches under way and any order of answers.*)
(***************************************************************************)
EXTENDS RideResult, TLAPS

-----------------------------------------------------------------------------
(* The options.  The last change by way of a way shown is a tick of one of *)
(* its groups, and ticks of two groups differ: a change is never taken for *)
(* a repetition.                                                           *)
Ticks ==
    /\ DOMAIN ticked = Groups /\ ticked = [g \in Groups |-> ticked[g]]
    /\ ticked["bus_way"] \in 0 .. 2
    /\ ticked["way_tools"] \in {3, 4}
    /\ ticked["drv_way"] \in 0 .. 2

LastTicks ==
    /\ last_pol = [w \in Ways |-> last_pol[w]]
    /\ last_pol[Bus] \in {ticked["bus_way"], ticked["way_tools"]}
    /\ last_pol[Drv] = ticked["drv_way"]

(* The last search of the way chosen goes by what is ticked and how the    *)
(* journey is turned; of another way this is not so, and it is remembered  *)
(* by last_travel_way.                                                     *)
ChosenAsked ==
    /\ cur_chose \in Ways /\ last_travel_way \in {Without, cur_chose}
    /\ asked[cur_chose] \in {NoSearch, Goal(cur_chose, ticked, turned)}

(* A panel shows what the last search of its way found, or that is still   *)
(* to come, or it was overwritten.                                         *)
Panels ==
    /\ asked = [w \in Ways |-> asked[w]] /\ shown = [w \in Ways |-> shown[w]]
    /\ \A s \in searches : s[2] # NoSearch
    /\ \A w \in Ways \ overtaken :
           shown[w] \in {NoSearch, asked[w]} \/ <<w, asked[w]>> \in searches

PlansInv == Ticks /\ LastTicks /\ ChosenAsked /\ Panels

LEMMA GoalIsSearch ==
    ASSUME NEW w, NEW t, NEW b
    PROVE  Goal(w, t, b) # NoSearch
  BY DEF Goal, NoSearch

LEMMA PanelOfChosen == PlansInv => PlansOfOptions
<1> SUFFICES ASSUME PlansInv, cur_chose \notin overtaken
             PROVE  \/ shown[cur_chose] \in {NoSearch, Goal(cur_chose, ticked, turned)}
                    \/ <<cur_chose, Goal(cur_chose, ticked, turned)>> \in searches
  BY DEF PlansOfOptions
<1>1. shown[cur_chose] \in {NoSearch, asked[cur_chose]}
      \/ <<cur_chose, asked[cur_chose]>> \in searches
  BY DEF PlansInv, ChosenAsked, Panels
<1>2. <<cur_chose, NoSearch>> \notin searches
  BY DEF PlansInv, Panels
<1> QED
  BY <1>1, <1>2 DEF PlansInv, ChosenAsked

LEMMA InitPlans == Init => PlansInv
<1> SUFFICES ASSUME Init PROVE PlansInv
  OBVIOUS
<1>1. /\ ticked["bus_way"] = 0 /\ ticked["way_tools"] = 3 /\ ticked["drv_way"] = 0
      /\ last_pol[Bus] = 0 /\ last_pol[Drv] = 0
      /\ DOMAIN ticked = Groups /\ ticked = [g \in Groups |-> ticked[g]]
  BY DEF Init, Groups, Ways
<1>2. Ticks /\ LastTicks
  BY <1>1 DEF Init, Ticks, LastTicks
<1>3. ChosenAsked
  BY DEF Init, ChosenAsked, Ways
<1>4. Panels
  BY DEF Init, Panels
<1> QED
  BY <1>2, <1>3, <1>4 DEF PlansInv

(* A search keeps the last one of every other way under way, if it was.    *)
LEMMA RebuildKeeps ==
    ASSUME Panels, NEW w \in Ways, NEW t, NEW b, Rebuild(w, t, b)
    PROVE  /\ Panels'
           /\ asked'[w] = Goal(w, t, b)
           /\ \A x \in Ways : x # w => asked'[x] = asked[x]
<1> DEFINE new == <<w, Goal(w, t, b)>>
           earlier == {s \in searches \cup {new} : s[2] # asked'[s[1]]}
<1>1. /\ asked' = [asked EXCEPT ![w] = Goal(w, t, b)]
      /\ overtaken' = overtaken \ {w} /\ shown' = shown
      /\ \E late \in SUBSET earlier :
             searches' = ((searches \cup {new}) \ earlier) \cup late
  BY DEF Rebuild, kSubset
<1>2. /\ asked'[w] = Goal(w, t, b)
      /\ \A x \in Ways : x # w => asked'[x] = asked[x]
      /\ asked' = [x \in Ways |-> asked'[x]]
  BY <1>1 DEF Panels
<1>3. /\ searches' \subseteq searches \cup {new}
      /\ \A s \in searches \cup {new} : s[2] = asked'[s[1]] => s \in searches'
  BY <1>1
<1>4. \A s \in searches' : s[2] # NoSearch
  BY <1>3, GoalIsSearch DEF Panels
<1>5. ASSUME NEW x \in Ways \ overtaken'
      PROVE  shown'[x] \in {NoSearch, asked'[x]} \/ <<x, asked'[x]>> \in searches'
  <2>1. CASE x = w
    <3>1. new \in searches \cup {new} /\ new[2] = asked'[new[1]]
      BY <1>2
    <3>2. new \in searches'
      BY <1>3, <3>1
    <3> QED
      BY <1>2, <2>1, <3>2
  <2>2. CASE x # w
    <3>1. asked'[x] = asked[x] /\ x \notin overtaken
      BY <1>1, <1>2, <1>5, <2>2
    <3>2. CASE <<x, asked[x]>> \in searches
      <4>1. <<x, asked[x]>>[2] = asked'[<<x, asked[x]>>[1]]
        BY <3>1
      <4>2. <<x, asked[x]>> \in searches'
        BY <1>3, <3>2, <4>1
      <4> QED
        BY <3>1, <4>2
    <3>3. CASE shown[x] \in {NoSearch, asked[x]}
      BY <1>1, <3>1, <3>3
    <3> QED
      BY <3>1, <3>2, <3>3 DEF Panels
  <2> QED
    BY <2>1, <2>2
<1> QED
  BY <1>1, <1>2, <1>4, <1>5 DEF Panels

LEMMA ClickKeeps ==
    ASSUME PlansInv, NEW w \in Ways, NEW r \in BOOLEAN, way_click(w, r),
           UNCHANGED <<ticked, last_pol, turned>>
    PROVE  PlansInv'
<1>1. Ticks' /\ LastTicks'
  BY DEF PlansInv, Ticks, LastTicks
<1>2. cur_chose' = w /\ last_travel_way' = w
  BY DEF way_click
<1>3. CASE Rebuild(w, ticked, turned)
  <2>1. Panels' /\ asked'[w] = Goal(w, ticked, turned)
    BY <1>3, RebuildKeeps DEF PlansInv
  <2>2. ChosenAsked'
    BY <1>2, <2>1 DEF ChosenAsked
  <2> QED
    BY <1>1, <2>1, <2>2 DEF PlansInv
<1>4. CASE w = last_travel_way /\ NoSearchMade
  <2>1. w = cur_chose
    BY <1>4 DEF PlansInv, ChosenAsked, Without, Ways, Bus, Drv, Walk
  <2>2. Panels' /\ asked' = asked
    BY <1>4 DEF NoSearchMade, plans, PlansInv, Panels
  <2>3. ChosenAsked'
    BY <1>2, <2>1, <2>2 DEF PlansInv, ChosenAsked
  <2> QED
    BY <1>1, <2>2, <2>3 DEF PlansInv
<1> QED
  BY <1>3, <1>4 DEF way_click, Search

LEMMA ChangeKeeps ==
    ASSUME PlansInv, NEW g \in Groups, NEW v \in Options(g), OptionChange(g, v)
    PROVE  PlansInv'
<1>1. /\ WayOf(g) = cur_chose /\ v # ticked[g]
      /\ ticked' = [ticked EXCEPT ![g] = v]
      /\ last_pol' = [last_pol EXCEPT ![cur_chose] = v]
      /\ UNCHANGED <<cur_chose, last_travel_way, turned>>
      /\ cur_chose \in Ways
  BY DEF OptionChange, PlansInv, ChosenAsked
<1>2. /\ g \in {"bus_way", "way_tools"} => cur_chose = Bus
      /\ g = "drv_way" => cur_chose = Drv
  BY <1>1 DEF WayOf, Groups
<1>3. /\ g = "bus_way" => v \in 0 .. 2
      /\ g = "way_tools" => v \in {3, 4}
      /\ g = "drv_way" => v \in 0 .. 2
  BY RideResultAssumption DEF Options
<1>4. ticked'[g] = v /\ \A h \in Groups : h # g => ticked'[h] = ticked[h]
  BY <1>1 DEF PlansInv, Ticks
<1>5. /\ last_pol'[cur_chose] = v
      /\ \A w \in Ways : w # cur_chose => last_pol'[w] = last_pol[w]
      /\ last_pol' = [w \in Ways |-> last_pol'[w]]
  BY <1>1 DEF PlansInv, LastTicks
<1>6. Ticks'
  BY <1>1, <1>3, <1>4 DEF PlansInv, Ticks, Groups
<1>7. LastTicks'
  BY <1>2, <1>4, <1>5 DEF PlansInv, LastTicks, Groups, Ways, Bus, Drv
<1>8. v # last_pol[cur_chose]
  BY <1>1, <1>2, <1>3 DEF PlansInv, Ticks, LastTicks, Groups, Bus, Drv
<1>9. Rebuild(cur_chose, ticked', turned)
  BY <1>8 DEF OptionChange, Search
<1>10. Panels' /\ asked'[cur_chose] = Goal(cur_chose, ticked', turned)
  BY <1>1, <1>9, RebuildKeeps DEF PlansInv
<1>11. ChosenAsked'
  BY <1>1, <1>10 DEF PlansInv, ChosenAsked
<1> QED
  BY <1>6, <1>7, <1>10, <1>11 DEF PlansInv

LEMMA AnswerKeeps ==
    ASSUME PlansInv, NEW s \in searches, transit_callback(s[1], s[2])
    PROVE  PlansInv'
<1> DEFINE w == s[1]
           goal == s[2]
<1>1. /\ searches' = searches \ {<<w, goal>>}
      /\ shown' = [shown EXCEPT ![w] = goal]
      /\ overtaken' = IF goal = asked[w] THEN overtaken \ {w}
                      ELSE IF <<w, asked[w]>> \in searches THEN overtaken
                      ELSE overtaken \cup {w}
      /\ UNCHANGED <<choice, asked>>
  BY DEF transit_callback
<1>2. Ticks' /\ LastTicks' /\ ChosenAsked'
  BY <1>1 DEF choice, PlansInv, Ticks, LastTicks, ChosenAsked
<1>3. /\ shown' = [x \in Ways |-> shown'[x]]
      /\ \A x \in Ways : shown'[x] = IF x = w THEN goal ELSE shown[x]
  BY <1>1 DEF PlansInv, Panels
<1>4. ASSUME NEW x \in Ways \ overtaken'
      PROVE  shown'[x] \in {NoSearch, asked[x]} \/ <<x, asked[x]>> \in searches'
  <2>1. CASE x # w
    <3>1. x \notin overtaken
      BY <1>1, <1>4, <2>1
    <3>2. <<x, asked[x]>> # <<w, goal>>
      BY <2>1
    <3> QED
      BY <1>1, <1>3, <2>1, <3>1, <3>2 DEF PlansInv, Panels
  <2>2. CASE x = w /\ goal = asked[w]
    BY <1>3, <2>2
  <2>3. CASE x = w /\ goal # asked[w]
    <3>1. <<w, asked[w]>> \in searches
      BY <1>1, <1>4, <2>3
    <3>2. <<w, asked[w]>> # <<w, goal>>
      BY <2>3
    <3> QED
      BY <1>1, <2>3, <3>1, <3>2
  <2> QED
    BY <2>1, <2>2, <2>3
<1>5. Panels'
  BY <1>1, <1>3, <1>4 DEF PlansInv, Panels
<1> QED
  BY <1>2, <1>5 DEF PlansInv

LEMMA NextPlans == PlansInv /\ [Next]_vars => PlansInv'
<1> SUFFICES ASSUME PlansInv, [Next]_vars PROVE PlansInv'
  OBVIOUS
<1>0. Bus \in Ways /\ Clicked \subseteq Ways
  BY RideResultAssumption DEF Ways, Bus, Drv, Walk
<1>1. CASE DelayedClick
  BY <1>0, <1>1, ClickKeeps DEF DelayedClick
<1>2. ASSUME NEW w \in Clicked, WayClick(w) PROVE PlansInv'
  BY <1>0, <1>2, ClickKeeps DEF WayClick
<1>3. ASSUME NEW g \in Groups, NEW v \in Options(g), OptionChange(g, v) PROVE PlansInv'
  BY <1>3, ChangeKeeps
<1>4. CASE change_point
  <2>1. /\ Rebuild(cur_chose, ticked, turned')
        /\ last_travel_way' = cur_chose
        /\ UNCHANGED <<cur_chose, ticked, last_pol>> /\ cur_chose \in Ways
    BY <1>4 DEF change_point, Search, PlansInv, ChosenAsked
  <2>2. Panels' /\ asked'[cur_chose] = Goal(cur_chose, ticked, turned')
    BY <2>1, RebuildKeeps DEF PlansInv
  <2>3. ChosenAsked' /\ Ticks' /\ LastTicks'
    BY <2>1, <2>2 DEF PlansInv, ChosenAsked, Ticks, LastTicks
  <2> QED
    BY <2>2, <2>3 DEF PlansInv
<1>5. CASE re_search
  BY <1>0, <1>5, ClickKeeps DEF re_search
<1>6. ASSUME NEW s \in searches, transit_callback(s[1], s[2]) PROVE PlansInv'
  BY <1>6, AnswerKeeps
<1>7. ASSUME UNCHANGED <<choice, plans>> PROVE PlansInv'
  BY <1>7 DEF choice, plans, PlansInv, Ticks, LastTicks, ChosenAsked, Panels
<1>8. CASE render_drv_ret
  BY <1>7, <1>8 DEF render_drv_ret
<1>9. CASE UNCHANGED vars
  BY <1>7, <1>9 DEF vars
<1> QED
  BY <1>1, <1>2, <1>3, <1>4, <1>5, <1>6, <1>8, <1>9 DEF Next

(* Whatever sequence of clicks, changes and answers: but for a panel an    *)
(* earlier search was the last to write into, the plans shown for the way  *)
(* chosen are of the options ticked and the journey as turned, or those    *)
(* are still to come.                                                      *)
THEOREM OptionsFollowed == Spec => []PlansOfOptions
  BY InitPlans, NextPlans, PanelOfChosen, PTL DEF Spec

-----------------------------------------------------------------------------
(* The shapes of the variables, by the parts of the page.                  *)
Pending == 0 .. MaxPending

TravelOK ==
    /\ cur_chose \in Ways /\ last_travel_way \in {Without, cur_chose}
    /\ ticked \in [Groups -> 0 .. 4] /\ ticked["drv_way"] \in DrvWays
    /\ last_pol \in [Ways -> 0 .. 4]
    /\ delayed \in BOOLEAN /\ turned \in BOOLEAN

SearchesOK ==
    /\ \A s \in searches : s[1] \in Ways
    /\ DOMAIN shown = Ways /\ DOMAIN asked = Ways /\ overtaken \subseteq Ways

FareOK ==
    /\ taxi \in Pending /\ taxi_type \in DrvWays
    /\ taxi_f \in {"none", "shortest distance"}

PageOK == TravelOK /\ SearchesOK /\ FareOK

LEMMA PageTyped == PageOK => TypeOK
  BY DEF PageOK, TypeOK, TravelOK, SearchesOK, FareOK, Pending

LEMMA MorePending ==
    /\ 0 \in Pending
    /\ \A n \in Pending : More(n) \in Pending
    /\ \A n \in Pending : n > 0 => n - 1 \in Pending
  BY RideResultAssumption DEF More, Pending

LEMMA InitPageOK == Init => PageOK
<1> SUFFICES ASSUME Init PROVE PageOK
  OBVIOUS
<1>1. TravelOK
  <2>0. 0 \in 0 .. 4 /\ 3 \in 0 .. 4
    OBVIOUS
  <2>a. /\ ticked = [g \in Groups |-> IF g = "way_tools" THEN 3 ELSE 0]
        /\ last_pol = [w \in Ways |-> 0]
    BY DEF Init
  <2>1. ticked \in [Groups -> 0 .. 4] /\ ticked["drv_way"] = 0
    BY <2>0, <2>a DEF Groups
  <2>2. last_pol \in [Ways -> 0 .. 4]
    BY <2>0, <2>a
  <2>3. cur_chose = Bus /\ last_travel_way = Without
    BY DEF Init
  <2>4. delayed \in BOOLEAN /\ turned \in BOOLEAN
    BY Zenon DEF Init
  <2> QED
    BY <2>1, <2>2, <2>3, <2>4, RideResultAssumption DEF TravelOK, Ways
<1>2. SearchesOK
  BY DEF Init, SearchesOK
<1>3. FareOK
  BY MorePending, RideResultAssumption DEF Init, FareOK
<1> QED
  BY <1>1, <1>2, <1>3 DEF PageOK

(* A search by a way, with the options as they are.                        *)
LEMMA SearchOK ==
    ASSUME SearchesOK, FareOK, NEW w \in Ways, NEW t, t["drv_way"] \in DrvWays,
           NEW back, NEW b \in BOOLEAN, Search(w, t, back, b), UNCHANGED taxi_f
    PROVE  SearchesOK' /\ FareOK'
<1>1. taxi' \in Pending
  BY MorePending DEF FareOK, Search
<1>2. taxi_type' \in DrvWays
  BY RideResultAssumption DEF FareOK, Search
<1>3. /\ asked' = [asked EXCEPT ![w] = Goal(w, t, back)]
      /\ searches' \subseteq searches \cup {<<w, Goal(w, t, back)>>}
      /\ overtaken' = overtaken \ {w} /\ shown' = shown
  BY DEF Search, Rebuild, kSubset
<1>4. SearchesOK'
  BY <1>3 DEF SearchesOK
<1>5. FareOK'
  BY Zenon, <1>1, <1>2 DEF FareOK
<1> QED
  BY <1>4, <1>5

LEMMA ClickOK ==
    ASSUME PageOK, NEW w \in Ways, NEW r \in BOOLEAN, way_click(w, r),
           UNCHANGED <<ticked, last_pol, turned, taxi_f>>, delayed' \in BOOLEAN
    PROVE  PageOK'
<1>1. cur_chose' = w /\ last_travel_way' = w
  BY DEF way_click
<1>2. SearchesOK' /\ FareOK'
  <2>1. CASE Search(w, ticked, turned, TRUE)
    BY <2>1, SearchOK DEF PageOK, TravelOK
  <2>2. CASE NoSearchMade
    BY <2>2 DEF NoSearchMade, plans, PageOK, SearchesOK, FareOK
  <2> QED
    BY <2>1, <2>2 DEF way_click
<1> QED
  BY <1>1, <1>2 DEF PageOK, TravelOK

LEMMA NextPageOK == PageOK /\ [Next]_vars => PageOK'
<1> SUFFICES ASSUME PageOK, [Next]_vars PROVE PageOK'
  OBVIOUS
<1>0. TravelOK /\ SearchesOK /\ FareOK
  BY DEF PageOK
<1>s. /\ UNCHANGED <<delayed, choice>> => TravelOK'
      /\ UNCHANGED plans => SearchesOK'
      /\ UNCHANGED fare => FareOK'
  BY <1>0 DEF choice, plans, fare, TravelOK, SearchesOK, FareOK
<1>b. /\ Bus \in Ways /\ Clicked \subseteq Ways
      /\ TRUE \in BOOLEAN /\ FALSE \in BOOLEAN
  BY RideResultAssumption DEF Ways, Bus, Drv, Walk
<1>1. CASE DelayedClick
  BY <1>1, <1>b, ClickOK DEF DelayedClick
<1>2. ASSUME NEW w \in Clicked, WayClick(w) PROVE PageOK'
  BY <1>0, <1>2, <1>b, ClickOK DEF WayClick, TravelOK
<1>3. ASSUME NEW g \in Groups, NEW v \in Options(g), OptionChange(g, v) PROVE PageOK'
  <2>1. /\ ticked' = [ticked EXCEPT ![g] = v]
        /\ last_pol' = [last_pol EXCEPT ![cur_chose] = v]
        /\ UNCHANGED <<cur_chose, last_travel_way, taxi_f, delayed, turned>>
    BY <1>3 DEF OptionChange
  <2>2. v \in 0 .. 4 /\ (g = "drv_way" => v \in DrvWays)
    BY RideResultAssumption DEF Options, Groups
  <2>3. ticked' \in [Groups -> 0 .. 4] /\ last_pol' \in [Ways -> 0 .. 4]
    BY <1>0, <2>1, <2>2 DEF TravelOK
  <2>4. ticked'["drv_way"] \in DrvWays
    BY <1>0, <2>1, <2>2 DEF TravelOK, Groups
  <2>5. SearchesOK' /\ FareOK'
    <3>1. CASE Search(cur_chose, ticked', turned, FALSE)
      BY <1>0, <1>b, <2>1, <2>4, <3>1, SearchOK DEF TravelOK
    <3>2. CASE NoSearchMade
      BY <1>0, <2>1, <3>2 DEF NoSearchMade, plans, SearchesOK, FareOK
    <3> QED
      BY <1>3, <3>1, <3>2 DEF OptionChange
  <2>6. TravelOK'
    BY <1>0, <2>1, <2>3, <2>4 DEF TravelOK
  <2> QED
    BY <2>5, <2>6 DEF PageOK
<1>4. CASE change_point
  <2>1. SearchesOK' /\ FareOK'
    BY <1>0, <1>4, <1>b, SearchOK DEF change_point, TravelOK
  <2>2. TravelOK'
    BY <1>0, <1>4 DEF change_point, TravelOK
  <2> QED
    BY <2>1, <2>2 DEF PageOK
<1>5. CASE re_search
  BY <1>0, <1>5, <1>b, ClickOK DEF re_search, TravelOK
<1>6. ASSUME NEW s \in searches, transit_callback(s[1], s[2]) PROVE PageOK'
  <2>1. s[1] \in Ways
    BY <1>0 DEF SearchesOK
  <2>2. /\ searches' \subseteq searches
        /\ shown' = [shown EXCEPT ![s[1]] = s[2]] /\ asked' = asked
        /\ overtaken' \subseteq overtaken \cup {s[1]}
        /\ UNCHANGED <<delayed, choice, fare>>
    BY <1>6 DEF transit_callback
  <2>3. SearchesOK'
    BY <1>0, <2>1, <2>2 DEF SearchesOK
  <2> QED
    BY <1>s, <2>2, <2>3 DEF PageOK
<1>7. CASE render_drv_ret
  <2>1. taxi - 1 \in Pending
    BY <1>0, <1>7, MorePending DEF render_drv_ret, FareOK
  <2>2. FareOK'
    BY <1>0, <1>7, <2>1 DEF render_drv_ret, FareOK
  <2> QED
    BY <1>7, <1>s, <2>2 DEF render_drv_ret, PageOK
<1>8. CASE UNCHANGED vars
  BY <1>8, <1>s DEF vars, PageOK
<1> QED
  BY <1>1, <1>2, <1>3, <1>4, <1>5, <1>6, <1>7, <1>8 DEF Next

(* The variables keep their shapes, for every set of ticks and any number  *)
(* of requests; the way remembered is none, or the one shown (way_click).  *)
THEOREM RideTyped == Spec => []TypeOK
  BY InitPageOK, NextPageOK, PageTyped, PTL DEF Spec
=============================================================================
