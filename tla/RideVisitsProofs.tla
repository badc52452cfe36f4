-------------------------- MODULE RideVisitsProofs --------------------------
(***************************************************************************)
(* Whatever the passenger and the map service do, visit after visit: the   *)
(* journey shown is the one committed, and its labels are its own.  For    *)
(* every set of texts and positions and every number of late stations.     *)
(***************************************************************************)
EXTENDS RideVisits, TLAPS

(* Only the start of a journey may be a position.                          *)
Given == {given \in [Ends -> Texts \cup Positions] : given["end"] \in Texts}

(* The globals of the plan page are those of the visit: from the commit on *)
(* both ends are given, and the page's script read them.                   *)
EndsGiven ==
    /\ page # "form" => ride_param \in Given
    /\ bak["end"] # NoText => ride_param \in Given /\ bak \in Given
    /\ Here => bak = ride_param

(* What a page shows goes when it is left.                                 *)
NothingLeft ==
    /\ ~ Here => \A e \in Ends : list[e] = NoText
    /\ page # "plan" =>
         /\ ~ turned /\ ~ foreign /\ geocodes = {}
         /\ \A e \in Ends : label[e] = Nowhere

(* Unless a visit is hasty, no station can come for other ends than those  *)
(* it shows: once the journey is turned round none comes at all.           *)
NothingStale ==
    Here /\ ~ hasty =>
        /\ turned => local = {} /\ reselect_point_flag
        /\ \A l \in local : l.own /\ l.of = bak[l.end]

(* The end, as committed, that is shown as e.                              *)
Committed(t, e) == IF t THEN Other(e) ELSE e

(* Unless labels may be written for other ends: the addresses asked for,   *)
(* and the one at hand, are those of the ends as committed.                *)
AskedForEnds ==
    page = "plan" /\ ~ foreign /\ ~ hasty =>
        /\ pos_str \in {Nowhere, ride_param["start"]}
        /\ \A g \in geocodes : g.of = ride_param[Committed(turned, g.end)]

IInv ==
    /\ TypeOK /\ EndsGiven /\ NothingLeft /\ NothingStale /\ AskedForEnds
    /\ JourneyShown /\ LabelOfPosition

-----------------------------------------------------------------------------
LEMMA EndsFacts ==
    /\ Ends = {"start", "end"}
    /\ \A e \in Ends : Other(e) \in Ends /\ Other(e) # e /\ Other(Other(e)) = e
BY DEF Ends, Other

(* Of the searches of a page left, those that come are no page's own.      *)
LEMMA LateRequests ==
    ASSUME NEW R, NEW L \in Late(R)
    PROVE  \A l \in L : \E r \in R : l = [r EXCEPT !.own = FALSE]
BY DEF Late, kSubset

(* What is looked up is what was typed for the ends as given.              *)
LEMMA LookUpsOfEnds ==
    ASSUME bak \in Given, NEW flag \in BOOLEAN
    PROVE  /\ LookUps(flag) \subseteq [end : Ends, of : Texts, own : BOOLEAN]
           /\ \A l \in LookUps(flag) : l.own = Here /\ l.of = bak[l.end]
           /\ flag => LookUps(flag) = {}
<1> DEFINE typed == Ends \ Located(bak)
           request(e) == [end |-> e, of |-> bak[e], own |-> Here]
<1>1. \A e \in typed : bak[e] \in Texts
  BY DEF Given, Located
<1>2. Here \in BOOLEAN
  BY DEF Here
<1>3. \A e \in typed : /\ request(e) \in [end : Ends, of : Texts, own : BOOLEAN]
                       /\ request(e).own = Here /\ request(e).of = bak[request(e).end]
  BY <1>1, <1>2
<1>4. \A l \in LookUps(flag) : ~ flag /\ \E e \in typed : l = request(e)
  BY DEF LookUps
<1> QED
  BY <1>3, <1>4

(* Labels keep their shape, and an address is asked for at a located end.  *)
LEMMA LabelsOfEnds ==
    ASSUME TypeOK, NEW pt \in [Ends -> Points], NEW address \in Positions \cup {Nowhere},
           init_point_info(pt, address)
    PROVE  /\ label' \in [Ends -> Positions \cup {Nowhere}]
           /\ geocodes' \subseteq [end : Ends, of : Positions]
<1> DEFINE unknown == IF address = Nowhere THEN Located(pt) ELSE {}
<1>1. /\ label' = [e \in Ends |-> IF e \in unknown THEN label[e]
                                  ELSE IF e \in Located(pt) THEN address ELSE Nowhere]
      /\ geocodes' = geocodes \cup {[end |-> e, of |-> pt[e]] : e \in unknown}
  BY DEF init_point_info
<1>2. unknown \subseteq Ends /\ \A e \in unknown : pt[e] \in Positions
  BY DEF Located
<1> QED
  BY <1>1, <1>2 DEF TypeOK

LEMMA InitIInv ==
    ASSUME Init
    PROVE  IInv
BY EndsFacts DEF Init, IInv, TypeOK, EndsGiven, NothingLeft, NothingStale, AskedForEnds,
     JourneyShown, LabelOfPosition, Here, Points

-----------------------------------------------------------------------------
(* The type invariant keeps itself, but for what is looked up.             *)
LEMMA TypeStep ==
    ASSUME IInv, [Next]_vars
    PROVE  TypeOK'
<1> USE DEF IInv, Points
<1>1. ASSUME NEW start \in Texts \cup {NoText}, NEW end \in Texts, bus_commit(start, end)
      PROVE  TypeOK'
  BY <1>1 DEF TypeOK, bus_commit, locating, ends, lists, labels, history
<1>2. ASSUME NEW p \in Positions, PositionAnswer(p) \/ AddressAnswer(p)
      PROVE  TypeOK'
  BY <1>2 DEF TypeOK, PositionAnswer, AddressAnswer, locating, ends, lists, labels, history
<1>3. CASE Load
  BY <1>3 DEF TypeOK, Load, locating, labels
<1>4. CASE Show
  <2>1. bak \in Given
    BY <1>4 DEF Show, EndsGiven, Here, TypeOK
  <2>2. LookUps(FALSE) \subseteq [end : Ends, of : Texts, own : BOOLEAN]
    BY <2>1, LookUpsOfEnds
  <2>3. /\ label' \in [Ends -> Positions \cup {Nowhere}]
        /\ geocodes' \subseteq [end : Ends, of : Positions]
    BY <1>4, LabelsOfEnds DEF Show, AddressReset, TypeOK
  <2> QED
    BY <1>4, <2>2, <2>3 DEF TypeOK, Show, AddressReset, locating, ends, history
<1>5. CASE transit_callback
  <2>1. LookUps(reselect_point_flag) \subseteq [end : Ends, of : Texts, own : BOOLEAN]
    BY <1>5, LookUpsOfEnds DEF transit_callback, EndsGiven, TypeOK
  <2> QED
    BY <1>5, <2>1 DEF TypeOK, transit_callback, locating, ends, labels, history
<1>6. CASE change_point
  <2>1. point' \in [Ends -> Points]
    BY <1>6, EndsFacts DEF change_point, TypeOK
  <2>2. /\ label' \in [Ends -> Positions \cup {Nowhere}]
        /\ geocodes' \subseteq [end : Ends, of : Positions]
    BY <1>6, <2>1, LabelsOfEnds DEF change_point, TypeOK
  <2> QED
    BY <1>6, <2>1, <2>2 DEF TypeOK, change_point, locating, lists
<1>7. CASE re_search
  <2>1. /\ label' \in [Ends -> Positions \cup {Nowhere}]
        /\ geocodes' \subseteq [end : Ends, of : Positions]
    BY <1>7, LabelsOfEnds DEF re_search, TypeOK
  <2> QED
    BY <1>7, <2>1 DEF TypeOK, re_search, locating, ends, lists, history
<1>8. ASSUME NEW e \in Ends, StationClick(e)
      PROVE  TypeOK'
  BY <1>8 DEF TypeOK, StationClick, locating, lists, labels
<1>9. ASSUME NEW l \in local, onResultsHtmlSet(l)
      PROVE  TypeOK'
  <2>1. /\ l.end \in Ends /\ l.of \in Texts
        /\ local' \subseteq local
    BY <1>9 DEF TypeOK, onResultsHtmlSet
  <2>2. /\ list' \in [Ends -> Texts \cup {NoText}] /\ point' \in [Ends -> Points]
        /\ reselect_point_flag' \in BOOLEAN
    <3>1. /\ list \in [Ends -> Texts \cup {NoText}] /\ point \in [Ends -> Points]
          /\ reselect_point_flag \in BOOLEAN
      BY DEF TypeOK
    <3>2. CASE UNCHANGED <<list, point, reselect_point_flag>>
      BY <3>1, <3>2
    <3>3. CASE ~ UNCHANGED <<list, point, reselect_point_flag>>
      <4>1. /\ list' = [list EXCEPT ![l.end] = l.of] \/ list' = list
            /\ point' = [point EXCEPT ![l.end] = list'[l.end]]
            /\ reselect_point_flag' = TRUE
        BY <1>9, <3>3 DEF onResultsHtmlSet
      <4>2. list' \in [Ends -> Texts \cup {NoText}]
        BY <4>1, <3>1, <2>1
      <4> QED
        BY <4>1, <4>2, <3>1, <2>1
    <3> QED
      BY <3>2, <3>3
  <2>3. /\ last_validate_loc' = last_validate_loc /\ addresses' = addresses
        /\ pos_str' = pos_str /\ ride_param' = ride_param /\ page' = page /\ bak' = bak
        /\ label' = label /\ geocodes' = geocodes
        /\ turned' = turned /\ foreign' = foreign /\ hasty' = hasty
    BY <1>9 DEF onResultsHtmlSet, locating, labels, history
  <2> QED
    BY <2>1, <2>2, <2>3 DEF TypeOK
<1>10. ASSUME NEW g \in geocodes, AddressFound(g)
       PROVE  TypeOK'
  BY <1>10 DEF TypeOK, AddressFound, locating, ends, lists, history
<1>11. CASE Back
  <2>1. local' \subseteq [end : Ends, of : Texts, own : BOOLEAN]
    <3>1. local' \in Late(local)
      BY <1>11 DEF Back
    <3>2. \A l \in local' : \E r \in local : l = [r EXCEPT !.own = FALSE]
      BY <3>1, LateRequests
    <3>3. \A r \in local : [r EXCEPT !.own = FALSE] \in [end : Ends, of : Texts, own : BOOLEAN]
      BY DEF TypeOK
    <3> QED
      BY <3>2, <3>3
  <2>2. addresses' \subseteq Positions
    BY <1>11 DEF Back, TypeOK
  <2> QED
    BY <1>11, <2>1, <2>2 DEF TypeOK, Back, ends
<1>12. CASE Forward
  BY <1>12 DEF TypeOK, Forward, locating, ends, lists, labels, history
<1>13. CASE UNCHANGED vars
  BY <1>13 DEF TypeOK, vars, locating, ends, lists, labels, history
<1> QED
  BY <1>1, <1>2, <1>3, <1>4, <1>5, <1>6, <1>7, <1>8, <1>9, <1>10, <1>11, <1>12, <1>13
     DEF Next
-----------------------------------------------------------------------------
(* Ends are handed over only by a commit, and taken over only by a page's  *)
(* script; a page that is left takes its lists and its labels with it.     *)
LEMMA EndsStep ==
    ASSUME IInv, [Next]_vars
    PROVE  EndsGiven' /\ NothingLeft'
<1> USE DEF IInv, EndsGiven, NothingLeft, Here
<1>1. ASSUME NEW start \in Texts \cup {NoText}, NEW end \in Texts, bus_commit(start, end)
      PROVE  EndsGiven' /\ NothingLeft'
  <2>1. ride_param' \in Given
    <3>1. /\ ride_param' = [e \in Ends |-> IF e = "end" THEN end
                                           ELSE IF start = NoText THEN last_validate_loc
                                           ELSE start]
          /\ start = NoText => last_validate_loc \in Positions
      BY <1>1 DEF bus_commit, TypeOK
    <3>2. ride_param' \in [Ends -> Texts \cup Positions]
      BY <3>1
    <3>3. ride_param'["end"] = end
      BY <3>1 DEF Ends
    <3> QED
      BY <3>2, <3>3 DEF Given
  <2> QED
    BY <1>1, <2>1 DEF bus_commit, ends, lists, labels, history
<1>2. ASSUME NEW p \in Positions, PositionAnswer(p) \/ AddressAnswer(p)
      PROVE  EndsGiven' /\ NothingLeft'
  <2>1. CASE PositionAnswer(p)
    BY <2>1 DEF PositionAnswer, ends, lists, labels, history
  <2>2. CASE AddressAnswer(p)
    <3>1. /\ UNCHANGED <<ride_param, page, bak, list, turned, label, geocodes>>
          /\ page # "plan" => foreign' = foreign
      BY <2>2 DEF AddressAnswer, ends, lists, labels, TypeOK
    <3> QED
      BY <3>1
  <2> QED
    BY <1>2, <2>1, <2>2
<1>3. CASE Load
  BY <1>3 DEF Load, labels
<1>4. CASE Show
  BY <1>4 DEF Show, ends, history
<1>5. CASE transit_callback
  BY <1>5 DEF transit_callback, ends, labels, history
<1>6. CASE change_point
  BY <1>6 DEF change_point, lists
<1>7. CASE re_search
  BY <1>7 DEF re_search, ends, lists
<1>8. ASSUME NEW e \in Ends, StationClick(e)
      PROVE  EndsGiven' /\ NothingLeft'
  BY <1>8 DEF StationClick, lists, labels
<1>9. ASSUME NEW l \in local, onResultsHtmlSet(l)
      PROVE  EndsGiven' /\ NothingLeft'
  BY <1>9 DEF onResultsHtmlSet, labels, history
<1>10. ASSUME NEW g \in geocodes, AddressFound(g)
       PROVE  EndsGiven' /\ NothingLeft'
  BY <1>10 DEF AddressFound, ends, lists, history
<1>11. CASE Back
  BY <1>11 DEF Back, ends
<1>12. CASE Forward
  BY <1>12 DEF Forward, ends, lists, labels, history
<1>13. CASE UNCHANGED vars
  BY <1>13 DEF vars, ends, lists, labels, history
<1> QED
  BY <1>1, <1>2, <1>3, <1>4, <1>5, <1>6, <1>7, <1>8, <1>9, <1>10, <1>11, <1>12, <1>13
     DEF Next

(* A step of other things leaves the journey and its searches alone.       *)
LEMMA JourneyKept ==
    ASSUME NothingStale, JourneyShown,
           UNCHANGED <<reselect_point_flag, local, list, point, bak, ride_param, turned, hasty>>,
           Here' => Here
    PROVE  NothingStale' /\ JourneyShown'
BY DEF NothingStale, JourneyShown

(* While a journey is not hasty, stations found are those of its own ends, *)
(* and the point taken is the station listed.                              *)
LEMMA JourneyStep ==
    ASSUME IInv, [Next]_vars
    PROVE  NothingStale' /\ JourneyShown'
<1> USE DEF IInv
<1>1. ASSUME NEW start \in Texts \cup {NoText}, NEW end \in Texts, bus_commit(start, end)
      PROVE  NothingStale' /\ JourneyShown'
  BY <1>1 DEF bus_commit, NothingStale, JourneyShown, Here
<1>2. ASSUME NEW p \in Positions, PositionAnswer(p) \/ AddressAnswer(p)
      PROVE  NothingStale' /\ JourneyShown'
  BY <1>2, JourneyKept DEF PositionAnswer, AddressAnswer, ends, lists, history, Here
<1>3. CASE Load
  BY <1>3 DEF Load, NothingStale, JourneyShown, NothingLeft, Here
<1>4. CASE Show
  <2>1. /\ ~ turned /\ Here' /\ Here /\ ~ turned'
        /\ UNCHANGED <<ride_param, point, bak, list, hasty>>
        /\ local' = local \cup LookUps(FALSE)
    BY <1>4 DEF Show, NothingLeft, Here, ends, history
  <2>2. \A l \in LookUps(FALSE) : l.own /\ l.of = bak[l.end]
    <3>1. bak \in Given
      BY <1>4 DEF Show, EndsGiven, Here
    <3> QED
      BY <3>1, <2>1, LookUpsOfEnds
  <2> QED
    BY <2>1, <2>2 DEF NothingStale, JourneyShown
<1>5. CASE transit_callback
  <2>1. /\ UNCHANGED <<ride_param, point, bak, list, hasty, turned, reselect_point_flag, page>>
        /\ local' = local \cup LookUps(reselect_point_flag)
    BY <1>5 DEF transit_callback, ends, history
  <2>2. /\ \A l \in LookUps(reselect_point_flag) : l.own = Here /\ l.of = bak[l.end]
        /\ reselect_point_flag => LookUps(reselect_point_flag) = {}
    BY <1>5, LookUpsOfEnds DEF transit_callback, EndsGiven, TypeOK
  <2> QED
    BY <2>1, <2>2 DEF NothingStale, JourneyShown, Here
<1>6. CASE change_point
  <2>1. /\ UNCHANGED <<ride_param, bak, list, local, reselect_point_flag>>
        /\ turned' = ~ turned /\ Here /\ Here'
        /\ ~ hasty' => ~ hasty /\ local = {} /\ reselect_point_flag
        /\ \A e \in Ends : point'[e] = point[Other(e)]
    BY <1>6, EndsFacts DEF change_point, lists, Here
  <2>2. turned \in BOOLEAN
    BY DEF TypeOK
  <2>3. JourneyShown'
    <3> SUFFICES ASSUME ~ hasty', NEW e \in Ends
                 PROVE  /\ point'[IF turned' THEN Other(e) ELSE e] = ride_param[e]
                        /\ list[e] \in {NoText, ride_param[e]}
      BY <2>1 DEF JourneyShown
    <3>1. /\ point[IF turned THEN Other(e) ELSE e] = ride_param[e]
          /\ list[e] \in {NoText, ride_param[e]}
      BY <2>1 DEF JourneyShown
    <3>2. CASE turned
      BY <2>1, <3>1, <3>2
    <3>3. CASE ~ turned
      BY <2>1, <3>1, <3>3, EndsFacts
    <3> QED
      BY <3>2, <3>3
  <2> QED
    BY <2>1, <2>3 DEF NothingStale
<1>7. CASE re_search
  BY <1>7, JourneyKept DEF re_search, ends, lists, history, Here
<1>8. ASSUME NEW e \in Ends, StationClick(e)
      PROVE  NothingStale' /\ JourneyShown'
  <2>1. /\ UNCHANGED <<ride_param, bak, list, local, reselect_point_flag, turned>>
        /\ Here /\ list[e] # NoText
        /\ ~ hasty' => ~ hasty /\ ~ turned
        /\ point' = [point EXCEPT ![e] = list[e]]
    BY <1>8 DEF StationClick, lists, Here
  <2>2. point \in [Ends -> Points]
    BY DEF TypeOK
  <2> QED
    BY <2>1, <2>2 DEF NothingStale, JourneyShown, Here
<1>9. ASSUME NEW l \in local, onResultsHtmlSet(l)
      PROVE  NothingStale' /\ JourneyShown'
  <2>1. /\ UNCHANGED <<ride_param, bak, turned, hasty, page>>
        /\ local' \subseteq local
    BY <1>9 DEF onResultsHtmlSet, history
  <2>2. CASE UNCHANGED <<list, point, reselect_point_flag>>
    BY <2>1, <2>2 DEF NothingStale, JourneyShown, Here
  <2>3. CASE ~ UNCHANGED <<list, point, reselect_point_flag>>
    <3>1. /\ Here
          /\ \/ list' = [list EXCEPT ![l.end] = l.of]
             \/ ~ l.own /\ list' = list
          /\ point' = [point EXCEPT ![l.end] = list'[l.end]]
          /\ reselect_point_flag' = TRUE
      BY <1>9, <2>3 DEF onResultsHtmlSet
    <3>2. CASE hasty
      BY <2>1, <3>2 DEF NothingStale, JourneyShown
    <3>3. CASE ~ hasty
      <4>1. l.own /\ l.of = bak[l.end] /\ ~ turned /\ bak = ride_param
        BY <3>1, <3>3 DEF NothingStale, EndsGiven
      <4>2. /\ point \in [Ends -> Points] /\ list \in [Ends -> Texts \cup {NoText}]
            /\ l.end \in Ends
        BY DEF TypeOK
      <4>3. list' = [list EXCEPT ![l.end] = ride_param[l.end]]
        BY <3>1, <4>1
      <4>4. point' = [point EXCEPT ![l.end] = ride_param[l.end]]
        BY <3>1, <4>2, <4>3
      <4> QED
        BY <2>1, <3>1, <3>3, <4>1, <4>2, <4>3, <4>4 DEF NothingStale, JourneyShown, Here
    <3> QED
      BY <3>2, <3>3
  <2> QED
    BY <2>2, <2>3
<1>10. ASSUME NEW g \in geocodes, AddressFound(g)
       PROVE  NothingStale' /\ JourneyShown'
  BY <1>10, JourneyKept DEF AddressFound, ends, lists, history, Here
<1>11. CASE Back
  BY <1>11 DEF Back, NothingStale, JourneyShown, Here
<1>12. CASE Forward
  BY <1>12 DEF Forward, NothingStale, JourneyShown, Here
<1>13. CASE UNCHANGED vars
  BY <1>13, JourneyKept DEF vars, ends, lists, history, Here
<1> QED
  BY <1>1, <1>2, <1>3, <1>4, <1>5, <1>6, <1>7, <1>8, <1>9, <1>10, <1>11, <1>12, <1>13
     DEF Next
-----------------------------------------------------------------------------
LEMMA LabelsKept ==
    ASSUME AskedForEnds, LabelOfPosition,
           UNCHANGED <<ride_param, page, pos_str, turned, foreign, label, geocodes>>,
           hasty => hasty'
    PROVE  AskedForEnds' /\ LabelOfPosition'
BY DEF AskedForEnds, LabelOfPosition

LEMMA CommittedFacts ==
    ASSUME NEW t \in BOOLEAN, NEW e \in Ends
    PROVE  /\ Committed(t, e) \in Ends /\ Committed(t, Committed(t, e)) = e
           /\ Committed(~ t, e) = Other(Committed(t, e))
BY EndsFacts DEF Committed

(* What LabelOfPosition says, by the label.                                *)
LabelShown ==
    page = "plan" /\ ~ foreign /\ ~ hasty => \A e \in Ends :
        label[e] \in {Nowhere, ride_param[Committed(turned, e)]}

LEMMA ByLabel ==
    /\ turned \in BOOLEAN => (LabelOfPosition <=> LabelShown)
    /\ turned' \in BOOLEAN => (LabelOfPosition' <=> LabelShown')
  BY EndsFacts DEF LabelOfPosition, LabelShown, Committed

(* The labels written anew, which showed addresses of the journey's ends:  *)
(* they still do, and so do those asked for.  A label that turns from a    *)
(* typed end to a located one showed none.                                 *)
LEMMA LabelsWritten ==
    ASSUME TypeOK, ride_param \in Given, NEW t \in BOOLEAN, NEW u \in BOOLEAN, NEW pt,
           NEW address \in {Nowhere, ride_param["start"]},
           \A e \in Ends : pt[e] = ride_param[Committed(t, e)],
           \A e \in Ends : label[e] \in {Nowhere, ride_param[Committed(u, e)]},
           init_point_info(pt, address)
    PROVE  /\ \A e \in Ends : label'[e] \in {Nowhere, ride_param[Committed(t, e)]}
           /\ \A g \in geocodes' : g \in geocodes \/ g.of = ride_param[Committed(t, g.end)]
<1> DEFINE unknown == IF address = Nowhere THEN Located(pt) ELSE {}
<1>1. /\ label' = [e \in Ends |-> IF e \in unknown THEN label[e]
                                  ELSE IF e \in Located(pt) THEN address ELSE Nowhere]
      /\ geocodes' = geocodes \cup {[end |-> e, of |-> pt[e]] : e \in unknown}
  BY DEF init_point_info
<1>2. \A e \in Located(pt) : e \in Ends /\ Committed(t, e) = "start"
  <2>1. ride_param["end"] \notin Positions
    BY RideVisitsAssumption DEF Given
  <2>2. ASSUME NEW e \in Located(pt)
        PROVE  e \in Ends /\ Committed(t, e) = "start"
    <3>1. e \in Ends /\ ride_param[Committed(t, e)] \in Positions
      BY DEF Located
    <3> QED
      BY <2>1, <3>1, CommittedFacts, EndsFacts
  <2> QED
    BY <2>2
<1>3. ASSUME NEW e \in Located(pt)
      PROVE  label[e] \in {Nowhere, ride_param[Committed(t, e)]}
  <2>1. e \in Ends /\ Committed(t, e) = "start"
    BY <1>2
  <2>2. CASE u = t
    BY <2>1, <2>2
  <2>3. CASE u # t
    <3>1. Committed(u, e) = "end"
      BY <2>1, <2>3, EndsFacts DEF Committed
    <3>2. ride_param["end"] \in Texts /\ label[e] \in Positions \cup {Nowhere}
      BY <2>1 DEF Given, TypeOK
    <3> QED
      BY <2>1, <3>1, <3>2, RideVisitsAssumption
  <2> QED
    BY <2>2, <2>3
<1>4. ASSUME NEW e \in Ends
      PROVE  label'[e] \in {Nowhere, ride_param[Committed(t, e)]}
  <2>1. CASE e \in unknown
    BY <1>1, <1>3, <2>1
  <2>2. CASE e \notin unknown /\ e \in Located(pt)
    BY <1>1, <1>2, <2>2
  <2>3. CASE e \notin Located(pt)
    BY <1>1, <2>3
  <2> QED
    BY <2>1, <2>2, <2>3
<1>5. \A g \in geocodes' : g \in geocodes \/ g.of = ride_param[Committed(t, g.end)]
  BY <1>1, <1>2
<1> QED
  BY <1>4, <1>5

(* The labels begin with the page, as reset_all has forgotten the address  *)
(* of the visit before; from then on only addresses of the page's own ends *)
(* are written to them.                                                    *)
LEMMA LabelStep ==
    ASSUME IInv, [Next]_vars
    PROVE  AskedForEnds' /\ LabelOfPosition'
<1> USE DEF IInv
<1>t. turned \in BOOLEAN /\ turned' \in BOOLEAN /\ LabelShown
  BY TypeStep, ByLabel DEF TypeOK
<1>p. page = "plan" \/ page = "loaded" => ride_param \in Given
  BY DEF EndsGiven
<1>1. ASSUME NEW start \in Texts \cup {NoText}, NEW end \in Texts, bus_commit(start, end)
      PROVE  AskedForEnds' /\ LabelOfPosition'
  BY <1>1 DEF bus_commit, AskedForEnds, LabelOfPosition
<1>2. ASSUME NEW p \in Positions, PositionAnswer(p) \/ AddressAnswer(p)
      PROVE  AskedForEnds' /\ LabelOfPosition'
  <2>1. CASE PositionAnswer(p)
    BY <2>1, LabelsKept DEF PositionAnswer, labels, history
  <2>2. CASE AddressAnswer(p)
    <3>1. /\ UNCHANGED <<ride_param, page, label, geocodes, turned, hasty>>
          /\ pos_str' = p
          /\ page = "plan" /\ ~ foreign' => ~ foreign /\ p = ride_param["start"]
      BY <2>2 DEF AddressAnswer, labels
    <3> QED
      BY <3>1 DEF AskedForEnds, LabelOfPosition
  <2> QED
    BY <1>2, <2>1, <2>2
<1>3. CASE Load
  BY <1>3 DEF Load, AskedForEnds, LabelOfPosition
<1>4. CASE Show
  <2>1. /\ page = "loaded" /\ ~ turned /\ geocodes = {} /\ \A e \in Ends : label[e] = Nowhere
        /\ UNCHANGED <<ride_param, hasty, turned, foreign>> /\ pos_str' = Nowhere
        /\ init_point_info(point, Nowhere)
    BY <1>4 DEF Show, AddressReset, NothingLeft, history
  <2>2. ASSUME ~ hasty
        PROVE  /\ \A e \in Ends : label'[e] \in {Nowhere, ride_param[Committed(turned, e)]}
               /\ \A g \in geocodes' : g.of = ride_param[Committed(turned, g.end)]
    <3>1. \A e \in Ends : point[e] = ride_param[Committed(turned, e)]
      BY <2>1, <2>2 DEF JourneyShown, Here, Committed
    <3> QED
      BY <1>t, <1>p, <2>1, <3>1, LabelsWritten
  <2>3. AskedForEnds' /\ LabelShown'
    BY <2>1, <2>2 DEF AskedForEnds, LabelShown
  <2> QED
    BY <1>t, <2>3, ByLabel
<1>5. CASE transit_callback
  BY <1>5, LabelsKept DEF transit_callback, labels, history
<1>6. CASE change_point
  <2>1. /\ page = "plan" /\ UNCHANGED <<ride_param, page, pos_str>>
        /\ turned' = ~ turned /\ init_point_info(point', pos_str)
        /\ \A e \in Ends : point'[e] = point[Other(e)]
        /\ ~ foreign' => ~ foreign /\ geocodes = {}
        /\ ~ hasty' => ~ hasty
    BY <1>6 DEF change_point
  <2>2. ASSUME ~ foreign', ~ hasty'
        PROVE  /\ \A e \in Ends : label'[e] \in {Nowhere, ride_param[Committed(turned', e)]}
               /\ \A g \in geocodes' : g.of = ride_param[Committed(turned', g.end)]
    <3>1. \A e \in Ends : point'[e] = ride_param[Committed(turned', e)]
      <4>1. \A e \in Ends : point[Committed(turned, e)] = ride_param[e]
        BY <2>1, <2>2 DEF JourneyShown, Here, Committed
      <4>2. \A e \in Ends : point'[e] = ride_param[Committed(~ turned, e)]
        BY <1>t, <2>1, <4>1, EndsFacts, CommittedFacts
      <4> QED
        BY <2>1, <4>2
    <3>2. \A e \in Ends : label[e] \in {Nowhere, ride_param[Committed(turned, e)]}
      BY <1>t, <2>1, <2>2 DEF LabelShown
    <3>3. pos_str \in {Nowhere, ride_param["start"]} /\ geocodes = {}
      BY <2>1, <2>2 DEF AskedForEnds
    <3>4. ride_param \in Given
      BY <1>p, <2>1
    <3>5. PICK pt : pt = point'
      OBVIOUS
    <3>6. PICK t \in BOOLEAN : t = turned'
      BY <1>t
    <3>7. init_point_info(pt, pos_str)
      BY <2>1, <3>5 DEF init_point_info
    <3>8. /\ \A e \in Ends : label'[e] \in {Nowhere, ride_param[Committed(t, e)]}
          /\ \A g \in geocodes' : g \in geocodes \/ g.of = ride_param[Committed(t, g.end)]
      BY <1>t, <3>1, <3>2, <3>3, <3>4, <3>5, <3>6, <3>7, LabelsWritten
    <3> QED
      BY <3>3, <3>6, <3>8
  <2>3. ASSUME ~ foreign', ~ hasty'
        PROVE  pos_str' \in {Nowhere, ride_param'["start"]}
    BY <2>1, <2>3 DEF AskedForEnds
  <2>4. AskedForEnds' /\ LabelShown'
    BY <2>1, <2>2, <2>3 DEF AskedForEnds, LabelShown
  <2> QED
    BY <1>t, <2>4, ByLabel
<1>7. CASE re_search
  <2>1. /\ page = "plan" /\ UNCHANGED <<ride_param, page, pos_str, turned, foreign, hasty>>
        /\ init_point_info(point, pos_str)
    BY <1>7 DEF re_search, history
  <2>2. ASSUME ~ foreign, ~ hasty
        PROVE  /\ \A e \in Ends : label'[e] \in {Nowhere, ride_param[Committed(turned, e)]}
               /\ \A g \in geocodes' : g.of = ride_param[Committed(turned, g.end)]
    <3>1. \A e \in Ends : point[e] = ride_param[Committed(turned, e)]
      <4>1. \A e \in Ends : point[Committed(turned, e)] = ride_param[e]
        BY <2>1, <2>2 DEF JourneyShown, Here, Committed
      <4> QED
        BY <1>t, <4>1, CommittedFacts
    <3>2. \A e \in Ends : label[e] \in {Nowhere, ride_param[Committed(turned, e)]}
      BY <1>t, <2>1, <2>2 DEF LabelShown
    <3>3. /\ pos_str \in {Nowhere, ride_param["start"]}
          /\ \A g \in geocodes : g.of = ride_param[Committed(turned, g.end)]
      BY <2>1, <2>2 DEF AskedForEnds
    <3> QED
      BY <1>t, <1>p, <2>1, <3>1, <3>2, <3>3, LabelsWritten
  <2>3. ASSUME ~ foreign, ~ hasty
        PROVE  pos_str \in {Nowhere, ride_param["start"]}
    BY <2>1, <2>3 DEF AskedForEnds
  <2>4. AskedForEnds' /\ LabelShown'
    BY <2>1, <2>2, <2>3 DEF AskedForEnds, LabelShown
  <2> QED
    BY <1>t, <2>4, ByLabel
<1>8. ASSUME NEW e \in Ends, StationClick(e)
      PROVE  AskedForEnds' /\ LabelOfPosition'
  BY <1>8, LabelsKept DEF StationClick, labels
<1>9. ASSUME NEW l \in local, onResultsHtmlSet(l)
      PROVE  AskedForEnds' /\ LabelOfPosition'
  BY <1>9, LabelsKept DEF onResultsHtmlSet, labels, history
<1>10. ASSUME NEW g \in geocodes, AddressFound(g)
       PROVE  AskedForEnds' /\ LabelOfPosition'
  <2>1. /\ UNCHANGED <<ride_param, page, turned, foreign, hasty>>
        /\ geocodes' \subseteq geocodes
        /\ \/ label' = label /\ pos_str' = pos_str
           \/ label' = [label EXCEPT ![g.end] = g.of] /\ pos_str' = g.of
    BY <1>10 DEF AddressFound, history
  <2>2. label \in [Ends -> Positions \cup {Nowhere}] /\ g.end \in Ends /\ g.of \in Positions
    BY DEF TypeOK
  <2>3. ASSUME page = "plan", ~ foreign, ~ hasty
        PROVE  /\ g.of = ride_param[Committed(turned, g.end)]
               /\ g.of = ride_param["start"]
    <3>1. g.of = ride_param[Committed(turned, g.end)]
      BY <2>3 DEF AskedForEnds
    <3>2. ride_param["end"] \notin Positions
      BY <1>p, <2>3, RideVisitsAssumption DEF Given
    <3> QED
      BY <1>t, <2>2, <3>1, <3>2, CommittedFacts, EndsFacts
  <2>4. ASSUME page = "plan", ~ foreign, ~ hasty
        PROVE  \A e \in Ends : label'[e] \in {Nowhere, ride_param[Committed(turned, e)]}
    <3>1. \A e \in Ends : label[e] \in {Nowhere, ride_param[Committed(turned, e)]}
      BY <1>t, <2>4 DEF LabelShown
    <3> QED
      BY <2>1, <2>2, <2>3, <2>4, <3>1
  <2>5. AskedForEnds'
    BY <2>1, <2>3 DEF AskedForEnds
  <2>6. LabelShown'
    BY <2>1, <2>4 DEF LabelShown
  <2> QED
    BY <1>t, <2>5, <2>6, ByLabel
<1>11. CASE Back
  BY <1>11 DEF Back, AskedForEnds, LabelOfPosition
<1>12. CASE Forward
  BY <1>12 DEF Forward, AskedForEnds, LabelOfPosition
<1>13. CASE UNCHANGED vars
  BY <1>13, LabelsKept DEF vars, labels, history
<1> QED
  BY <1>1, <1>2, <1>3, <1>4, <1>5, <1>6, <1>7, <1>8, <1>9, <1>10, <1>11, <1>12, <1>13
     DEF Next

-----------------------------------------------------------------------------
LEMMA Invariance == Spec => []IInv
<1>1. IInv /\ [Next]_vars => IInv'
  BY TypeStep, EndsStep, JourneyStep, LabelStep DEF IInv
<1> QED
  BY <1>1, InitIInv, PTL DEF Spec

(* The variables of both pages keep their shapes: only texts are looked    *)
(* up, only positions have their address asked for.                        *)
THEOREM TypeCorrect == Spec => []TypeOK
<1>1. IInv => TypeOK
  BY DEF IInv
<1> QED
  BY <1>1, Invariance, PTL

(* The plan page shows the journey committed last, turned round as often   *)
(* as was asked, with the stations of its ends: stations looked up for one *)
(* journey reach another only where hasty says that they may.              *)
THEOREM JourneyAlwaysShown == Spec => []JourneyShown
<1>1. IInv => JourneyShown
  BY DEF IInv
<1> QED
  BY <1>1, Invariance, PTL

(* However addresses are delayed, whatever was shown before, and however   *)
(* often the journey is turned round or searched again, an end shows the   *)
(* address of its own position or none - in a visit in which the form's    *)
(* locating did not name another position, and no address was under way    *)
(* when the journey was turned round.                                      *)
THEOREM LabelAlwaysOfPosition == Spec => []LabelOfPosition
<1>1. IInv => LabelOfPosition
  BY DEF IInv
<1> QED
  BY <1>1, Invariance, PTL
=============================================================================
