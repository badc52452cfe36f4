--------------------------- MODULE CurLineProofs ---------------------------
(***************************************************************************)
(* The announcements of CurLine, for lines of every length (names may      *)
(* repeat), any number of requests under way and any order of answers.     *)
(***************************************************************************)
EXTENDS CurLine, TLAPS

AllNames == Names \cup {NoName}

(* The two alert counters are the characteristic functions of the two      *)
(* lists of names already spoken.                                          *)
Ledger ==
    /\ arrivals = [n \in Names |-> IF n \in passed_sta THEN 1 ELSE 0]
    /\ approaches = [n \in AllNames |-> IF n \in inbound_sta THEN 1 ELSE 0]
    /\ \A s \in heard : s \in Indices /\ Line[s] \in passed_sta

Menu == dst_sta \in AllNames /\ dst_index \in Indices /\ ReminderOfMenu

CurLineInv == Ledger /\ Menu

LEMMA NamesOfLine == \A s \in Indices : Line[s] \in Names
  BY DEF Names

LEMMA InitCurLineInv == Init => CurLineInv
<1> SUFFICES ASSUME Init PROVE CurLineInv
  OBVIOUS
<1>1. Ledger
  BY DEF Init, Ledger, AllNames
<1>2. 0 \in Indices
  BY CurLineAssumption DEF Indices
<1>3. Menu
  BY <1>2 DEF Init, Menu, AllNames, ReminderOfMenu
<1> QED
  BY <1>1, <1>3 DEF CurLineInv

(* One more alert of a name not yet spoken, or none of one that was.       *)
LEMMA CountedNew ==
    ASSUME NEW S, NEW P, NEW n \in S,
           NEW counts, counts = [m \in S |-> IF m \in P THEN 1 ELSE 0]
    PROVE  (IF n \notin P THEN Counted(counts, n) ELSE counts)
             = [m \in S |-> IF m \in P \cup {n} THEN 1 ELSE 0]
<1>1. CASE n \in P
  BY <1>1
<1>2. CASE n \notin P
  <2>1. Counted(counts, n) = [counts EXCEPT ![n] = 1]
    BY <1>2 DEF Counted
  <2> QED
    BY <1>2, <2>1
<1> QED
  BY <1>1, <1>2

LEMMA CallbackKeeps ==
    ASSUME CurLineInv, translateCallback PROVE CurLineInv'
<1>1. PICK p \in Positions :
        /\ heard' = IF loaded /\ p[2] = "on" THEN heard \cup {p[1]} ELSE heard
        /\ \/ loaded /\ p[2] = "on" /\ Arrived(p[1])
           \/ loaded /\ p[2] = "near" /\ Line[p[1]] = remind_sta /\ Approached(p[1])
           \/ ~(loaded /\ p[2] = "on") /\ SaysNothing
  BY DEF translateCallback
<1>2. p[1] \in Indices /\ Line[p[1]] \in Names
  BY NamesOfLine DEF Positions
<1>3. Menu'
  BY DEF translateCallback, remindVars, lineVars, CurLineInv, Menu, ReminderOfMenu
<1>4. CASE loaded /\ p[2] = "on" /\ Arrived(p[1])
  <2>1. /\ passed_sta' = passed_sta \cup {Line[p[1]]}
        /\ arrivals' = IF Line[p[1]] \notin passed_sta
                       THEN Counted(arrivals, Line[p[1]]) ELSE arrivals
        /\ UNCHANGED <<inbound_sta, approaches>>
        /\ heard' = heard \cup {p[1]}
    BY <1>1, <1>4 DEF Arrived, PassedWith, NewArrival
  <2>2. arrivals' = [n \in Names |-> IF n \in passed_sta' THEN 1 ELSE 0]
    BY <1>2, <2>1, CountedNew DEF CurLineInv, Ledger
  <2> QED
    BY <1>2, <1>3, <2>1, <2>2 DEF CurLineInv, Ledger
<1>5. CASE loaded /\ p[2] = "near" /\ Line[p[1]] = remind_sta /\ Approached(p[1])
  <2>1. /\ inbound_sta' = inbound_sta \cup {dst_sta}
        /\ approaches' = IF dst_sta \notin inbound_sta
                         THEN Counted(approaches, dst_sta) ELSE approaches
        /\ UNCHANGED <<passed_sta, arrivals>>
        /\ heard' = heard
    BY <1>1, <1>5 DEF Approached
  <2>2. dst_sta \in AllNames
    BY DEF CurLineInv, Menu
  <2>3. approaches' = [n \in AllNames |-> IF n \in inbound_sta' THEN 1 ELSE 0]
    BY <2>1, <2>2, CountedNew DEF CurLineInv, Ledger
  <2> QED
    BY <1>3, <2>1, <2>3 DEF CurLineInv, Ledger
<1>6. CASE ~(loaded /\ p[2] = "on") /\ SaysNothing
  BY <1>1, <1>3, <1>6 DEF SaysNothing, CurLineInv, Ledger
<1> QED
  BY <1>1, <1>4, <1>5, <1>6

LEMMA NoPositionKeeps == CurLineInv /\ NoPosition => CurLineInv'
  BY DEF NoPosition, SaysNothing, CurLineInv, Ledger, Menu, ReminderOfMenu,
         remindVars, lineVars

(* Steps that leave the announcements and the panel alone.                 *)
LEMMA ApartKeeps ==
    ASSUME CurLineInv, UNCHANGED <<remindVars, toldVars>>, loaded => loaded'
    PROVE  CurLineInv'
  BY DEF CurLineInv, Ledger, Menu, ReminderOfMenu, remindVars, toldVars

LEMMA StepCurLineInv == CurLineInv /\ [Next]_vars => CurLineInv'
<1> SUFFICES ASSUME CurLineInv, [Next]_vars PROVE CurLineInv'
  OBVIOUS
<1>1. CASE AskAgain \/ CurLineAnswer \/ onGetBusListComplete \/ onBusListHtmlSet
           \/ onMarkersSet \/ LocateTick \/ LocateTypeChange \/ UNCHANGED vars
  <2>1. UNCHANGED <<remindVars, toldVars>> /\ (loaded => loaded')
    BY <1>1 DEF AskAgain, CurLineAnswer, onGetBusListComplete, onBusListHtmlSet,
                onMarkersSet, LocateTick, LocateTypeChange, vars, lineVars
  <2> QED
    BY <2>1, ApartKeeps
<1>2. CASE BrowserAnswer \/ RouterAnswer \/ ConvertAnswer
  BY <1>2, CallbackKeeps, NoPositionKeeps
     DEF BrowserAnswer, RouterAnswer, ConvertAnswer
<1>3. CASE RemindStatusChange
  <2>1. /\ UNCHANGED <<dst_sta, dst_index, loaded, toldVars>>
        /\ \/ remind_sta' = NoSta
           \/ /\ dst_remind_status = "off" /\ dst_remind_status' = "on"
              /\ remind_sta' = IF loaded THEN Line[dst_index] ELSE remind_sta
    BY <1>3 DEF RemindStatusChange, ReminderOff, lineVars
  <2>2. Ledger'
    BY <2>1 DEF CurLineInv, Ledger, toldVars
  <2>3. Menu'
    BY <2>1 DEF CurLineInv, Menu, ReminderOfMenu
  <2> QED
    BY <2>2, <2>3 DEF CurLineInv
<1>4. CASE StaRemindChange
  <2>1. /\ UNCHANGED <<dst_remind_status, loaded, toldVars>> /\ loaded
        /\ dst_remind_status = "on"
        /\ \E s \in Indices : dst_sta' = Line[s] /\ dst_index' = s /\ remind_sta' = Line[s]
    BY <1>4 DEF StaRemindChange, lineVars
  <2>2. Ledger'
    BY <2>1 DEF CurLineInv, Ledger, toldVars
  <2>3. Menu'
    BY <2>1, NamesOfLine DEF Menu, ReminderOfMenu, AllNames
  <2> QED
    BY <2>2, <2>3 DEF CurLineInv
<1> QED
  BY <1>1, <1>2, <1>3, <1>4 DEF Next

THEOREM CurLineInvariant == Spec => []CurLineInv
  BY InitCurLineInv, StepCurLineInv, PTL DEF Spec

(* No name is announced twice, whatever is answered late, out of order or  *)
(* after the locate type was changed.                                      *)
THEOREM NamesToldOnce == Spec => []ToldOnce
<1>1. CurLineInv => ToldOnce
  <2> SUFFICES ASSUME CurLineInv PROVE ToldOnce
    OBVIOUS
  <2>1. \A n \in Names : arrivals[n] <= 1
    BY DEF CurLineInv, Ledger
  <2>2. \A n \in Names \cup {NoName} : approaches[n] <= 1
    BY DEF CurLineInv, Ledger, AllNames
  <2> QED
    BY <2>1, <2>2 DEF ToldOnce
<1> QED
  BY <1>1, CurLineInvariant, PTL

(* Every station a position was heard from has been announced.             *)
THEOREM HeardIsTold == Spec => []HeardTold
<1>1. CurLineInv => HeardTold
  BY NamesOfLine DEF CurLineInv, Ledger, HeardTold
<1> QED
  BY <1>1, CurLineInvariant, PTL

(* PosCmp never reminds of a station other than the selected one.          *)
THEOREM ReminderIsOfMenu == Spec => []ReminderOfMenu
<1>1. CurLineInv => ReminderOfMenu
  BY DEF CurLineInv, Menu
<1> QED
  BY <1>1, CurLineInvariant, PTL

-----------------------------------------------------------------------------
(* The shapes of the variables.  The line is asked for, found and drawn    *)
(* once.                                                                   *)
SearchOnce ==
    /\ poll # "answered" => search = "none"
    /\ search # "drawn" => sta_count = 0

TypeInv == TypeOK /\ SearchOnce

PollOK ==
    /\ req_count \in 1 .. ReqLimit
    /\ poll \in {"asked", "waiting", "lost", "given up", "answered"}
    /\ poll \in {"asked", "waiting"} => req_count < ReqLimit
    /\ search \in {"none", "asked", "listed", "nothing", "drawn"}
    /\ slider \in BOOLEAN /\ loaded \in BOOLEAN /\ sta_count \in 0 .. 1
    /\ SearchOnce

LocateOK ==
    /\ timer \in {"none", "running", "cleared"}
    /\ locate_fun \in {"browser", "router"} /\ brower_geo_obj \in {"null", "object"}
    /\ pending \in [Kinds -> 0 .. MaxPending]

RemindOK ==
    /\ dst_remind_status \in {"on", "off"}
    /\ dst_sta \in Names \cup {NoName} /\ dst_index \in Indices
    /\ remind_sta \in Names \cup {NoSta}

ToldOK ==
    /\ passed_sta \subseteq Names /\ inbound_sta \subseteq Names \cup {NoName}
    /\ arrivals \in [Names -> 0 .. 2]
    /\ approaches \in [Names \cup {NoName} -> 0 .. 2]
    /\ heard \subseteq Indices

LEMMA TypeInvParts == TypeInv <=> PollOK /\ LocateOK /\ RemindOK /\ ToldOK
  BY DEF TypeInv, TypeOK, PollOK, LocateOK, RemindOK, ToldOK

LEMMA InitTypeInv == Init => TypeInv
<1> SUFFICES ASSUME Init PROVE TypeInv
  OBVIOUS
<1>1. 1 \in 1 .. ReqLimit /\ 1 < ReqLimit /\ 0 \in Indices
  BY CurLineAssumption DEF Indices
<1>2. 0 \in 0 .. MaxPending /\ 0 \in 0 .. 2 /\ 0 \in 0 .. 1
  BY CurLineAssumption
<1>3. PollOK
  <2>1. req_count = 1 /\ poll = "asked" /\ search = "none" /\ sta_count = 0
    BY DEF Init
  <2>2. slider \in BOOLEAN /\ loaded \in BOOLEAN
    BY Zenon DEF Init
  <2> QED
    BY <1>1, <1>2, <2>1, <2>2 DEF PollOK, SearchOnce
<1>4. LocateOK
  BY <1>2 DEF Init, LocateOK
<1>5. RemindOK
  BY <1>1 DEF Init, RemindOK
<1>6. ToldOK
  BY <1>2 DEF Init, ToldOK
<1> QED
  BY <1>3, <1>4, <1>5, <1>6, TypeInvParts

(* Positions are told of, and may stop the locate timer.                   *)
LEMMA AnswerKeepsTold ==
    ASSUME ToldOK, RemindOK, timer \in {"none", "running", "cleared"},
           translateCallback \/ NoPosition
    PROVE  ToldOK' /\ timer' \in {"none", "running", "cleared"}
<1>1. ASSUME NEW n \in Names PROVE Counted(arrivals, n) \in [Names -> 0 .. 2]
  BY DEF ToldOK, Counted
<1>2. ASSUME NEW n \in Names \cup {NoName}
      PROVE  Counted(approaches, n) \in [Names \cup {NoName} -> 0 .. 2]
  BY DEF ToldOK, Counted
<1>3. CASE NoPosition
  BY <1>3 DEF NoPosition, SaysNothing, ToldOK
<1>4. CASE translateCallback
  <2>1. PICK p \in Positions :
          /\ heard' = IF loaded /\ p[2] = "on" THEN heard \cup {p[1]} ELSE heard
          /\ \/ loaded /\ p[2] = "on" /\ Arrived(p[1])
             \/ loaded /\ p[2] = "near" /\ Line[p[1]] = remind_sta /\ Approached(p[1])
             \/ ~(loaded /\ p[2] = "on") /\ SaysNothing
    BY <1>4 DEF translateCallback
  <2>2. p[1] \in Indices /\ Line[p[1]] \in Names
    BY NamesOfLine DEF Positions
  <2>3. heard' \subseteq Indices
    BY <2>1, <2>2 DEF ToldOK
  <2>4. CASE Arrived(p[1])
    <3>1. passed_sta' \subseteq Names
      BY <2>2, <2>4 DEF Arrived, PassedWith, ToldOK
    <3>2. arrivals' \in [Names -> 0 .. 2]
      BY <1>1, <2>2, <2>4 DEF Arrived, ToldOK
    <3>3. /\ UNCHANGED <<inbound_sta, approaches>>
          /\ timer' \in {"none", "running", "cleared"}
      BY <2>4 DEF Arrived
    <3> QED
      BY <2>3, <3>1, <3>2, <3>3 DEF ToldOK
  <2>5. CASE Approached(p[1])
    <3>1. inbound_sta' \subseteq Names \cup {NoName}
      BY <2>5 DEF Approached, ToldOK, RemindOK
    <3>2. approaches' \in [Names \cup {NoName} -> 0 .. 2]
      BY <1>2, <2>5 DEF Approached, ToldOK, RemindOK
    <3>3. UNCHANGED <<passed_sta, arrivals, timer>>
      BY <2>5 DEF Approached
    <3> QED
      BY <2>3, <3>1, <3>2, <3>3 DEF ToldOK
  <2>6. CASE SaysNothing
    BY <2>3, <2>6 DEF SaysNothing, ToldOK
  <2> QED
    BY <2>1, <2>4, <2>5, <2>6
<1> QED
  BY <1>3, <1>4

LEMMA StepTypeInv == TypeInv /\ [Next]_vars => TypeInv'
<1> SUFFICES ASSUME TypeInv, [Next]_vars PROVE TypeInv'
  OBVIOUS
<1>0. PollOK /\ LocateOK /\ RemindOK /\ ToldOK
  BY TypeInvParts
<1>s. /\ UNCHANGED <<pollVars, lineVars>> => PollOK'
      /\ UNCHANGED <<timer, locateVars, pending>> => LocateOK'
      /\ UNCHANGED remindVars => RemindOK'
      /\ UNCHANGED toldVars => ToldOK'
  BY <1>0 DEF PollOK, SearchOnce, LocateOK, RemindOK, ToldOK, pollVars, lineVars,
              locateVars, remindVars, toldVars
<1>q. (PollOK /\ LocateOK /\ RemindOK /\ ToldOK)' => TypeInv'
  BY DEF TypeInv, TypeOK, PollOK, LocateOK, RemindOK, ToldOK
<1>1. CASE AskAgain
  <2>1. /\ req_count' = req_count + 1 /\ req_count < ReqLimit
        /\ poll' = IF req_count' >= ReqLimit THEN "given up" ELSE "asked"
        /\ poll = "waiting" /\ UNCHANGED lineVars
    BY <1>0, <1>1 DEF AskAgain, get_cur_line_info, PollOK
  <2>2. req_count' \in 1 .. ReqLimit
    <3>1. req_count \in 1 .. ReqLimit /\ ReqLimit \in Nat
      BY <1>0, CurLineAssumption DEF PollOK
    <3>2. req_count < ReqLimit
      BY <2>1
    <3>3. req_count + 1 \in 1 .. ReqLimit
      BY <3>1, <3>2
    <3> QED
      BY <2>1, <3>3
  <2>3. poll' = "asked" => req_count' < ReqLimit
    BY <2>1, <2>2, CurLineAssumption
  <2>4. PollOK'
    BY <1>0, <2>1, <2>2, <2>3 DEF PollOK, SearchOnce, lineVars
  <2> QED
    BY <1>1, <1>s, <1>q, <2>4 DEF AskAgain
<1>2. CASE CurLineAnswer
  <2>1. PollOK'
    BY <1>0, <1>2 DEF CurLineAnswer, PollOK, SearchOnce
  <2> QED
    BY <1>2, <1>s, <1>q, <2>1 DEF CurLineAnswer
<1>3. CASE onGetBusListComplete
  <2>1. /\ search = "asked" /\ search' \in {"listed", "nothing"} /\ slider' \in BOOLEAN
        /\ UNCHANGED <<pollVars, loaded, sta_count>>
    BY <1>0, <1>3 DEF onGetBusListComplete, PollOK
  <2>2. PollOK'
    BY <1>0, <2>1 DEF PollOK, SearchOnce, pollVars
  <2> QED
    BY <1>3, <1>s, <1>q, <2>2 DEF onGetBusListComplete
<1>4. CASE onBusListHtmlSet
  <2>1. LocateOK'
    BY <1>0, <1>4 DEF onBusListHtmlSet, LocateOK, locateVars
  <2> QED
    BY <1>4, <1>s, <1>q, <2>1 DEF onBusListHtmlSet
<1>5. CASE onMarkersSet
  <2>1. /\ search = "listed" /\ search' = "drawn" /\ loaded' = TRUE
        /\ sta_count' = sta_count + 1 /\ UNCHANGED <<req_count, poll, slider>>
    BY <1>5 DEF onMarkersSet, pollVars
  <2>2. sta_count = 0 /\ poll = "answered"
    BY <1>0, <2>1 DEF PollOK, SearchOnce
  <2>3. sta_count' \in 0 .. 1
    BY <2>1, <2>2
  <2>4. loaded' \in BOOLEAN /\ slider' \in BOOLEAN
    BY <1>0, <2>1, Zenon DEF PollOK
  <2>5. PollOK'
    BY <1>0, <2>1, <2>2, <2>3, <2>4 DEF PollOK, SearchOnce
  <2> QED
    BY <1>5, <1>s, <1>q, <2>5 DEF onMarkersSet
<1>6. CASE LocateTick
  <2>1. locate_fun \in Kinds /\ pending[locate_fun] \in 0 .. MaxPending
    BY <1>0 DEF LocateOK, Kinds
  <2>2. pending[locate_fun] + 1 \in 0 .. MaxPending
    BY <1>6, <2>1, CurLineAssumption DEF LocateTick
  <2>3. pending' \in [Kinds -> 0 .. MaxPending]
    BY <1>0, <1>6, <2>1, <2>2 DEF LocateTick, More, LocateOK
  <2>4. LocateOK'
    BY <1>0, <1>6, <2>3 DEF LocateTick, LocateOK, locateVars
  <2> QED
    BY <1>6, <1>s, <1>q, <2>4 DEF LocateTick
<1>7. CASE BrowserAnswer \/ RouterAnswer \/ ConvertAnswer
  <2>1. translateCallback \/ NoPosition
    BY <1>7 DEF BrowserAnswer, RouterAnswer, ConvertAnswer
  <2>2. UNCHANGED <<pollVars, lineVars, locateVars, remindVars>>
    BY <2>1 DEF translateCallback, NoPosition
  <2>3. ToldOK' /\ timer' \in {"none", "running", "cleared"}
    BY <1>0, <2>1, AnswerKeepsTold DEF LocateOK
  <2>4. ASSUME NEW k \in Kinds, pending[k] > 0
        PROVE  Less(k) \in [Kinds -> 0 .. MaxPending]
    <3>1. pending[k] - 1 \in 0 .. MaxPending
      BY <1>0, <2>4, CurLineAssumption DEF LocateOK
    <3> QED
      BY <1>0, <3>1 DEF Less, LocateOK
  <2>5. pending' \in [Kinds -> 0 .. MaxPending]
    <3>1. CASE BrowserAnswer
      BY <2>4, <3>1 DEF BrowserAnswer, Kinds
    <3>2. CASE ConvertAnswer
      BY <2>4, <3>2 DEF ConvertAnswer, Kinds
    <3>3. CASE RouterAnswer
      <4>1. Less("router") \in [Kinds -> 0 .. MaxPending]
        BY <2>4, <3>3 DEF RouterAnswer, Kinds
      <4>2. Less("router")["convert"] = pending["convert"]
        BY <1>0 DEF Less, LocateOK, Kinds
      <4>3. pending["convert"] \in 0 .. MaxPending
        BY <1>0 DEF LocateOK, Kinds
      <4>4. pending["convert"] < MaxPending => pending["convert"] + 1 \in 0 .. MaxPending
        BY <4>3, CurLineAssumption
      <4>5. \/ /\ pending["convert"] < MaxPending
               /\ pending' = [Less("router") EXCEPT !["convert"] = pending["convert"] + 1]
            \/ pending' = Less("router")
        BY <3>3, <4>2 DEF RouterAnswer
      <4> QED
        BY <4>1, <4>4, <4>5
    <3> QED
      BY <1>7, <3>1, <3>2, <3>3
  <2>6. LocateOK'
    BY <1>0, <2>2, <2>3, <2>5 DEF LocateOK, locateVars
  <2> QED
    BY <1>s, <1>q, <2>2, <2>3, <2>6
<1>8. CASE RemindStatusChange
  <2>1. RemindOK'
    BY <1>0, <1>8, NamesOfLine DEF RemindStatusChange, ReminderOff, RemindOK
  <2> QED
    BY <1>8, <1>s, <1>q, <2>1 DEF RemindStatusChange
<1>9. CASE StaRemindChange
  <2>1. RemindOK'
    BY <1>0, <1>9, NamesOfLine DEF StaRemindChange, RemindOK
  <2> QED
    BY <1>9, <1>s, <1>q, <2>1 DEF StaRemindChange
<1>10. CASE LocateTypeChange
  <2>1. LocateOK'
    BY <1>0, <1>10 DEF LocateTypeChange, LocateOK
  <2> QED
    BY <1>10, <1>s, <1>q, <2>1 DEF LocateTypeChange
<1>11. CASE UNCHANGED vars
  BY <1>11, <1>s, <1>q DEF vars
<1> QED
  BY <1>1, <1>2, <1>3, <1>4, <1>5, <1>6, <1>7, <1>8, <1>9, <1>10, <1>11 DEF Next

(* The variables keep their shapes, and the page asks less than ReqLimit   *)
(* times, for every limit and any number of locate requests.               *)
THEOREM CurLineTyped == Spec => []TypeOK
<1>1. TypeInv => TypeOK
  BY DEF TypeInv
<1> QED
  BY <1>1, InitTypeInv, StepTypeInv, PTL DEF Spec
=============================================================================
