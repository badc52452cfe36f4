-------------------------- MODULE BusConfigProofs --------------------------
(***************************************************************************)
(* The server of the bus and the two that talk to it: BusConfig for every  *)
(* set of names and lines, every number of stations and every layout of    *)
(* the statics; ConfigPage for every number of calls under way; BusTrip    *)
(* for every line that fits and every pattern of lost and repeated         *)
(* reports.  What is proved of BusConfig uses nothing of the other two.    *)
(***************************************************************************)
EXTENDS ConfigPage, BusTrip, TLAPS

USE DEF BUS_STATUS_IN_STATION, BUS_STATUS_INBOUND, BUS_STATUS_OUTBOUND,
        BUS_STATUS_TERMINAL, BUS_STATUS_BEGIN, BUS_STATUS_MAX,
        STA_PASSED, STA_IN_STA, STA_INBOUND, STA_OUTBOUND, STA_NOT_REACH

(* The values StatusShown allows at a station.                             *)
ShownAt(s) ==
    {0, STA_PASSED, STA_IN_STA, STA_INBOUND, STA_OUTBOUND} \cup
    (IF s < BUS_STA_MX_COUNT \div 4
     THEN {Bytes(STA_PASSED), Bytes(STA_NOT_REACH)} ELSE {})

(* What CurLineSet stores is a name that fits.                             *)
LEMMA KeptIsName ==
    ASSUME NEW name \in Names \cup LongNames \cup {NoName}
    PROVE  /\ Kept(name) \in Names \cup {NoName}
           /\ Kept(name) # NoName => Kept(name) \in Names
  BY NamesAssumption DEF Kept

(* A rendered line is a LineInfo of the name and direction it is given.    *)
LEMMA RenderedIsInfo ==
    ASSUME NEW name \in Names, NEW dec \in Nat, NEW info \in Rendered(name, dec)
    PROVE  /\ info \in LineInfo
           /\ info.line_name = name
           /\ info.cur_dec = dec
  BY DEF Rendered, LineInfo

LEMMA NoInfoIsNoLine == NoInfo \notin LineInfo
  BY NoInfoAssumption DEF LineInfo

(* A report leaves a status array whose entries StatusShown allows.        *)
LEMMA StoredShown ==
    ASSUME bus_sta_status \in [Stations -> Int], StatusShown,
           NEW seq \in Int, NEW status \in Int, Accepted(seq, status),
           StatusStored(seq, status)
    PROVE  bus_sta_status' \in [Stations -> Int] /\ StatusShown'
<1> USE StationsAssumption
<1>0. /\ Stations \subseteq Int
      /\ seq \in Stations
      /\ \A s \in Stations : bus_sta_status[s] \in ShownAt(s)
      /\ \A s \in Stations : {1, 2, 3, 4} \subseteq ShownAt(s)
  BY DEF StatusShown, ShownAt, Stations, Accepted
<1>q. SUFFICES /\ bus_sta_status' \in [Stations -> Int]
               /\ \A s \in Stations : bus_sta_status'[s] \in ShownAt(s)
  BY DEF StatusShown, ShownAt, Stations, Bytes
<1>1. CASE status = BUS_STATUS_IN_STATION
  <2>1. bus_sta_status' = [bus_sta_status EXCEPT ![seq] = STA_IN_STA]
    BY <1>1 DEF StatusStored
  <2> QED
    BY <2>1, <1>0
<1>2. CASE status = BUS_STATUS_INBOUND
  <2>1. bus_sta_status' = [s \in Stations |->
            IF s = seq THEN STA_INBOUND
            ELSE IF s = seq - 1 THEN STA_PASSED ELSE bus_sta_status[s]]
    BY <1>2 DEF StatusStored
  <2> QED
    BY <2>1, <1>0
<1>3. CASE status = BUS_STATUS_OUTBOUND
  <2>1. bus_sta_status' = [s \in Stations |->
            IF s = seq THEN STA_OUTBOUND
            ELSE IF s = seq + 1 THEN STA_INBOUND ELSE bus_sta_status[s]]
    BY <1>3 DEF StatusStored
  <2> QED
    BY <2>1, <1>0
<1>4. ASSUME NEW v \in {STA_PASSED, STA_NOT_REACH}, bus_sta_status' = Filled(v)
      PROVE  /\ bus_sta_status' \in [Stations -> Int]
             /\ \A s \in Stations : bus_sta_status'[s] \in ShownAt(s)
  <2>1. Bytes(v) \in Int
    BY DEF Bytes
  <2>2. \A s \in Stations : s < BUS_STA_MX_COUNT \div 4 => Bytes(v) \in ShownAt(s)
    BY DEF ShownAt
  <2> QED
    BY <1>4, <2>1, <2>2, <1>0 DEF Filled
<1> QED
  BY <1>1, <1>2, <1>3, <1>4 DEF StatusStored

-----------------------------------------------------------------------------
(* The three parts are inductive together: StatusShown needs the array to  *)
(* be one, InfoIsCurrent needs the direction to be a number.               *)
IInv == TypeOK /\ StatusShown /\ InfoIsCurrent

LEMMA InitIInv == Init => IInv
<1> SUFFICES ASSUME Init PROVE IInv
  OBVIOUS
<1>1. TypeOK
  <2>0. bus_sta_status = [s \in Stations |-> 0]
    BY DEF Init
  <2>1. bus_sta_status \in [Stations -> Int]
    BY <2>0
  <2>2. bus_cur_line_info \in LineInfo \cup {NoInfo} /\ bus_num \in {NoName}
    BY DEF Init
  <2>3. 0 \in Nat /\ 0 \in Int
    OBVIOUS
  <2>4. bus_derection \in Nat /\ bus_cur_sta \in Int
    BY <2>3, Zenon DEF Init
  <2>5. reply \in Replies
    BY DEF Init, Replies
  <2> QED
    BY <2>1, <2>2, <2>4, <2>5 DEF TypeOK
<1>2. StatusShown
  BY DEF Init, StatusShown
<1>3. InfoIsCurrent
  BY NamesAssumption DEF Init, InfoIsCurrent
<1> QED
  BY <1>1, <1>2, <1>3 DEF IInv

LEMMA CurLineSetIInv ==
    ASSUME IInv, NEW name \in Names \cup LongNames \cup {NoName},
           NEW dec \in Int, CurLineSet(name, dec)
    PROVE  IInv'
<1> USE DEF IInv, TypeOK, CurLineSet, statusVars
<1>1. bus_derection' \in Nat
  BY StationsAssumption DEF set_bus_config_bus_derection
<1>2. /\ bus_num' \in Names \cup {NoName}
      /\ bus_num' # NoName => bus_num' \in Names
  BY KeptIsName DEF set_bus_config_bus_num
<1>3. StatusShown'
  BY DEF StatusShown
<1>4. CASE bus_num' = NoName
  <2>1. bus_cur_line_info' = bus_cur_line_info /\ reply' = "error"
    BY <1>4 DEF set_bus_config_bus_cur_line_info
  <2>2. InfoIsCurrent'
    BY <1>4, NamesAssumption DEF InfoIsCurrent
  <2> QED
    BY <1>1, <1>2, <1>3, <2>1, <2>2 DEF Replies
<1>5. CASE bus_num' # NoName
  <2>1. bus_cur_line_info' \in Rendered(bus_num', bus_derection') /\ reply' = "ok"
    BY <1>5 DEF set_bus_config_bus_cur_line_info
  <2>2. /\ bus_cur_line_info' \in LineInfo
        /\ bus_cur_line_info'.line_name = bus_num'
        /\ bus_cur_line_info'.cur_dec = bus_derection'
    BY <1>1, <1>2, <1>5, <2>1, RenderedIsInfo
  <2>3. InfoIsCurrent'
    BY <2>2, NoInfoIsNoLine DEF InfoIsCurrent
  <2> QED
    BY <1>1, <1>2, <1>3, <2>1, <2>2, <2>3 DEF Replies
<1> QED
  BY <1>4, <1>5

LEMMA StaStatusSetIInv ==
    ASSUME IInv, NEW seq \in Seqs, NEW status \in Statuses,
           StaStatusSet(seq, status)
    PROVE  IInv'
<1> USE DEF IInv
<1>0. seq \in Int /\ status \in Int
  BY StationsAssumption
<1>1. CASE Accepted(seq, status) /\ ~PastEnd(seq, status)
  <2>1. /\ StatusStored(seq, status) /\ reply' = "ok"
        /\ bus_cur_sta' = seq /\ UNCHANGED lineVars
    BY <1>1 DEF StaStatusSet, set_bus_config_bus_driving_data
  <2>2. bus_sta_status' \in [Stations -> Int] /\ StatusShown'
    BY <1>0, <1>1, <2>1, StoredShown DEF TypeOK
  <2>3. InfoIsCurrent'
    BY <2>1 DEF InfoIsCurrent, lineVars
  <2> QED
    BY <1>0, <2>1, <2>2, <2>3 DEF TypeOK, lineVars, Replies
<1>2. CASE Accepted(seq, status) /\ PastEnd(seq, status)
  <2>1. StatusStored(seq, status) /\ reply' = "ok" /\ WritePastEnd
    BY <1>2 DEF StaStatusSet, set_bus_config_bus_driving_data
  <2>2. bus_sta_status' \in [Stations -> Int] /\ StatusShown'
    BY <1>0, <1>2, <2>1, StoredShown DEF TypeOK
  <2>3. PICK n \in Neighbours :
           /\ bus_num' = IF n = "bus_num" THEN CtrlName ELSE bus_num
           /\ bus_derection' = IF n = "bus_derection" THEN STA_INBOUND
                               ELSE bus_derection
           /\ bus_cur_line_info' = IF n = "bus_cur_line_info" THEN NoInfo
                                   ELSE bus_cur_line_info
           /\ bus_cur_sta' = IF n = "bus_cur_sta" THEN STA_INBOUND
                             ELSE BUS_STA_MX_COUNT - 1
    BY <2>1 DEF WritePastEnd
  <2>4. TypeOK'
    <3>1. bus_num' \in Names \cup {NoName, CtrlName} /\ bus_derection' \in Nat
      BY <2>3 DEF TypeOK
    <3>2. bus_cur_line_info' \in LineInfo \cup {NoInfo}
      BY <2>3 DEF TypeOK
    <3>3. BUS_STA_MX_COUNT - 1 \in Int
      BY StationsAssumption
    <3>4. bus_cur_sta' \in Int
      BY <2>3, <3>3
    <3> QED
      BY <2>1, <2>2, <3>1, <3>2, <3>4 DEF TypeOK, Replies
  <2>5. InfoIsCurrent'
    BY <2>3, NamesAssumption DEF InfoIsCurrent
  <2> QED
    BY <2>2, <2>4, <2>5
<1>3. CASE ~Accepted(seq, status)
  <2>1. UNCHANGED <<lineVars, statusVars>> /\ reply' = "error"
    BY <1>3 DEF StaStatusSet
  <2> QED
    BY <2>1 DEF TypeOK, StatusShown, InfoIsCurrent, lineVars, statusVars, Replies
<1> QED
  BY <1>1, <1>2, <1>3

LEMMA NextIInv == IInv /\ [Next]_vars => IInv'
<1> SUFFICES ASSUME IInv, [Next]_vars PROVE IInv'
  OBVIOUS
<1>1. ASSUME NEW name \in Names \cup LongNames \cup {NoName}, NEW dec \in Decs,
             CurLineSet(name, dec)
      PROVE  IInv'
  BY <1>1, StationsAssumption, CurLineSetIInv
<1>2. ASSUME NEW seq \in Seqs, NEW status \in Statuses, StaStatusSet(seq, status)
      PROVE  IInv'
  BY <1>2, StaStatusSetIInv
<1>3. CASE CurLineGet \/ StaStatusGet \/ Refused
  BY <1>3 DEF IInv, TypeOK, StatusShown, InfoIsCurrent, CurLineGet, StaStatusGet,
              Refused, lineVars, statusVars, Replies
<1>4. CASE Restart
  <2>1. TypeOK'
    BY <1>4 DEF IInv, TypeOK, Restart
  <2>2. StatusShown'
    BY <1>4 DEF StatusShown, Restart
  <2>3. InfoIsCurrent'
    BY <1>4, NamesAssumption DEF InfoIsCurrent, Restart
  <2> QED
    BY <2>1, <2>2, <2>3 DEF IInv
<1>5. CASE UNCHANGED vars
  BY <1>5 DEF IInv, TypeOK, StatusShown, InfoIsCurrent, vars
<1> QED
  BY <1>1, <1>2, <1>3, <1>4, <1>5 DEF Next, Request

THEOREM ConfigInvariant == Spec => []IInv
  BY InitIInv, NextIInv, PTL DEF Spec

(* Every variable keeps its type, whatever requests arrive.                *)
THEOREM TypeCorrect == Spec => []TypeOK
<1>1. IInv => TypeOK
  BY DEF IInv
<1> QED
  BY <1>1, ConfigInvariant, PTL

(* The cached line is the one of the name and direction configured, up to  *)
(* the two exceptions InfoIsCurrent names.                                 *)
THEOREM InfoCurrent == Spec => []InfoIsCurrent
<1>1. IInv => InfoIsCurrent
  BY DEF IInv
<1> QED
  BY <1>1, ConfigInvariant, PTL

(* No report ever makes a station STA_NOT_REACH, and only the first        *)
(* quarter of the stations sees a memset.                                  *)
THEOREM StatusAsShown == Spec => []StatusShown
<1>1. IInv => StatusShown
  BY DEF IInv
<1> QED
  BY <1>1, ConfigInvariant, PTL

(* A request or a restart that changes both line and driving status is the *)
(* departure from the last station, or a restart.                          *)
THEOREM LineAndReportsApart == Spec => ReportsLeaveLineAlone
<1> DEFINE Apart == lineVars' # lineVars /\ statusVars' # statusVars =>
                       \/ bus_sta_status'[BUS_STA_MX_COUNT - 1] = STA_OUTBOUND
                       \/ bus_num' = NoName /\ bus_cur_line_info' = NoInfo
<1>1. IInv /\ [Next]_vars => [Apart]_vars
  <2> SUFFICES ASSUME IInv, [Next]_vars PROVE Apart \/ UNCHANGED vars
    OBVIOUS
  <2>1. ASSUME NEW seq \in Seqs, NEW status \in Statuses, StaStatusSet(seq, status),
               lineVars' # lineVars
        PROVE  bus_sta_status'[BUS_STA_MX_COUNT - 1] = STA_OUTBOUND
    <3>1. PastEnd(seq, status) /\ StatusStored(seq, status)
      BY <2>1 DEF StaStatusSet, set_bus_config_bus_driving_data
    <3>2. seq = BUS_STA_MX_COUNT - 1 /\ seq \in Stations
      BY <3>1, StationsAssumption DEF PastEnd, Stations
    <3> QED
      BY <3>1, <3>2 DEF PastEnd, StatusStored
  <2>2. ASSUME NEW name, NEW dec, CurLineSet(name, dec)
        PROVE  UNCHANGED statusVars
    BY <2>2 DEF CurLineSet
  <2>3. CurLineGet \/ StaStatusGet \/ Refused => UNCHANGED statusVars
    BY DEF CurLineGet, StaStatusGet, Refused
  <2>4. Restart => bus_num' = NoName /\ bus_cur_line_info' = NoInfo
    BY DEF Restart
  <2> QED
    BY <2>1, <2>2, <2>3, <2>4 DEF Next, Request
<1>2. QED
  BY <1>1, ConfigInvariant, PTL DEF Spec, ReportsLeaveLineAlone

-----------------------------------------------------------------------------
(***************************************************************************)
(* ConfigPage: the page that configures the line, over BusConfig.          *)
(***************************************************************************)

(* What the server holds once the driver's set was handled.                *)
ServerHas ==
    mine.name # NoName =>
        /\ bus_cur_line_info # NoInfo
        /\ bus_cur_line_info.line_name = Kept(mine.name)
        /\ bus_cur_line_info.cur_dec = bus_derection
        /\ mine.chosen => bus_derection = mine.dir

(* A set that nothing interferes with goes through five phases.            *)
SetGoing ==
    /\ answered = {}
    /\ \E c : /\ asked = {c} /\ c.act = "set" /\ c.name = mine.name
              /\ mine.chosen => c.dir = mine.dir

SetDone ==
    /\ asked = {} /\ ServerHas
    /\ \E a : answered = {a} /\ a.act = "set"

Getting ==
    /\ answered = {} /\ ServerHas
    /\ \E c : asked = {c} /\ c.act = "get"

GetDone ==
    /\ asked = {} /\ ServerHas
    /\ \E a : answered = {a} /\ a.act = "get" /\ a.info = bus_cur_line_info

AllShown ==
    /\ Quiet /\ ServerHas
    /\ bus_cur_line_info # NoInfo /\ bus_cur_line_info.whole =>
           /\ cur_info = bus_cur_line_info
           /\ mine.name # NoName /\ mine.chosen => dir_info = mine.dir

Phases ==
    mine # NoSet =>
        /\ mine.name \in Typeable /\ mine.dir \in Options
        /\ SetGoing \/ SetDone \/ Getting \/ GetDone \/ AllShown

(* The box holds the name typed last, unless an answer may have changed it.*)
TypedInBox == ~hasty /\ typed # NoTyped => Quiet /\ set_name = typed

(* What is in the hidden input is what shows as selected.                  *)
ChosenInBox == set_dir # 0 => set_dir = line_direction

PageInv == IInv /\ PageTypeOK /\ Phases /\ TypedInBox /\ ChosenInBox

-----------------------------------------------------------------------------
(* Nothing about the server changes.                                       *)
LEMMA ServerStays ==
    ASSUME UNCHANGED vars, IInv
    PROVE  IInv'
  BY NextIInv

LEMMA OptionsAreNumbers ==
    /\ \A d \in Options \cup {0} : d \in Int
    /\ \A d \in Options : d > 0
<1>1. \A d \in 1 .. 3 : d \in Int /\ d > 0
  OBVIOUS
<1> QED
  BY <1>1, ConfigPageAssumption

(* A call gets a number no other one has.                                  *)
LEMMA SendKeepsIds ==
    ASSUME PageTypeOK, NEW act \in {"set", "get"}, NEW name \in Typeable,
           NEW dir \in Options \cup {0}, Send(act, name, dir), UNCHANGED answered
    PROVE  /\ asked' \cap answered' = {}
           /\ \A c, d \in asked' \cup answered' : c.id = d.id => c = d
           /\ \A c \in asked' : c.act \in {"set", "get"} /\ c.name \in Typeable
                                /\ c.dir \in Options \cup {0}
           /\ asked = {} => \E c : /\ asked' = {c} /\ c.act = act
                                   /\ c.name = name /\ c.dir = dir
<1> DEFINE id == CHOOSE i \in Free : TRUE
           new == [id |-> id, act |-> act, name |-> name, dir |-> dir]
<1>1. id \in Free /\ asked' = asked \cup {new}
  BY DEF Send
<1>2. \A c \in asked \cup answered : c.id # id
  BY <1>1 DEF Free
<1>3. new.id = id /\ new.act = act /\ new.name = name /\ new.dir = dir
  OBVIOUS
<1> HIDE DEF id, new
<1> QED
  BY <1>1, <1>2, <1>3 DEF PageTypeOK

-----------------------------------------------------------------------------
THEOREM PageInitInv == PageInit => PageInv
<1> SUFFICES ASSUME PageInit PROVE PageInv
  OBVIOUS
<1>1. IInv
  BY InitIInv DEF PageInit
<1>2. PageTypeOK
  <2>1. 0 \in 0 .. 3 /\ 1 \in Options
    BY ConfigPageAssumption
  <2> DEFINE c == [id |-> 1, act |-> "get", name |-> NoName, dir |-> 0]
  <2>2. asked = {c} /\ answered = {}
    BY DEF PageInit
  <2>3. c.act = "get" /\ c.name \in Typeable /\ c.dir = 0
    BY DEF Typeable
  <2> HIDE DEF c
  <2>4. /\ set_name \in Typeable /\ typed = NoTyped /\ line_direction \in Options
        /\ set_dir = 0 /\ cur_info = NoInfo /\ dir_info \in 0 .. 3 /\ hasty = FALSE
    BY <2>1, Zenon DEF PageInit, Typeable
  <2> QED
    BY <2>2, <2>3, <2>4 DEF PageTypeOK
<1>3. Phases /\ TypedInBox /\ ChosenInBox
  BY DEF PageInit, Phases, TypedInBox, ChosenInBox
<1> QED
  BY <1>1, <1>2, <1>3 DEF PageInv

LEMMA TypeNameKeeps ==
    ASSUME PageInv, NEW name \in Typeable, TypeName(name)
    PROVE  PageInv'
<1> USE DEF PageInv, TypeName, shown, calls
<1>1. IInv'
  BY ServerStays
<1>2. PageTypeOK'
  BY DEF PageTypeOK
<1>3. Phases'
  BY DEF Phases, SetGoing, SetDone, Getting, GetDone, AllShown, ServerHas, Quiet, vars
<1>4. TypedInBox'
  BY DEF TypedInBox, Quiet
<1>5. ChosenInBox'
  BY DEF ChosenInBox
<1> QED
  BY <1>1, <1>2, <1>3, <1>4, <1>5

LEMMA ChooseDirectionKeeps ==
    ASSUME PageInv, NEW dir \in Options, ChooseDirection(dir)
    PROVE  PageInv'
<1> USE DEF PageInv, ChooseDirection, shown, calls, history
<1>1. IInv'
  BY ServerStays
<1>2. PageTypeOK'
  BY DEF PageTypeOK
<1>3. Phases'
  BY DEF Phases, SetGoing, SetDone, Getting, GetDone, AllShown, ServerHas, Quiet, vars
<1>4. TypedInBox' /\ ChosenInBox'
  BY DEF TypedInBox, ChosenInBox, Quiet
<1> QED
  BY <1>1, <1>2, <1>3, <1>4

(* A set sent while nothing is under way begins the phases.                *)
LEMMA CommitKeeps ==
    ASSUME PageInv, config_commit
    PROVE  PageInv'
<1> USE DEF PageInv
<1>1. IInv'
  BY ServerStays DEF config_commit
<1>2. /\ set_name \in Typeable /\ set_dir \in Options \cup {0}
      /\ line_direction \in Options
  BY DEF PageTypeOK
<1>3. Send("set", set_name, set_dir) /\ UNCHANGED answered
  BY DEF config_commit
<1>4. PageTypeOK'
  BY <1>2, <1>3, SendKeepsIds DEF PageTypeOK, config_commit, form, shown
<1>5. Phases'
  <2> SUFFICES ASSUME mine' # NoSet
               PROVE  mine'.name \in Typeable /\ mine'.dir \in Options /\ SetGoing'
    BY DEF Phases
  <2>1. /\ Quiet /\ ~hasty
        /\ mine' = [name |-> IF typed = NoTyped THEN set_name ELSE typed,
                    dir |-> line_direction, chosen |-> set_dir # 0]
    BY DEF config_commit
  <2>2. mine'.name = set_name /\ mine'.dir = line_direction
    BY <2>1 DEF TypedInBox
  <2>3. mine'.chosen => set_dir = line_direction
    BY <2>1 DEF ChosenInBox
  <2>4. answered' = {} /\ \E c : /\ asked' = {c} /\ c.act = "set"
                                 /\ c.name = set_name /\ c.dir = set_dir
    BY <1>2, <1>3, <2>1, SendKeepsIds DEF Quiet
  <2> QED
    BY <1>2, <2>2, <2>3, <2>4 DEF SetGoing
<1>6. TypedInBox' /\ ChosenInBox'
  BY DEF config_commit, form, shown, TypedInBox, ChosenInBox
<1> QED
  BY <1>1, <1>4, <1>5, <1>6

LEMMA ShowKeeps ==
    ASSUME PageInv, show_cur_info
    PROVE  PageInv'
<1> USE DEF PageInv
<1>1. IInv'
  BY ServerStays DEF show_cur_info
<1>2. Send("get", NoName, 0) /\ UNCHANGED answered /\ NoName \in Typeable
  BY DEF show_cur_info, Typeable
<1>3. PageTypeOK'
  BY <1>2, SendKeepsIds DEF PageTypeOK, show_cur_info, form, shown
<1>4. Phases'
  <2> SUFFICES ASSUME mine' # NoSet
               PROVE  mine'.name \in Typeable /\ mine'.dir \in Options /\ Getting'
    BY DEF Phases
  <2>1. Quiet /\ mine' = mine
    BY DEF show_cur_info
  <2>2. ServerHas /\ mine.name \in Typeable /\ mine.dir \in Options
    BY <2>1 DEF Phases, SetGoing, SetDone, Getting, GetDone, AllShown, Quiet
  <2>3. ServerHas'
    BY <2>1, <2>2 DEF ServerHas, show_cur_info, vars
  <2>4. answered' = {} /\ \E c : asked' = {c} /\ c.act = "get"
    BY <1>2, <2>1, SendKeepsIds DEF Quiet
  <2> QED
    BY <2>1, <2>2, <2>3, <2>4 DEF Getting
<1>5. TypedInBox' /\ ChosenInBox'
  BY DEF show_cur_info, form, shown, TypedInBox, ChosenInBox
<1> QED
  BY <1>1, <1>3, <1>4, <1>5

-----------------------------------------------------------------------------
(* The server's answer has the number of the call.                         *)
LEMMA AnswerKeepsIds ==
    ASSUME PageTypeOK, NEW c \in asked, NEW info \in LineInfo \cup {NoInfo},
           Answer(c, info)
    PROVE  /\ asked' \cap answered' = {}
           /\ \A d, e \in asked' \cup answered' : d.id = e.id => d = e
           /\ \A d \in asked' : d.act \in {"set", "get"} /\ d.name \in Typeable
                                /\ d.dir \in Options \cup {0}
           /\ \A a \in answered' : a.act \in {"set", "get"}
                                   /\ a.info \in LineInfo \cup {NoInfo}
           /\ asked = {c} /\ answered = {} =>
                  /\ asked' = {}
                  /\ \E a : answered' = {a} /\ a.act = c.act /\ a.info = info
<1> DEFINE new == [id |-> c.id, act |-> c.act, info |-> info]
<1>1. asked' = asked \ {c} /\ answered' = answered \cup {new}
  BY DEF Answer
<1>2. new.id = c.id /\ new.act = c.act /\ new.info = info
  OBVIOUS
<1> HIDE DEF new
<1>3. \A d \in asked' \cup answered' :
          d \in (asked \cup answered) \ {c} \/ d = new
  BY <1>1 DEF PageTypeOK
<1>4. \A d \in (asked \cup answered) \ {c} : d.id # new.id
  BY <1>2 DEF PageTypeOK
<1>5. /\ asked' \cap answered' = {}
      /\ \A d, e \in asked' \cup answered' : d.id = e.id => d = e
  BY <1>1, <1>3, <1>4 DEF PageTypeOK
<1>6. \A d \in asked' : d.act \in {"set", "get"} /\ d.name \in Typeable
                         /\ d.dir \in Options \cup {0}
  BY <1>1 DEF PageTypeOK
<1>7. \A a \in answered' : a.act \in {"set", "get"}
                            /\ a.info \in LineInfo \cup {NoInfo}
  BY <1>1, <1>2 DEF PageTypeOK
<1> QED
  BY <1>1, <1>2, <1>5, <1>6, <1>7

(* A set is handled: name and direction are stored, and rendered.          *)
LEMMA SetStored ==
    ASSUME IInv, NEW name \in Typeable, name # NoName, NEW dir \in Int,
           CurLineSet(name, dir)
    PROVE  /\ bus_cur_line_info' # NoInfo
           /\ bus_cur_line_info'.line_name = Kept(name)
           /\ bus_cur_line_info'.cur_dec = bus_derection'
           /\ dir > 0 => bus_derection' = dir
<1>1. bus_num' = Kept(name) /\ bus_num' # NoName /\ bus_num' \in Names
  BY NamesAssumption DEF CurLineSet, set_bus_config_bus_num, Kept, Typeable
<1>2. /\ bus_derection' \in Nat
      /\ dir > 0 => bus_derection' = dir
  BY DEF CurLineSet, set_bus_config_bus_derection, IInv, TypeOK
<1>3. bus_cur_line_info' \in Rendered(bus_num', bus_derection')
  BY <1>1 DEF CurLineSet, set_bus_config_bus_cur_line_info
<1>4. /\ bus_cur_line_info' \in LineInfo
      /\ bus_cur_line_info'.line_name = bus_num'
      /\ bus_cur_line_info'.cur_dec = bus_derection'
  BY <1>1, <1>2, <1>3, RenderedIsInfo
<1> QED
  BY <1>1, <1>2, <1>4, NoInfoIsNoLine

LEMMA HandleKeeps ==
    ASSUME PageInv, NEW c \in asked, Handle(c)
    PROVE  PageInv'
<1> USE DEF PageInv
<1>a. c.name \in Typeable /\ c.dir \in Options \cup {0}
  BY DEF PageTypeOK
<1>0. /\ c.name \in Typeable /\ c.dir \in Int
      /\ UNCHANGED <<form, shown, history>>
      /\ bus_cur_line_info \in LineInfo \cup {NoInfo}
  BY <1>a, OptionsAreNumbers DEF Handle, IInv, TypeOK
<1>1. TypedInBox' /\ ChosenInBox'
  BY <1>0 DEF form, shown, history, TypedInBox, ChosenInBox, Quiet
<1>2. CASE c.act = "set" /\ CurLineSet(c.name, c.dir) /\ Answer(c, NoInfo)
  <2>1. IInv'
    BY <1>0, <1>2, CurLineSetIInv DEF Typeable
  <2>2. PageTypeOK'
    BY <1>0, <1>2, AnswerKeepsIds DEF PageTypeOK, form, shown, history
  <2>3. Phases'
    <3> SUFFICES ASSUME mine # NoSet
                 PROVE  mine.name \in Typeable /\ mine.dir \in Options /\ SetDone'
      BY <1>0 DEF Phases, history
    <3>1. SetGoing /\ mine.name \in Typeable /\ mine.dir \in Options
      BY <1>2 DEF Phases, SetDone, Getting, GetDone, AllShown, Quiet
    <3>2. /\ asked = {c} /\ answered = {} /\ c.name = mine.name
          /\ mine.chosen => c.dir = mine.dir
      BY <3>1 DEF SetGoing
    <3>3. asked' = {} /\ \E a : answered' = {a} /\ a.act = "set"
      BY <1>2, <3>2, AnswerKeepsIds
    <3>4. mine.dir > 0
      BY <3>1, OptionsAreNumbers
    <3>5. ServerHas'
      BY <1>0, <1>2, <3>2, <3>4, SetStored DEF ServerHas, history
    <3> QED
      BY <3>1, <3>3, <3>5 DEF SetDone
  <2> QED
    BY <1>1, <2>1, <2>2, <2>3
<1>3. CASE c.act = "get" /\ CurLineGet /\ Answer(c, bus_cur_line_info)
  <2>1. IInv'
    BY <1>3, NextIInv DEF Next, Request
  <2>2. PageTypeOK'
    BY <1>0, <1>3, AnswerKeepsIds DEF PageTypeOK, form, shown, history
  <2>3. Phases'
    <3> SUFFICES ASSUME mine # NoSet
                 PROVE  mine.name \in Typeable /\ mine.dir \in Options /\ GetDone'
      BY <1>0 DEF Phases, history
    <3>1. Getting /\ mine.name \in Typeable /\ mine.dir \in Options
      BY <1>3 DEF Phases, SetGoing, SetDone, GetDone, AllShown, Quiet
    <3>2. asked = {c} /\ answered = {}
      BY <3>1 DEF Getting
    <3>3. /\ asked' = {}
          /\ \E a : answered' = {a} /\ a.act = "get" /\ a.info = bus_cur_line_info
      BY <1>0, <1>3, <3>2, AnswerKeepsIds
    <3>4. ServerHas' /\ bus_cur_line_info' = bus_cur_line_info
      BY <1>0, <1>3, <3>1 DEF Getting, ServerHas, CurLineGet, lineVars, history
    <3> QED
      BY <3>1, <3>3, <3>4 DEF GetDone
  <2> QED
    BY <1>1, <2>1, <2>2, <2>3
<1> QED
  BY <1>2, <1>3 DEF Handle

-----------------------------------------------------------------------------
(* After a set the page asks for the line.                                 *)
LEMMA SetAnswerKeeps ==
    ASSUME PageInv, NEW a \in answered, change_cur_info(a)
    PROVE  PageInv'
<1> USE DEF PageInv
<1> DEFINE new == [id |-> a.id, act |-> "get", name |-> NoName, dir |-> 0]
<1>1. /\ answered' = answered \ {a} /\ asked' = asked \cup {new}
      /\ a.act = "set" /\ UNCHANGED <<vars, form, shown, history>>
  BY DEF change_cur_info
<1>2. /\ new.id = a.id /\ new.act = "get"
      /\ new.name \in Typeable /\ new.dir \in Options \cup {0}
  BY DEF Typeable
<1> HIDE DEF new
<1>3. IInv'
  BY <1>1, ServerStays
<1>4. PageTypeOK'
  <2>1. \A c \in asked' \cup answered' :
            c \in (asked \cup answered) \ {a} \/ c = new
    BY <1>1 DEF PageTypeOK
  <2>2. \A c \in (asked \cup answered) \ {a} : c.id # new.id
    BY <1>2 DEF PageTypeOK
  <2>3. /\ asked' \cap answered' = {}
        /\ \A c, d \in asked' \cup answered' : c.id = d.id => c = d
    BY <1>1, <2>1, <2>2 DEF PageTypeOK
  <2>4. \A c \in asked' : c.act \in {"set", "get"} /\ c.name \in Typeable
                           /\ c.dir \in Options \cup {0}
    BY <1>1, <1>2 DEF PageTypeOK
  <2> QED
    BY <1>1, <2>3, <2>4 DEF PageTypeOK, form, shown, history
<1>5. Phases'
  <2> SUFFICES ASSUME mine # NoSet
               PROVE  mine.name \in Typeable /\ mine.dir \in Options /\ Getting'
    BY <1>1 DEF Phases, history
  <2>1. SetDone /\ mine.name \in Typeable /\ mine.dir \in Options
    BY <1>1 DEF Phases, SetGoing, Getting, GetDone, AllShown, Quiet
  <2>2. ServerHas'
    BY <1>1, <2>1 DEF SetDone, ServerHas, history, vars
  <2> QED
    BY <1>1, <1>2, <2>1, <2>2 DEF SetDone, Getting
<1>6. TypedInBox' /\ ChosenInBox'
  BY <1>1 DEF form, shown, history, TypedInBox, ChosenInBox, Quiet
<1> QED
  BY <1>3, <1>4, <1>5, <1>6

(* The line is shown, unless there is none.                                *)
LEMMA GetAnswerKeeps ==
    ASSUME PageInv, NEW a \in answered, GetAnswered(a)
    PROVE  PageInv'
<1> USE DEF PageInv
<1>1. /\ a.act = "get" /\ answered' = answered \ {a}
      /\ a.info \in LineInfo \cup {NoInfo}
      /\ UNCHANGED <<vars, line_direction, set_dir, asked, history>>
  BY DEF GetAnswered, PageTypeOK
<1>2. IInv'
  BY <1>1, ServerStays
<1>3. /\ a.info # NoInfo /\ a.info.whole => /\ cur_info' = a.info
                                            /\ dir_info' = DirText(a.info)
                                            /\ set_name' = a.info.line_name
                                            /\ set_name' \in Typeable
      /\ ~(a.info # NoInfo /\ a.info.whole) => UNCHANGED <<set_name, shown>>
  BY <1>1 DEF GetAnswered, Typeable, LineInfo
<1>4. PageTypeOK'
  BY <1>1, <1>3 DEF PageTypeOK, shown, history, DirText
<1>5. Phases'
  <2> SUFFICES ASSUME mine # NoSet
               PROVE  mine.name \in Typeable /\ mine.dir \in Options /\ AllShown'
    BY <1>1 DEF Phases, history
  <2>1. GetDone /\ mine.name \in Typeable /\ mine.dir \in Options
    BY <1>1 DEF Phases, SetGoing, SetDone, Getting, AllShown, Quiet
  <2>2. answered' = {} /\ asked' = {} /\ a.info = bus_cur_line_info
    BY <1>1, <2>1 DEF GetDone
  <2>3. ServerHas' /\ bus_cur_line_info' = bus_cur_line_info
    BY <1>1, <2>1 DEF GetDone, ServerHas, history, vars
  <2>4. ASSUME mine.name # NoName, mine.chosen, bus_cur_line_info.whole
        PROVE  dir_info' = mine.dir
    <3>1. a.info # NoInfo /\ a.info.cur_dec = mine.dir
      BY <2>1, <2>2, <2>4 DEF GetDone, ServerHas
    <3> QED
      BY <1>3, <2>1, <2>2, <2>4, <3>1, ConfigPageAssumption DEF DirText
  <2> QED
    BY <1>1, <1>3, <2>1, <2>2, <2>3, <2>4 DEF AllShown, Quiet, history
<1>6. TypedInBox' /\ ChosenInBox'
  BY <1>1 DEF history, TypedInBox, ChosenInBox, Quiet
<1> QED
  BY <1>2, <1>4, <1>5, <1>6

LEMMA OthersKeep ==
    ASSUME PageInv, Others
    PROVE  PageInv'
<1> USE DEF PageInv, Others, form, shown, calls
<1>1. IInv'
  BY NextIInv
<1>2. PageTypeOK' /\ Phases'
  BY DEF PageTypeOK, Phases
<1>3. TypedInBox' /\ ChosenInBox'
  BY DEF TypedInBox, ChosenInBox, Quiet
<1> QED
  BY <1>1, <1>2, <1>3

LEMMA LoseKeeps ==
    ASSUME PageInv, Lose
    PROVE  PageInv'
<1> USE DEF PageInv
<1>1. /\ asked' \subseteq asked /\ answered' \subseteq answered /\ ~Quiet
      /\ mine' = NoSet /\ UNCHANGED <<vars, form, shown, typed, hasty>>
  BY DEF Lose, Quiet
<1>2. IInv'
  BY <1>1, ServerStays
<1>3. PageTypeOK' /\ Phases'
  BY <1>1 DEF PageTypeOK, Phases, form, shown
<1>4. TypedInBox' /\ ChosenInBox'
  BY <1>1 DEF TypedInBox, ChosenInBox, form, shown
<1> QED
  BY <1>2, <1>3, <1>4

THEOREM PageStepInv == PageInv /\ [PageNext]_<<vars, pageVars>> => PageInv'
<1> SUFFICES ASSUME PageInv, [PageNext]_<<vars, pageVars>> PROVE PageInv'
  OBVIOUS
<1>1. CASE UNCHANGED <<vars, pageVars>>
  <2>1. IInv'
    BY <1>1, ServerStays DEF PageInv
  <2>2. PageTypeOK' /\ TypedInBox' /\ ChosenInBox'
    BY <1>1 DEF PageInv, PageTypeOK, TypedInBox, ChosenInBox,
                Quiet, pageVars, form, shown, calls, history
  <2>3. Phases'
    BY <1>1 DEF PageInv, Phases, SetGoing, SetDone, Getting, GetDone, AllShown,
                ServerHas, Quiet, vars, pageVars, shown, calls, history
  <2> QED
    BY <2>1, <2>2, <2>3 DEF PageInv
<1>2. CASE PageNext
  BY <1>2, TypeNameKeeps, ChooseDirectionKeeps, CommitKeeps, ShowKeeps, HandleKeeps,
     SetAnswerKeeps, GetAnswerKeeps, OthersKeep, LoseKeeps DEF PageNext
<1> QED
  BY <1>1, <1>2

-----------------------------------------------------------------------------
(* The page's variables, and the calls under way, keep their shapes.       *)
THEOREM PageTypeCorrect == PageSpec => []PageTypeOK
<1>1. PageInv => PageTypeOK
  BY DEF PageInv
<1> QED
  BY PageInitInv, PageStepInv, <1>1, PTL DEF PageSpec

(* A set that nothing interferes with ends with the page showing what the  *)
(* driver typed and chose, as the server holds it (config_commit).         *)
THEOREM SetAlwaysShown == PageSpec => []SetIsShown
<1>1. PageInv => SetIsShown
  <2> SUFFICES ASSUME PageInv, mine # NoSet, Quiet PROVE SetIsShown
    BY DEF SetIsShown
  <2>1. AllShown
    BY DEF PageInv, Phases, SetGoing, SetDone, Getting, GetDone, Quiet
  <2> QED
    BY <2>1 DEF AllShown, ServerHas, SetIsShown
<1> QED
  BY PageInitInv, PageStepInv, <1>1, PTL DEF PageSpec

-----------------------------------------------------------------------------
(***************************************************************************)
(* BusTrip: a bus that reports its stops, over BusConfig.                  *)
(***************************************************************************)

(* What a retry may send again: the report of the stop the bus is at.      *)
LastFits ==
    /\ leg = "at" => \/ last = <<pos, BUS_STATUS_IN_STATION>>
                     \/ pos = 0 /\ last = <<0, BUS_STATUS_BEGIN>>
    /\ leg = "leaving" => last = <<pos, BUS_STATUS_OUTBOUND>> /\ pos < Destination
    /\ leg = "toward" => last = <<pos, BUS_STATUS_INBOUND>> /\ pos > 0
    /\ leg = "ended" => last = <<pos, BUS_STATUS_TERMINAL>>

Unconfigured ==
    bus_num = NoName /\ bus_derection = 0 /\ bus_cur_line_info = NoInfo

StatusArray == bus_sta_status \in [Stations -> Int]

TripInv == TripTypeOK /\ LastFits /\ StatusArray /\ Unconfigured /\ BehindPassed

LEMMA Sizes ==
    /\ BUS_STA_MX_COUNT \in Nat /\ LineLength \in Nat
    /\ Destination \in Nat /\ Destination < BUS_STA_MX_COUNT
    /\ 0 .. Destination \subseteq Stations
    /\ Stations \subseteq Int
  BY StationsAssumption, LineLengthAssumption DEF Destination, Stations

(* A report the reporter may send is accepted, stays inside the array and  *)
(* changes it as StatusStored says.                                        *)
LEMMA DeliveredReport ==
    ASSUME StatusArray, Unconfigured,
           NEW s \in 0 .. Destination, NEW status \in 1 .. BUS_STATUS_MAX - 1,
           status = BUS_STATUS_OUTBOUND => s < Destination,
           StaStatusSet(s, status)
    PROVE  StatusStored(s, status) /\ StatusArray' /\ Unconfigured'
<1>1. Accepted(s, status) /\ ~PastEnd(s, status)
  BY Sizes DEF Accepted, PastEnd
<1>2. StatusStored(s, status) /\ UNCHANGED lineVars
  BY <1>1 DEF StaStatusSet, set_bus_config_bus_driving_data
<1>3. Unconfigured'
  BY <1>2 DEF Unconfigured, lineVars
<1>4. ASSUME NEW v \in Int, bus_sta_status' = Filled(v)
      PROVE  StatusArray'
  <2>1. Bytes(v) \in Int
    BY DEF Bytes
  <2> QED
    BY <1>4, <2>1 DEF Filled, StatusArray
<1>9. StatusArray'
  <2>1. CASE status = BUS_STATUS_TERMINAL
    BY <1>2, <1>4, <2>1 DEF StatusStored
  <2>2. CASE status = BUS_STATUS_BEGIN
    BY <1>2, <1>4, <2>2 DEF StatusStored
  <2>3. CASE status = BUS_STATUS_IN_STATION
    BY <1>2, <2>3 DEF StatusStored, StatusArray
  <2>4. CASE status = BUS_STATUS_INBOUND
    <3>1. bus_sta_status' = [x \in Stations |->
              IF x = s THEN STA_INBOUND
              ELSE IF x = s - 1 THEN STA_PASSED ELSE bus_sta_status[x]]
      BY <1>2, <2>4 DEF StatusStored
    <3> QED
      BY <3>1 DEF StatusArray
  <2>5. CASE status = BUS_STATUS_OUTBOUND
    <3>1. bus_sta_status' = [x \in Stations |->
              IF x = s THEN STA_OUTBOUND
              ELSE IF x = s + 1 THEN STA_INBOUND ELSE bus_sta_status[x]]
      BY <1>2, <2>5 DEF StatusStored
    <3> QED
      BY <3>1 DEF StatusArray
  <2> QED
    BY <2>1, <2>2, <2>3, <2>4, <2>5
<1> QED
  BY <1>2, <1>3, <1>9

(* Reports other than BEGIN and TERMINAL about station p leave the         *)
(* stations behind it alone, but for p - 1, which INBOUND marks passed.    *)
LEMMA BehindKept ==
    ASSUME StatusArray,
           NEW p \in 0 .. Destination, NEW status \in 1 .. BUS_STATUS_MAX - 1,
           status \in {BUS_STATUS_IN_STATION, BUS_STATUS_INBOUND, BUS_STATUS_OUTBOUND},
           StatusStored(p, status)
    PROVE  /\ \A s \in 1 .. p - 1 :
                 bus_sta_status'[s - 1] = bus_sta_status[s - 1]
           /\ p > 0 => bus_sta_status'[p - 1] =
                 IF status = BUS_STATUS_INBOUND THEN STA_PASSED
                 ELSE bus_sta_status[p - 1]
<1>1. \A s \in 1 .. p : s - 1 \in Stations /\ s - 1 # p /\ s - 1 # p + 1
  BY Sizes
<1>2. p \in Stations
  BY Sizes
<1>3. CASE status = BUS_STATUS_IN_STATION
  <2>1. bus_sta_status' = [bus_sta_status EXCEPT ![p] = STA_IN_STA]
    BY <1>3 DEF StatusStored
  <2> QED
    BY <1>1, <1>2, <1>3, <2>1, Sizes DEF StatusArray
<1>4. CASE status = BUS_STATUS_INBOUND
  <2>1. bus_sta_status' = [s \in Stations |->
            IF s = p THEN STA_INBOUND
            ELSE IF s = p - 1 THEN STA_PASSED ELSE bus_sta_status[s]]
    BY <1>4 DEF StatusStored
  <2> QED
    BY <1>1, <1>2, <1>4, <2>1, Sizes DEF StatusArray
<1>5. CASE status = BUS_STATUS_OUTBOUND
  <2>1. bus_sta_status' = [s \in Stations |->
            IF s = p THEN STA_OUTBOUND
            ELSE IF s = p + 1 THEN STA_INBOUND ELSE bus_sta_status[s]]
    BY <1>5 DEF StatusStored
  <2> QED
    BY <1>1, <1>2, <1>5, <2>1, Sizes DEF StatusArray
<1> QED
  BY <1>3, <1>4, <1>5

LEMMA TripInitInv == TripInit => TripInv
<1> SUFFICES ASSUME TripInit PROVE TripInv
  OBVIOUS
<1>1. TripTypeOK /\ LastFits
  BY Sizes DEF TripInit, TripTypeOK, LastFits
<1>2. bus_sta_status = [s \in Stations |-> 0] /\ Unconfigured
  BY DEF TripInit, Init, Unconfigured
<1>3. StatusArray
  BY <1>2 DEF StatusArray
<1>4. BehindPassed
  BY DEF TripInit, BehindPassed
<1> QED
  BY <1>1, <1>2, <1>3, <1>4 DEF TripInv

(* One report, delivered or lost, at the station the bus is now at.        *)
LEMMA ReportKeepsArray ==
    ASSUME StatusArray, Unconfigured, unheard \in SUBSET (0 .. Destination),
           pos' \in 0 .. Destination, NEW status \in 1 .. BUS_STATUS_MAX - 1,
           status = BUS_STATUS_OUTBOUND => pos' < Destination,
           Report(status)
    PROVE  /\ StatusArray' /\ Unconfigured' /\ last' = <<pos', status>>
           /\ lossy' = lossy
           /\ unheard' \in SUBSET (0 .. Destination)
           /\ \/ /\ StatusStored(pos', status)
                 /\ unheard' = Unheard(pos', status, TRUE)
              \/ /\ bus_sta_status' = bus_sta_status
                 /\ unheard' = Unheard(pos', status, FALSE)
<1>1. last' = <<pos', status>> /\ lossy' = lossy
  BY DEF Report
<1>2. CASE StaStatusSet(pos', status) /\ unheard' = Unheard(pos', status, TRUE)
  <2>1. StatusStored(pos', status) /\ StatusArray' /\ Unconfigured'
    BY <1>2, DeliveredReport
  <2>2. unheard' \in SUBSET (0 .. Destination)
    BY <1>2 DEF Unheard
  <2> QED
    BY <1>1, <1>2, <2>1, <2>2
<1>3. CASE UNCHANGED vars /\ unheard' = Unheard(pos', status, FALSE)
  <2>1. StatusArray' /\ Unconfigured' /\ bus_sta_status' = bus_sta_status
    BY <1>3 DEF vars, StatusArray, Unconfigured
  <2>2. unheard' \in SUBSET (0 .. Destination)
    BY <1>3 DEF Unheard
  <2> QED
    BY <1>1, <1>3, <2>1, <2>2
<1> QED
  BY <1>2, <1>3 DEF Report

LEMMA TripStepInv == TripInv /\ [TripNext]_allVars => TripInv'
<1> SUFFICES ASSUME TripInv, [TripNext]_allVars PROVE TripInv'
  OBVIOUS
<1> USE Sizes DEF TripInv, TripTypeOK
<1>1. CASE Begin
  <2>1. leg' = "at" /\ pos' = 0 /\ Report(BUS_STATUS_BEGIN)
    BY <1>1 DEF Begin
  <2>2. /\ StatusArray' /\ Unconfigured' /\ last' = <<0, BUS_STATUS_BEGIN>> /\ lossy' = lossy
        /\ unheard' \in SUBSET (0 .. Destination)
    <3>1. pos' \in 0 .. Destination /\ BUS_STATUS_BEGIN \in 1 .. BUS_STATUS_MAX - 1
      BY <2>1
    <3> QED
      BY <2>1, <3>1, ReportKeepsArray DEF Unheard
  <2>3. LastFits'
    BY <2>1, <2>2 DEF LastFits
  <2>4. BehindPassed'
    BY <2>1 DEF BehindPassed
  <2> QED
    BY <2>1, <2>2, <2>3, <2>4
<1>2. CASE Leave
  <2>1. /\ leg = "at" /\ leg' = "leaving" /\ pos' = pos /\ pos < Destination
        /\ Report(BUS_STATUS_OUTBOUND)
    BY <1>2 DEF Leave
  <2>2. /\ StatusArray' /\ Unconfigured' /\ last' = <<pos, BUS_STATUS_OUTBOUND>> /\ lossy' = lossy
        /\ unheard' \in SUBSET (0 .. Destination)
        /\ unheard' = unheard
        /\ StatusStored(pos, BUS_STATUS_OUTBOUND) \/ bus_sta_status' = bus_sta_status
    BY <2>1, ReportKeepsArray DEF Unheard
  <2>3. LastFits'
    BY <2>1, <2>2 DEF LastFits
  <2>4. \A s \in 1 .. pos : bus_sta_status'[s - 1] = bus_sta_status[s - 1]
    BY <2>2, BehindKept
  <2>5. BehindPassed'
    BY <2>1, <2>2, <2>4 DEF BehindPassed
  <2> QED
    BY <2>1, <2>2, <2>3, <2>5
<1>3. CASE Approach
  <2>1. /\ leg = "leaving" /\ leg' = "toward" /\ pos' = pos + 1
        /\ Report(BUS_STATUS_INBOUND) /\ pos < Destination
    BY <1>3 DEF Approach, LastFits
  <2>2. /\ StatusArray' /\ Unconfigured' /\ last' = <<pos', BUS_STATUS_INBOUND>> /\ lossy' = lossy
        /\ unheard' \in SUBSET (0 .. Destination)
        /\ \/ /\ StatusStored(pos', BUS_STATUS_INBOUND)
              /\ unheard' = unheard \ {pos'}
           \/ /\ bus_sta_status' = bus_sta_status
              /\ unheard' = unheard \cup {pos'}
    BY <2>1, ReportKeepsArray DEF Unheard
  <2>3. LastFits'
    BY <2>1, <2>2 DEF LastFits
  <2>4. ASSUME StatusStored(pos', BUS_STATUS_INBOUND)
        PROVE  /\ \A s \in 1 .. pos : bus_sta_status'[s - 1] = bus_sta_status[s - 1]
               /\ bus_sta_status'[pos' - 1] = STA_PASSED
    BY <2>1, <2>4, BehindKept
  <2>5. BehindPassed'
    BY <2>1, <2>2, <2>4 DEF BehindPassed
  <2> QED
    BY <2>1, <2>2, <2>3, <2>5
<1>4. CASE Arrive
  <2>1. /\ leg = "toward" /\ leg' = "at" /\ pos' = pos
        /\ Report(BUS_STATUS_IN_STATION)
    BY <1>4 DEF Arrive
  <2>2. /\ StatusArray' /\ Unconfigured' /\ last' = <<pos, BUS_STATUS_IN_STATION>> /\ lossy' = lossy
        /\ unheard' \in SUBSET (0 .. Destination)
        /\ unheard' = unheard
        /\ StatusStored(pos, BUS_STATUS_IN_STATION) \/ bus_sta_status' = bus_sta_status
    BY <2>1, ReportKeepsArray DEF Unheard
  <2>3. LastFits'
    <3>1. leg' = "at" /\ last' = <<pos', BUS_STATUS_IN_STATION>>
      BY <2>1, <2>2
    <3>2. leg' # "leaving" /\ leg' # "toward" /\ leg' # "ended"
      BY <3>1
    <3> QED
      BY <3>1, <3>2 DEF LastFits
  <2>4. \A s \in 1 .. pos : bus_sta_status'[s - 1] = bus_sta_status[s - 1]
    BY <2>2, BehindKept
  <2>5. BehindPassed'
    BY <2>1, <2>2, <2>4 DEF BehindPassed
  <2> QED
    BY <2>1, <2>2, <2>3, <2>5
<1>5. CASE Finish
  <2>1. leg' = "ended" /\ pos' = pos /\ Report(BUS_STATUS_TERMINAL)
    BY <1>5 DEF Finish
  <2>2. /\ StatusArray' /\ Unconfigured' /\ last' = <<pos, BUS_STATUS_TERMINAL>> /\ lossy' = lossy
        /\ unheard' \in SUBSET (0 .. Destination)
    <3>1. pos' \in 0 .. Destination /\ BUS_STATUS_TERMINAL \in 1 .. BUS_STATUS_MAX - 1
      BY <2>1
    <3> QED
      BY <2>1, <3>1, ReportKeepsArray DEF Unheard
  <2>3. LastFits'
    BY <2>1, <2>2 DEF LastFits
  <2>4. BehindPassed'
    BY <2>1 DEF BehindPassed
  <2> QED
    BY <2>1, <2>2, <2>3, <2>4
<1>6. CASE Retry
  <2>1. /\ StaStatusSet(last[1], last[2]) /\ UNCHANGED <<leg, pos, last, lossy>>
        /\ unheard' = Unheard(last[1], last[2], TRUE)
    BY <1>6 DEF Retry
  <2>2. /\ last[1] \in 0 .. Destination /\ last[2] \in 1 .. BUS_STATUS_MAX - 1
        /\ last[2] = BUS_STATUS_OUTBOUND => last[1] < Destination
    BY DEF LastFits
  <2>3. StatusStored(last[1], last[2]) /\ StatusArray' /\ Unconfigured'
    BY <2>1, <2>2, DeliveredReport
  <2>4. unheard' \in SUBSET (0 .. Destination)
    BY <2>1 DEF Unheard
  <2>5. TripTypeOK' /\ LastFits'
    BY <2>1, <2>4 DEF LastFits
  <2>6. BehindPassed'
    <3>1. CASE leg = "ended" \/ last[2] = BUS_STATUS_BEGIN
      <4>1. leg = "ended" \/ pos = 0
        BY <3>1 DEF LastFits
      <4> QED
        BY <2>1, <4>1 DEF BehindPassed
    <3>2. CASE leg # "ended" /\ last[2] # BUS_STATUS_BEGIN
      <4>1. /\ last[1] = pos
            /\ last[2] \in {BUS_STATUS_IN_STATION, BUS_STATUS_INBOUND,
                            BUS_STATUS_OUTBOUND}
        BY <3>2 DEF LastFits
      <4>2. /\ \A s \in 1 .. pos - 1 :
                  bus_sta_status'[s - 1] = bus_sta_status[s - 1]
            /\ pos > 0 => bus_sta_status'[pos - 1] =
                  IF last[2] = BUS_STATUS_INBOUND THEN STA_PASSED
                  ELSE bus_sta_status[pos - 1]
        BY <2>2, <2>3, <4>1, BehindKept
      <4>3. unheard' = IF last[2] = BUS_STATUS_INBOUND
                       THEN unheard \ {pos} ELSE unheard
        BY <2>1, <3>2, <4>1 DEF Unheard
      <4>4. ASSUME NEW s \in 1 .. pos, s \notin unheard'
            PROVE  bus_sta_status'[s - 1] = STA_PASSED
        <5>1. CASE s = pos
          BY <3>2, <4>2, <4>3, <4>4, <5>1 DEF BehindPassed
        <5>2. CASE s # pos
          <6>1. s \in 1 .. pos - 1 /\ s \notin unheard
            BY <4>3, <4>4, <5>2
          <6> QED
            BY <3>2, <4>2, <6>1 DEF BehindPassed
        <5> QED
          BY <5>1, <5>2
      <4> QED
        BY <2>1, <4>4 DEF BehindPassed
    <3> QED
      BY <3>1, <3>2
  <2> QED
    BY <2>3, <2>5, <2>6
<1>7. CASE ServerRestart
  <2>1. Restart /\ unheard' = 0 .. pos /\ UNCHANGED <<leg, pos, last, lossy>>
    BY <1>7 DEF ServerRestart
  <2>2. bus_sta_status' = [s \in Stations |-> 0] /\ Unconfigured'
    BY <2>1 DEF Restart, Unconfigured
  <2>3. StatusArray'
    BY <2>2 DEF StatusArray
  <2>4. TripTypeOK' /\ LastFits' /\ BehindPassed'
    BY <2>1 DEF LastFits, BehindPassed
  <2> QED
    BY <2>2, <2>3, <2>4
<1>8. CASE UNCHANGED allVars
  BY <1>8 DEF allVars, tripVars, vars, LastFits, StatusArray, Unconfigured, BehindPassed
<1> QED
  BY <1>1, <1>2, <1>3, <1>4, <1>5, <1>6, <1>7, <1>8 DEF TripNext

THEOREM TripInvariant == TripSpec => []TripInv
  BY TripInitInv, TripStepInv, PTL DEF TripSpec

(* The bus stays on its line and its state keeps its shape.                *)
THEOREM TripTypeCorrect == TripSpec => []TripTypeOK
<1>1. TripInv => TripTypeOK
  BY DEF TripInv
<1> QED
  BY <1>1, TripInvariant, PTL

(* Every station the bus left behind is shown as passed once the approach  *)
(* to the next one was heard, whatever else is lost or repeated.           *)
THEOREM StationsBehindPassed == TripSpec => []BehindPassed
<1>1. TripInv => BehindPassed
  BY DEF TripInv
<1> QED
  BY <1>1, TripInvariant, PTL

(* A trip on any line that fits the array leaves the line configuration    *)
(* as it is, also when the line uses every entry.                          *)
THEOREM TripLeavesLine == TripSpec => TripKeepsLine
<1>1. TripInv /\ TripInv' => [lineVars' = lineVars]_lineVars
  BY DEF TripInv, Unconfigured, lineVars
<1> QED
  BY <1>1, TripInvariant, PTL DEF TripKeepsLine

-----------------------------------------------------------------------------
(* BusTrip implements TripBoard.  What an entry says is decided by that     *)
(* entry alone, so a report that changes a few entries is judged on those.  *)
LEMMA Said ==
    /\ StationsShown \in [0 .. Destination -> TripBoardShown!Words]
    /\ StationsShown' \in [0 .. Destination -> TripBoardShown!Words]
    /\ \A s \in 0 .. Destination :
           /\ bus_sta_status'[s] = bus_sta_status[s] => StationsShown'[s] = StationsShown[s]
           /\ bus_sta_status'[s] = STA_PASSED => StationsShown'[s] = "passed"
           /\ bus_sta_status'[s] = STA_IN_STA => StationsShown'[s] = "in"
           /\ bus_sta_status'[s] = STA_INBOUND => StationsShown'[s] = "inbound"
           /\ bus_sta_status'[s] = STA_OUTBOUND => StationsShown'[s] = "outbound"
           /\ bus_sta_status'[s] \in {0, Bytes(STA_PASSED), Bytes(STA_NOT_REACH)} =>
                  StationsShown'[s] = "none"
<1>1. \A s \in 0 .. Destination : ShownOf(s) \in TripBoardShown!Words
  BY DEF ShownOf, TripBoardShown!Words
<1>2. \A s \in 0 .. Destination : ShownOf(s)' \in TripBoardShown!Words
  BY DEF ShownOf, TripBoardShown!Words
<1>3. \A s \in 0 .. Destination :
          StationsShown[s] = ShownOf(s) /\ StationsShown'[s] = ShownOf(s)'
  BY DEF StationsShown
<1>4. ASSUME NEW s \in 0 .. Destination
      PROVE  /\ bus_sta_status'[s] = bus_sta_status[s] => ShownOf(s)' = ShownOf(s)
             /\ bus_sta_status'[s] = STA_PASSED => ShownOf(s)' = "passed"
             /\ bus_sta_status'[s] = STA_IN_STA => ShownOf(s)' = "in"
             /\ bus_sta_status'[s] = STA_INBOUND => ShownOf(s)' = "inbound"
             /\ bus_sta_status'[s] = STA_OUTBOUND => ShownOf(s)' = "outbound"
             /\ bus_sta_status'[s] \in {0, Bytes(STA_PASSED), Bytes(STA_NOT_REACH)} =>
                    ShownOf(s)' = "none"
  BY DEF ShownOf, Bytes, STA_PASSED, STA_IN_STA, STA_INBOUND, STA_OUTBOUND, STA_NOT_REACH
<1>5. StationsShown \in [0 .. Destination -> TripBoardShown!Words]
  BY <1>1 DEF StationsShown
<1>6. StationsShown' \in [0 .. Destination -> TripBoardShown!Words]
  BY <1>2 DEF StationsShown
<1> QED
  BY <1>3, <1>4, <1>5, <1>6

(* A report of a stop of the trip is heard as it is: the entries it writes *)
(* are those of the stop and of one neighbour, whose state it implies.     *)
LEMMA StopHeard ==
    ASSUME StatusArray, pos' \in 0 .. Destination, NEW status,
           StatusStored(pos', status),
           \/ status = BUS_STATUS_IN_STATION /\ leg' = "at"
           \/ status = BUS_STATUS_INBOUND /\ leg' = "toward"
           \/ status = BUS_STATUS_OUTBOUND /\ leg' = "leaving"
    PROVE  TripBoardShown!Heard
<1>0. /\ pos' \in Stations /\ pos' \in Nat
      /\ \A s \in 0 .. Destination : s \in Stations /\ s \in Nat
  BY Sizes
<1> DEFINE Now(s) == TripBoardShown!True(leg', pos', s)
<1>1. StationsShown'[pos'] = Now(pos')
      /\ \A s \in 0 .. Destination : StationsShown'[s] \in {StationsShown[s], Now(s)}
  <2>1. CASE status = BUS_STATUS_IN_STATION /\ leg' = "at"
    <3>1. bus_sta_status' = [bus_sta_status EXCEPT ![pos'] = STA_IN_STA]
      BY <2>1 DEF StatusStored
    <3>2. /\ bus_sta_status'[pos'] = STA_IN_STA
          /\ \A s \in 0 .. Destination : s # pos' => bus_sta_status'[s] = bus_sta_status[s]
      BY <1>0, <3>1 DEF StatusArray
    <3>3. Now(pos') = "in"
      BY <1>0, <2>1 DEF TripBoardShown!True
    <3> QED
      BY <3>2, <3>3, Said
  <2>2. CASE status = BUS_STATUS_INBOUND /\ leg' = "toward"
    <3>1. bus_sta_status' = [s \in Stations |->
              IF s = pos' THEN STA_INBOUND
              ELSE IF s = pos' - 1 THEN STA_PASSED ELSE bus_sta_status[s]]
      BY <2>2 DEF StatusStored
    <3>2. /\ bus_sta_status'[pos'] = STA_INBOUND
          /\ \A s \in 0 .. Destination : s = pos' - 1 => bus_sta_status'[s] = STA_PASSED
          /\ \A s \in 0 .. Destination :
                 s # pos' /\ s # pos' - 1 => bus_sta_status'[s] = bus_sta_status[s]
      <4>1. \A s \in Stations : bus_sta_status'[s] =
                IF s = pos' THEN STA_INBOUND
                ELSE IF s = pos' - 1 THEN STA_PASSED ELSE bus_sta_status[s]
        BY <3>1
      <4>2. \A x \in Nat : x # x - 1
        OBVIOUS
      <4> QED
        BY <1>0, <4>1, <4>2
    <3>3. /\ Now(pos') = "inbound"
          /\ \A s \in 0 .. Destination : s = pos' - 1 => Now(s) = "passed"
      BY <1>0, <2>2 DEF TripBoardShown!True
    <3> QED
      BY <3>2, <3>3, Said
  <2>3. CASE status = BUS_STATUS_OUTBOUND /\ leg' = "leaving"
    <3>1. bus_sta_status' = [s \in Stations |->
              IF s = pos' THEN STA_OUTBOUND
              ELSE IF s = pos' + 1 THEN STA_INBOUND ELSE bus_sta_status[s]]
      BY <2>3 DEF StatusStored
    <3>2. /\ bus_sta_status'[pos'] = STA_OUTBOUND
          /\ \A s \in 0 .. Destination : s = pos' + 1 => bus_sta_status'[s] = STA_INBOUND
          /\ \A s \in 0 .. Destination :
                 s # pos' /\ s # pos' + 1 => bus_sta_status'[s] = bus_sta_status[s]
      <4>1. \A s \in Stations : bus_sta_status'[s] =
                IF s = pos' THEN STA_OUTBOUND
                ELSE IF s = pos' + 1 THEN STA_INBOUND ELSE bus_sta_status[s]
        BY <3>1
      <4>2. \A x \in Nat : x # x + 1
        OBVIOUS
      <4> QED
        BY <1>0, <4>1, <4>2
    <3>3. /\ Now(pos') = "outbound"
          /\ \A s \in 0 .. Destination : s = pos' + 1 => Now(s) = "inbound"
      BY <1>0, <2>3 DEF TripBoardShown!True
    <3> QED
      BY <3>2, <3>3, Said
  <2> QED
    BY <2>1, <2>2, <2>3
<1> QED
  BY <1>1, Said DEF TripBoardShown!Heard, TripBoardShown!Stops

(* BEGIN and TERMINAL leave an entry as it was or make it say nothing.     *)
LEMMA EndTakesBack ==
    ASSUME NEW status, NEW p, StatusStored(p, status), pos' \in 0 .. Destination,
           status \in {BUS_STATUS_BEGIN, BUS_STATUS_TERMINAL},
           leg' = "ended" \/ (leg' = "at" /\ pos' = 0)
    PROVE  TripBoardShown!TakenBack
<1>1. bus_sta_status' = Filled(STA_PASSED) \/ bus_sta_status' = Filled(STA_NOT_REACH)
  BY DEF StatusStored
<1>2. \A s \in 0 .. Destination :
          bus_sta_status'[s] \in {bus_sta_status[s], Bytes(STA_PASSED), Bytes(STA_NOT_REACH)}
  BY <1>1, Sizes DEF Filled
<1>3. \A s \in 0 .. Destination : StationsShown'[s] \in {StationsShown[s], "none"}
  BY <1>2, Said
<1> QED
  BY <1>3, Said DEF TripBoardShown!TakenBack, TripBoardShown!Stops

LEMMA BoardStart == TripInit => TripBoardShown!BoardInit
<1> SUFFICES ASSUME TripInit PROVE TripBoardShown!BoardInit
  OBVIOUS
<1>1. bus_sta_status = [s \in Stations |-> 0] /\ leg = "ended" /\ pos = 0
  BY DEF TripInit, Init
<1>2. \A s \in 0 .. Destination : ShownOf(s) = "none"
  BY <1>1, Sizes DEF ShownOf
<1> QED
  BY <1>1, <1>2 DEF StationsShown, TripBoardShown!BoardInit, TripBoardShown!Stops

BoardStep ==
    \/ TripBoardShown!Heard \/ TripBoardShown!Missed
    \/ TripBoardShown!TakenBack \/ TripBoardShown!Dark

LEMMA Unchanged ==
    ASSUME UNCHANGED bus_sta_status
    PROVE  TripBoardShown!Missed /\ UNCHANGED StationsShown
  BY DEF StationsShown, ShownOf, TripBoardShown!Missed

(* A report sent for the first time is heard, takes back, or is missed.    *)
LEMMA ReportOnBoard ==
    ASSUME StatusArray, Unconfigured, pos' \in 0 .. Destination,
           NEW status \in 1 .. BUS_STATUS_MAX - 1, Report(status),
           status = BUS_STATUS_OUTBOUND => pos' < Destination,
           \/ status = BUS_STATUS_IN_STATION /\ leg' = "at"
           \/ status = BUS_STATUS_INBOUND /\ leg' = "toward"
           \/ status = BUS_STATUS_OUTBOUND /\ leg' = "leaving"
           \/ status = BUS_STATUS_TERMINAL /\ leg' = "ended"
           \/ status = BUS_STATUS_BEGIN /\ leg' = "at" /\ pos' = 0
    PROVE  BoardStep
<1>1. CASE StaStatusSet(pos', status)
  <2>1. StatusStored(pos', status)
    BY <1>1, DeliveredReport
  <2>2. CASE status \in {BUS_STATUS_BEGIN, BUS_STATUS_TERMINAL}
    BY <2>1, <2>2, EndTakesBack DEF BoardStep
  <2>3. CASE status \notin {BUS_STATUS_BEGIN, BUS_STATUS_TERMINAL}
    BY <2>1, <2>3, StopHeard DEF BoardStep
  <2> QED
    BY <2>2, <2>3
<1>2. CASE UNCHANGED vars
  BY <1>2, Unchanged DEF vars, BoardStep
<1> QED
  BY <1>1, <1>2 DEF Report

LEMMA TripStepOnBoard ==
    TripInv /\ TripInv' /\ [TripNext]_allVars =>
        BoardStep \/ UNCHANGED <<leg, pos, StationsShown>>
<1> SUFFICES ASSUME TripInv, TripInv', TripNext PROVE BoardStep
  BY Unchanged DEF allVars, tripVars, vars
<1>0. /\ StatusArray /\ Unconfigured /\ LastFits /\ TripTypeOK
      /\ pos \in 0 .. Destination /\ pos' \in 0 .. Destination
  BY DEF TripInv, TripTypeOK
<1>1. CASE Begin
  BY <1>0, <1>1, ReportOnBoard DEF Begin
<1>2. CASE Leave
  BY <1>0, <1>2, ReportOnBoard DEF Leave
<1>3. CASE Approach
  BY <1>0, <1>3, ReportOnBoard DEF Approach
<1>4. CASE Arrive
  BY <1>0, <1>4, ReportOnBoard DEF Arrive
<1>5. CASE Finish
  BY <1>0, <1>5, ReportOnBoard DEF Finish
<1>6. CASE Retry
  <2>1. StaStatusSet(last[1], last[2]) /\ UNCHANGED <<leg, pos, last>>
    BY <1>6 DEF Retry
  <2>2. /\ last[1] = pos' /\ last[2] \in 1 .. BUS_STATUS_MAX - 1
        /\ last[2] = BUS_STATUS_OUTBOUND => pos' < Destination
        /\ \/ last[2] = BUS_STATUS_IN_STATION /\ leg' = "at"
           \/ last[2] = BUS_STATUS_INBOUND /\ leg' = "toward"
           \/ last[2] = BUS_STATUS_OUTBOUND /\ leg' = "leaving"
           \/ last[2] = BUS_STATUS_TERMINAL /\ leg' = "ended"
           \/ last[2] = BUS_STATUS_BEGIN /\ leg' = "at" /\ pos' = 0
    BY <1>0, <2>1 DEF TripTypeOK, LastFits
  <2>3. StatusStored(pos', last[2])
    BY <1>0, <2>1, <2>2, DeliveredReport
  <2>4. CASE last[2] \in {BUS_STATUS_BEGIN, BUS_STATUS_TERMINAL}
    BY <1>0, <2>2, <2>3, <2>4, EndTakesBack DEF BoardStep
  <2>5. CASE last[2] \notin {BUS_STATUS_BEGIN, BUS_STATUS_TERMINAL}
    BY <1>0, <2>2, <2>3, <2>5, StopHeard DEF BoardStep
  <2> QED
    BY <2>4, <2>5
<1>7. CASE ServerRestart
  <2>1. bus_sta_status' = [s \in Stations |-> 0]
    BY <1>7 DEF ServerRestart, Restart
  <2>2. \A s \in 0 .. Destination : ShownOf(s)' = "none"
    BY <2>1, Sizes DEF ShownOf
  <2> QED
    BY <2>2 DEF BoardStep, StationsShown, TripBoardShown!Dark, TripBoardShown!Stops
<1> QED
  BY <1>1, <1>2, <1>3, <1>4, <1>5, <1>6, <1>7 DEF TripNext

(* For every line that fits the array: whatever reports are lost or        *)
(* repeated and whenever the server restarts, what the array newly says of *)
(* a station is true of the bus.                                           *)
THEOREM TripImplementsBoard == TripSpec => ShowsTruth
<1>1. TripInit => TripBoardShown!BoardInit
  BY BoardStart
<1>2. TripInv /\ TripInv' /\ [TripNext]_allVars =>
          [TripBoardShown!Heard \/ TripBoardShown!Missed \/ TripBoardShown!TakenBack
               \/ TripBoardShown!Dark]_<<leg, pos, StationsShown>>
  BY TripStepOnBoard DEF BoardStep
<1> QED
  BY <1>1, <1>2, TripInvariant, PTL DEF TripSpec, ShowsTruth, TripBoardShown!Board
=============================================================================
