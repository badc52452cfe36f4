----------------------------- MODULE BusConfig -----------------------------
(***************************************************************************)
(* The bus_config action of the web server (webserver/rq_bus_config.c):    *)
(* which line the bus runs, in which direction, the station list cached    *)
(* for the pages, and the driving status of every station.                 *)
(*                                                                         *)
(* GoAhead calls one action handler at a time from its event loop, so a    *)
(* request is one step.  The database queries a request makes may each     *)
(* fail on their own.                                                      *)
(***************************************************************************)
EXTENDS Integers, FiniteSets

CONSTANTS
    Names,            \* line names as they fit in bus_num
    LongNames,        \* names a request may carry that do not fit
    Clip,             \* what snprintf keeps of a name: [LongNames -> Names]
    NoName,           \* the empty string
    CtrlName,         \* the string a stray write of STA_INBOUND leaves in bus_num
    Lines,            \* line names in the database
    Like,             \* <<pattern, line>> pairs the fuzzy search matches
    LongLines,        \* lines that, with all stations, do not fit in the buffer
    NoInfo,           \* bus_cur_line_info when it is too short to be served
    BUS_STA_MX_COUNT, \* entries of bus_sta_status
    Neighbours,       \* statics the build may place right after bus_sta_status
    Decs,             \* what atoi makes of line_direction
    Seqs,             \* what atoi makes of seq
    Statuses          \* what atoi makes of status

ASSUME NamesAssumption ==
    /\ Clip \in [LongNames -> Names]
    /\ LongNames \cap Names = {}
    /\ NoName \notin Names \cup LongNames
    /\ CtrlName \notin Names \cup LongNames \cup {NoName}
    /\ Lines \subseteq Names
    /\ Like \subseteq Names \X Lines
    /\ LongLines \subseteq Lines

ASSUME StationsAssumption ==
    /\ BUS_STA_MX_COUNT \in Nat \ {0}
    /\ BUS_STA_MX_COUNT % 4 = 0
    /\ Decs \subseteq Int /\ Seqs \subseteq Int /\ Statuses \subseteq Int

ASSUME NeighboursAssumption ==
    Neighbours \subseteq {"padding", "bus_num", "bus_derection",
                          "bus_cur_line_info", "bus_cur_sta"}

ASSUME NoInfoAssumption ==
    NoInfo \notin [line_name : Names, cur_dec : Nat, whole : BOOLEAN]

VARIABLES
    bus_num,           \* current line name
    bus_derection,     \* current direction
    bus_cur_line_info, \* the line rendered for the pages
    bus_sta_status,    \* status of every station
    bus_cur_sta,       \* station of the last accepted report; nothing reads it
    reply              \* what the last response said

vars == <<bus_num, bus_derection, bus_cur_line_info, bus_sta_status,
          bus_cur_sta, reply>>

lineVars   == <<bus_num, bus_derection, bus_cur_line_info>>
statusVars == <<bus_sta_status, bus_cur_sta>>

-----------------------------------------------------------------------------
(* The enumerations of rq_head.h.                                          *)

BUS_STATUS_IN_STATION == 1
BUS_STATUS_INBOUND    == 2
BUS_STATUS_OUTBOUND   == 3
BUS_STATUS_TERMINAL   == 4
BUS_STATUS_BEGIN      == 5
BUS_STATUS_MAX        == 6

STA_PASSED    == 1
STA_IN_STA    == 2
STA_INBOUND   == 3
STA_OUTBOUND  == 4
STA_NOT_REACH == 5

Stations == 0 .. BUS_STA_MX_COUNT - 1

(* A cached line: the name and direction configured when it was rendered,  *)
(* and whether its details fit in BUS_LINE_INFO_BUFF_SIZE.                 *)
LineInfo == [line_name : Names, cur_dec : Nat, whole : BOOLEAN]

(* "info" and "status" are the cached line and the status array as they    *)
(* were when the request was handled.                                      *)
Replies == {"ok", "error", "[]", "info", "status", "param error", "no param"}

Init ==
    /\ bus_num = NoName
    /\ bus_derection = 0
    /\ bus_cur_line_info = NoInfo
    /\ bus_sta_status = [s \in Stations |-> 0]
    /\ bus_cur_sta = 0
    /\ reply = "no param"

-----------------------------------------------------------------------------
(* rq_type=cur_line                                                        *)

Kept(name) == IF name \in LongNames THEN Clip[name] ELSE name

(* The exact search, then the fuzzy one; the first row is taken.           *)
LinesFound(name) == (Lines \cap {name}) \cup {l \in Lines : <<name, l>> \in Like}

(* A search of the line, or of its stations in either direction, that      *)
(* fails or finds nothing leaves its part empty.  What does not fit in the *)
(* buffer is cut off, and cached all the same.                             *)
Rendered(name, dec) ==
    {[line_name |-> name, cur_dec |-> dec, whole |-> w] :
        w \in {b \in BOOLEAN : b \/ LinesFound(name) \cap LongLines # {}}}

set_bus_config_bus_num(name) == bus_num' = Kept(name)

(* A direction that is not positive is refused, and nobody looks at the    *)
(* refusal: ret is assigned again by the update that follows.              *)
MutDirectionUnchecked(dec) == bus_derection' = dec

set_bus_config_bus_derection(dec) ==
    bus_derection' = IF dec <= 0 THEN bus_derection ELSE dec

MutRenderBeforeDirection ==
    \/ /\ bus_num' = NoName
       /\ reply' = "error"
       /\ UNCHANGED bus_cur_line_info
    \/ /\ bus_num' # NoName
       /\ reply' = "ok"
       /\ bus_cur_line_info' \in Rendered(bus_num', bus_derection)

(* The line is rendered from the name and direction just assigned.         *)
set_bus_config_bus_cur_line_info ==
    \/ /\ bus_num' = NoName
       /\ reply' = "error"
       /\ UNCHANGED bus_cur_line_info
    \/ /\ bus_num' # NoName
       /\ reply' = "ok"
       /\ bus_cur_line_info' \in Rendered(bus_num', bus_derection')

CurLineSet(name, dec) ==
    /\ set_bus_config_bus_num(name)
    /\ set_bus_config_bus_derection(dec)
    /\ set_bus_config_bus_cur_line_info
    /\ UNCHANGED statusVars

CurLineGet ==
    /\ reply' = IF bus_cur_line_info = NoInfo THEN "[]" ELSE "info"
    /\ UNCHANGED <<lineVars, statusVars>>

-----------------------------------------------------------------------------
(* rq_type=sta_status                                                      *)

(* memset writes the value into each byte of BUS_STA_MX_COUNT bytes, so    *)
(* into the four bytes of the first quarter of the entries.                *)
Bytes(v) == v * 16843009

MutFilledWords(v) == [s \in Stations |-> Bytes(v)]

Filled(v) ==
    [s \in Stations |->
        IF s < BUS_STA_MX_COUNT \div 4 THEN Bytes(v) ELSE bus_sta_status[s]]

(* bus_sta_status[BUS_STA_MX_COUNT] = STA_INBOUND lands in whichever       *)
(* static the build put there: a name or a rendered line becomes the one   *)
(* character \003.                                                         *)
WritePastEnd ==
    \E n \in Neighbours :
        /\ bus_num' = IF n = "bus_num" THEN CtrlName ELSE bus_num
        /\ bus_derection' = IF n = "bus_derection" THEN STA_INBOUND
                            ELSE bus_derection
        /\ bus_cur_line_info' = IF n = "bus_cur_line_info" THEN NoInfo
                                ELSE bus_cur_line_info
        /\ bus_cur_sta' = IF n = "bus_cur_sta" THEN STA_INBOUND
                          ELSE BUS_STA_MX_COUNT - 1

Accepted(seq, status) ==
    /\ seq >= 0 /\ seq < BUS_STA_MX_COUNT
    /\ status > 0 /\ status < BUS_STATUS_MAX

MutOwnStationOnly(seq, status) ==
    bus_sta_status' = [bus_sta_status EXCEPT ![seq] =
        <<STA_IN_STA, STA_INBOUND, STA_OUTBOUND, STA_PASSED, STA_NOT_REACH>>[status]]

MutStatusAsIs(seq, status) ==
    bus_sta_status' = [bus_sta_status EXCEPT ![seq] = status]

(* What an accepted report stores in the status array.                     *)
StatusStored(seq, status) ==
    \/ /\ status = BUS_STATUS_IN_STATION
       /\ bus_sta_status' = [bus_sta_status EXCEPT ![seq] = STA_IN_STA]
    \/ /\ status = BUS_STATUS_INBOUND
       /\ bus_sta_status' = [s \in Stations |->
              IF s = seq THEN STA_INBOUND
              ELSE IF s = seq - 1 THEN STA_PASSED ELSE bus_sta_status[s]]
    \/ /\ status = BUS_STATUS_OUTBOUND
       /\ bus_sta_status' = [s \in Stations |->
              IF s = seq THEN STA_OUTBOUND
              ELSE IF s = seq + 1 THEN STA_INBOUND ELSE bus_sta_status[s]]
    \/ status = BUS_STATUS_TERMINAL /\ bus_sta_status' = Filled(STA_PASSED)
    \/ status = BUS_STATUS_BEGIN /\ bus_sta_status' = Filled(STA_NOT_REACH)

MutPastEndInbound(seq, status) ==
    status \in {BUS_STATUS_INBOUND, BUS_STATUS_OUTBOUND}
        /\ seq + 1 = BUS_STA_MX_COUNT

(* The guard seq + 1 <= BUS_STA_MX_COUNT lets the last station through.    *)
PastEnd(seq, status) ==
    status = BUS_STATUS_OUTBOUND /\ seq + 1 = BUS_STA_MX_COUNT

set_bus_config_bus_driving_data(seq, status) ==
    /\ StatusStored(seq, status)
    /\ \/ /\ ~PastEnd(seq, status)
          /\ bus_cur_sta' = seq
          /\ UNCHANGED lineVars
       \/ /\ PastEnd(seq, status)
          /\ WritePastEnd

StaStatusSet(seq, status) ==
    \/ /\ Accepted(seq, status)
       /\ reply' = "ok"
       /\ set_bus_config_bus_driving_data(seq, status)
    \/ /\ ~Accepted(seq, status)
       /\ reply' = "error"
       /\ UNCHANGED <<lineVars, statusVars>>

StaStatusGet ==
    /\ reply' = "status"
    /\ UNCHANGED <<lineVars, statusVars>>

-----------------------------------------------------------------------------
(* Any other act or rq_type.                                               *)
Refused ==
    /\ reply' \in {"param error", "no param"}
    /\ UNCHANGED <<lineVars, statusVars>>

(* The process is started again: everything is a static, nothing is kept.  *)
Restart ==
    /\ bus_num' = NoName
    /\ bus_derection' = 0
    /\ bus_cur_line_info' = NoInfo
    /\ bus_sta_status' = [s \in Stations |-> 0]
    /\ bus_cur_sta' = 0
    /\ UNCHANGED reply

Request ==
    \/ \E name \in Names \cup LongNames \cup {NoName}, dec \in Decs :
           CurLineSet(name, dec)
    \/ CurLineGet
    \/ \E seq \in Seqs, status \in Statuses : StaStatusSet(seq, status)
    \/ StaStatusGet
    \/ Refused

Next == Request \/ Restart

Spec == Init /\ [][Next]_vars

-----------------------------------------------------------------------------
(* Every variable keeps the shape its declaration gives it.                *)
TypeOK ==
    /\ bus_num \in Names \cup {NoName, CtrlName}
    /\ bus_derection \in Nat
    /\ bus_cur_line_info \in LineInfo \cup {NoInfo}
    /\ bus_sta_status \in [Stations -> Int]
    /\ bus_cur_sta \in Int
    /\ reply \in Replies

(* Name, direction and cached line are set by one request and can only     *)
(* fall apart in two ways: a refused (empty) name keeps the old line, and  *)
(* a report for the last station may overwrite one of the three.           *)
InfoIsCurrent ==
    bus_num \in Names =>
        \/ /\ bus_cur_line_info = NoInfo
           /\ "bus_cur_line_info" \in Neighbours
        \/ /\ bus_cur_line_info # NoInfo
           /\ bus_cur_line_info.line_name = bus_num
           /\ \/ bus_cur_line_info.cur_dec = bus_derection
              \/ "bus_derection" \in Neighbours /\ bus_derection = STA_INBOUND

(* An entry is a status of the enumeration only outside the first quarter; *)
(* memset never reaches the others, so that no station is ever shown as    *)
(* STA_NOT_REACH, not even after BUS_STATUS_BEGIN.                         *)
StatusShown ==
    \A s \in Stations :
        bus_sta_status[s] \in
            {0, STA_PASSED, STA_IN_STA, STA_INBOUND, STA_OUTBOUND} \cup
            (IF s < BUS_STA_MX_COUNT \div 4
             THEN {Bytes(STA_PASSED), Bytes(STA_NOT_REACH)} ELSE {})

(* Driving reports and the line configuration share nothing: a step that   *)
(* changes both is a restart or the departure from the last station, the   *)
(* one report that writes past bus_sta_status.                             *)
ReportsLeaveLineAlone ==
    [][lineVars' # lineVars /\ statusVars' # statusVars =>
          \/ bus_sta_status'[BUS_STA_MX_COUNT - 1] = STA_OUTBOUND
          \/ bus_num' = NoName /\ bus_cur_line_info' = NoInfo]_vars
=============================================================================
