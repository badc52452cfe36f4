----------------------------- MODULE ConfigPage -----------------------------
(***************************************************************************)
(* The page that configures the line (config/bus_config_cur_line_cfg.html) *)
(* with the server it talks to (BusConfig).  The driver types a name,      *)
(* chooses a direction and stores both; the page then asks for the line    *)
(* and shows it.  Calls take any time and any order both ways, or fail,    *)
(* which nobody handles; other clients talk to the server as well.         *)
(***************************************************************************)
EXTENDS BusConfig

CONSTANTS
    Options,   \* values of the direction select, the first one selected
    NoTyped,   \* nothing was typed since the last set
    MaxCalls   \* bound: calls of the page under way at once

ASSUME ConfigPageAssumption ==
    /\ Options \subseteq 1 .. 3 /\ 1 \in Options
    /\ NoTyped \notin Names \cup LongNames \cup {NoName}
    /\ MaxCalls \in Nat

VARIABLES
    set_name,          \* the name box, bound both ways
    line_direction,    \* the option that shows as selected
    set_dir,           \* the hidden input, 0 while it is empty
    cur_info,          \* the line shown
    dir_info,          \* the text of its direction, 0 while it is empty
    asked, answered,   \* calls on the way to the server, and back
    typed, hasty,      \* history: the name typed last; whether an answer is due
    mine               \* history: the last set, if nothing interfered

form    == <<set_name, line_direction, set_dir>>
shown   == <<cur_info, dir_info>>
calls   == <<asked, answered>>
history == <<typed, hasty, mine>>
pageVars == <<form, shown, calls, history>>

Typeable == Names \cup LongNames \cup {NoName}

NoSet == [name |-> NoTyped, dir |-> 0, chosen |-> FALSE]

Quiet == asked = {} /\ answered = {}

(* Calls are told apart by a number that no other one under way has.       *)
Free == (1 .. MaxCalls) \ {c.id : c \in asked \cup answered}

Send(act, name, dir) ==
    /\ Free # {}
    /\ LET id == CHOOSE i \in Free : TRUE
       IN asked' = asked \cup {[id |-> id, act |-> act, name |-> name, dir |-> dir]}

(* The page has loaded and asks for the line.                              *)
PageInit ==
    /\ Init
    /\ set_name = NoName /\ line_direction = 1 /\ set_dir = 0
    /\ cur_info = NoInfo /\ dir_info = 0
    /\ answered = {}
    /\ asked = {[id |-> 1, act |-> "get", name |-> NoName, dir |-> 0]}
    /\ typed = NoTyped /\ hasty = FALSE /\ mine = NoSet

-----------------------------------------------------------------------------
(* The driver.                                                             *)
TypeName(name) ==
    /\ set_name' = name
    /\ typed' = name /\ hasty' = ~Quiet
    /\ UNCHANGED <<vars, line_direction, set_dir, shown, calls, mine>>

(* Only a change of the select fills the hidden input.                     *)
ChooseDirection(dir) ==
    /\ dir # line_direction
    /\ line_direction' = dir
    /\ set_dir' = dir
    /\ UNCHANGED <<vars, set_name, shown, calls, history>>

config_commit ==
    /\ Send("set", set_name, set_dir)
    /\ mine' = IF Quiet /\ ~hasty
               THEN [name |-> IF typed = NoTyped THEN set_name ELSE typed,
                     dir |-> line_direction, chosen |-> set_dir # 0]
               ELSE NoSet
    /\ typed' = NoTyped /\ hasty' = FALSE
    /\ UNCHANGED <<vars, form, shown, answered>>

show_cur_info ==
    /\ Send("get", NoName, 0)
    /\ mine' = IF Quiet THEN mine ELSE NoSet
    /\ hasty' = (typed # NoTyped)
    /\ UNCHANGED <<vars, form, shown, answered, typed>>

-----------------------------------------------------------------------------
(* The server handles one call; the answer to a get is the line as it is.  *)
Answer(c, info) ==
    /\ asked' = asked \ {c}
    /\ answered' = answered \cup {[id |-> c.id, act |-> c.act, info |-> info]}

Handle(c) ==
    /\ \/ c.act = "set" /\ CurLineSet(c.name, c.dir) /\ Answer(c, NoInfo)
       \/ c.act = "get" /\ CurLineGet /\ Answer(c, bus_cur_line_info)
    /\ UNCHANGED <<form, shown, history>>

(* Another client, or a restart, that changes the line.                    *)
Others ==
    /\ Next
    /\ lineVars' # lineVars
    /\ mine' = NoSet
    /\ UNCHANGED <<form, shown, calls, typed, hasty>>

-----------------------------------------------------------------------------
(* The answers.  A set is followed by a get, whatever it was answered.     *)
MutSetDone(a) ==
    /\ a.act = "set" /\ answered' = answered \ {a}
    /\ UNCHANGED <<vars, form, shown, asked, history>>

change_cur_info(a) ==
    /\ a.act = "set"
    /\ answered' = answered \ {a}
    /\ asked' = asked \cup {[id |-> a.id, act |-> "get", name |-> NoName, dir |-> 0]}
    /\ UNCHANGED <<vars, form, shown, history>>

(* The switch has no branch for other directions.                          *)
DirText(info) == IF info.cur_dec \in 1 .. 3 THEN info.cur_dec ELSE dir_info

(* change_vm shows a line and puts its name in the box; an empty answer    *)
(* changes nothing, and neither does one that was cut off, which cannot be *)
(* evaluated.                                                              *)
GetAnswered(a) ==
    /\ a.act = "get"
    /\ answered' = answered \ {a}
    /\ \/ /\ a.info # NoInfo => ~a.info.whole
          /\ UNCHANGED <<set_name, shown>>
       \/ /\ a.info # NoInfo /\ a.info.whole
          /\ cur_info' = a.info
          /\ set_name' = a.info.line_name
          /\ dir_info' = DirText(a.info)
    /\ UNCHANGED <<vars, line_direction, set_dir, asked, history>>

Lose ==
    /\ \/ \E c \in asked : asked' = asked \ {c} /\ UNCHANGED answered
       \/ \E a \in answered : answered' = answered \ {a} /\ UNCHANGED asked
    /\ mine' = NoSet
    /\ UNCHANGED <<vars, form, shown, typed, hasty>>

PageNext ==
    \/ \E name \in Typeable : TypeName(name)
    \/ \E dir \in Options : ChooseDirection(dir)
    \/ config_commit \/ show_cur_info
    \/ \E c \in asked : Handle(c)
    \/ \E a \in answered : change_cur_info(a) \/ GetAnswered(a)
    \/ Others \/ Lose

PageSpec == PageInit /\ [][PageNext]_<<vars, pageVars>>

-----------------------------------------------------------------------------
(* The variables of the page keep their shapes.                            *)
PageTypeOK ==
    /\ set_name \in Typeable /\ typed \in Typeable \cup {NoTyped}
    /\ line_direction \in Options /\ set_dir \in Options \cup {0}
    /\ cur_info \in LineInfo \cup {NoInfo} /\ dir_info \in 0 .. 3
    /\ asked \cap answered = {}
    /\ \A c, d \in asked \cup answered : c.id = d.id => c = d
    /\ \A c \in asked : c.act \in {"set", "get"} /\ c.name \in Typeable
                        /\ c.dir \in Options \cup {0}
    /\ \A a \in answered : a.act \in {"set", "get"} /\ a.info \in LineInfo \cup {NoInfo}
    /\ hasty \in BOOLEAN

(* A set that nothing interfered with, once all is answered: the server    *)
(* has the line the driver typed and the direction that shows as selected, *)
(* if he ever chose one, and the page shows them - unless the line is cut  *)
(* off.  A name that was refused leaves the line there was.                *)
SetIsShown ==
    mine # NoSet /\ Quiet =>
        /\ bus_cur_line_info # NoInfo /\ bus_cur_line_info.whole =>
               cur_info = bus_cur_line_info
        /\ mine.name # NoName =>
               /\ bus_cur_line_info # NoInfo
               /\ bus_cur_line_info.line_name = Kept(mine.name)
               /\ mine.chosen =>
                      /\ bus_derection = mine.dir
                      /\ bus_cur_line_info.whole => dir_info = mine.dir
=============================================================================
