----------------------------- MODULE BusSearch -----------------------------
(***************************************************************************)
(* The requests that read: searches of lines and stations (rq_bus.c with   *)
(* dbif), the router's position (rq_bus_realtime.c) and the help page's    *)
(* comment (rq_help.c); how each one looks things up, renders JSON, gives  *)
(* its memory back and answers.                                            *)
(*                                                                         *)
(* A request is handled from its start to its answer without another in    *)
(* between.  Every call of the database and every allocation may fail.  Of *)
(* what a search returns only the sign matters.                            *)
(***************************************************************************)
EXTENDS Integers, Sequences

VARIABLES
    pc,          \* where the handler is; "done" between requests, or "dead"
    rq,          \* the request
    mem,         \* rows and text: "none" or "held"
    overwritten, \* history: whether a pointer to held rows was overwritten
    failed,      \* history: whether a search failed or found nothing
    json,        \* JSON objects: "none", "held" or "freed"
    puts,        \* calls of json_object_put still to be made
    misused,     \* history: whether an object was put that was freed already
    ret,         \* what the search function returns
    sent         \* the answer: the length announced, and the length written

rows   == <<mem, overwritten, failed>>
object == <<json, puts, misused>>
vars   == <<pc, rq, rows, object, ret, sent>>

Searches == {"line", "line_fuzzy", "sta", "sta_fuzzy"}
Requests == Searches \cup {"ride", "gps", "help", "no_search", "no_request"}

Rows   == {"info", "out_all", "in_all"}
Blocks == Rows \cup {"text"}

(* The objects a request builds, and those that own others.                *)
Nodes == {"outer_arr", "new_obj", "sta_out", "sta_in", "sta_line_arr",
          "line_obj_arr", "line_obj", "tmp_obj"}

Built == [r \in Searches \cup {"gps"} |->
    IF r = "line" THEN {"outer_arr", "new_obj", "sta_out", "sta_in"}
    ELSE IF r = "sta" THEN {"outer_arr", "new_obj", "sta_line_arr"}
    ELSE IF r = "gps" THEN {"new_obj", "tmp_obj"}
    ELSE {"line_obj_arr", "line_obj"}]

Below == [n \in Nodes |->
    IF n = "outer_arr" THEN {"new_obj", "sta_out", "sta_in", "sta_line_arr"}
    ELSE IF n = "new_obj" THEN {"sta_out", "sta_in", "sta_line_arr", "tmp_obj"}
    ELSE IF n = "line_obj_arr" THEN {"line_obj"} ELSE {}]

MutPuts == [r \in Searches \cup {"gps"} |->
    IF r = "sta" THEN <<"sta_line_arr", "new_obj", "outer_arr">>
    ELSE IF r \in {"line", "gps"} THEN <<"new_obj">> ELSE <<"line_obj_arr">>]

MutPutsOuter == [r \in Searches \cup {"gps"} |->
    IF r = "line" THEN <<"new_obj", "outer_arr">>
    ELSE IF r = "gps" THEN <<"new_obj">>
    ELSE IF r = "sta" THEN <<"sta_line_arr", "new_obj">>
    ELSE <<"line_obj_arr">>]

(* The objects a request puts, in order.                                   *)
Puts == [r \in Searches \cup {"gps"} |->
    IF r \in {"line", "gps"} THEN <<"new_obj">>
    ELSE IF r = "sta" THEN <<"sta_line_arr", "new_obj">>
    ELSE <<"line_obj_arr">>]

MutFreed(r) == IF r = "line" THEN {"info", "out_all"} ELSE {"info"}

(* The rows a request has looked up when it renders, and frees.            *)
RowsOf(r) == IF r = "line" THEN Rows ELSE {"info"}

Freed(r) == RowsOf(r)

Chunked == -1
Unsent == <<>>

(* process_web_write_response.                                             *)
Response(length, size) == <<IF size <= 0 THEN Chunked ELSE size, length>>

NotFound == Response(2, 3)
Found(length) == Response(length, 0)

-----------------------------------------------------------------------------
Fresh ==
    /\ mem' = [b \in Blocks |-> "none"] /\ overwritten' = FALSE /\ failed' = FALSE
    /\ json' = [n \in Nodes |-> "none"] /\ puts' = <<>> /\ misused' = FALSE
    /\ ret' = 0 /\ sent' = Unsent

Init ==
    /\ pc = "done" /\ rq = "no_request"
    /\ mem = [b \in Blocks |-> "none"] /\ overwritten = FALSE /\ failed = FALSE
    /\ json = [n \in Nodes |-> "none"] /\ puts = <<>> /\ misused = FALSE
    /\ ret = 0 /\ sent = Unsent

(* A search without a name is an error; a ride is never found.             *)
Receive(r, named) ==
    /\ pc = "done" /\ rq' = r
    /\ pc' = IF r \in Searches /\ named THEN "find"
             ELSE IF r = "gps" THEN "render" ELSE "answer"
    /\ Fresh

(* db_bus_line_info_find and db_v_line_sta_info_find: rows are counted,    *)
(* then allocated, then selected; rows that could not be selected stay     *)
(* with the caller.                                                        *)
Find(b, r) ==
    /\ failed' = (failed \/ r <= 0)
    /\ \/ r <= 0 /\ UNCHANGED <<mem, overwritten>>
       \/ /\ r # 0
          /\ mem' = [mem EXCEPT ![b] = "held"]
          /\ overwritten' = (overwritten \/ mem[b] = "held")

MutPassed(r) == r >= 0

(* The caller goes on with what it looked up.                              *)
Passed(r) == r > 0

Lookup(here, b, onPass, onFail) ==
    /\ pc = here
    /\ \E r \in {-1, 0, 1} :
           /\ Find(b, r)
           /\ pc' = IF Passed(r) THEN onPass ELSE onFail
           /\ ret' = IF Passed(r) THEN r ELSE -1
    /\ UNCHANGED <<rq, object, sent>>

(* The line by its name, else by a part of its name; then its stations.    *)
FindLine == rq = "line" /\ Lookup("find", "info", "out", "fuzzy")
FindFuzzy == Lookup("fuzzy", "info", "out", "answer")
FindOut == Lookup("out", "out_all", "in", "answer")
FindIn == Lookup("in", "in_all", "render", "answer")

FindOther == rq # "line" /\ Lookup("find", "info", "render", "answer")

(* The objects and the text; without memory for the text, an error.        *)
Render ==
    /\ pc = "render"
    /\ json' = [n \in Nodes |-> IF n \in Built[rq] THEN "held" ELSE "none"]
    /\ puts' = Puts[rq]
    /\ \/ /\ rq = "gps" /\ pc' = "answer" /\ ret' = 1
          /\ UNCHANGED mem
       \/ /\ rq # "gps" /\ pc' = "put" /\ ret' = 1
          /\ mem' = [mem EXCEPT !["text"] = "held"]
       \/ /\ rq # "gps" /\ pc' = "put" /\ ret' = -1
          /\ UNCHANGED mem
    /\ UNCHANGED <<rq, overwritten, failed, misused, sent>>

(* json_object_put of the only reference; what is freed twice may go       *)
(* unnoticed or end the process.                                           *)
Put ==
    /\ pc = "put" /\ puts # <<>>
    /\ puts' = Tail(puts)
    /\ LET freed == {Head(puts)} \cup (Below[Head(puts)] \cap Built[rq])
       IN /\ json' = [n \in Nodes |-> IF n \in freed THEN "freed" ELSE json[n]]
          /\ misused' = (misused \/ \E n \in freed : json[n] # "held")
    /\ pc' \in IF misused' THEN {"put", "dead"} ELSE {"put"}
    /\ UNCHANGED <<rq, rows, ret, sent>>

(* After the objects, the rows; the position has none.                     *)
Free ==
    /\ pc = "put" /\ puts = <<>>
    /\ \/ rq = "gps" /\ pc' = "done" /\ UNCHANGED mem
       \/ /\ rq # "gps" /\ pc' = "answer"
          /\ mem' = [b \in Blocks |-> IF b \in Freed(rq) THEN "none" ELSE mem[b]]
    /\ UNCHANGED <<rq, overwritten, failed, object, ret, sent>>

(* The text is given back once it is answered; its length is left open.    *)
Answer ==
    /\ pc = "answer"
    /\ \/ /\ rq \in Searches /\ ret > 0 /\ sent' = Found(4)
          /\ mem' = [mem EXCEPT !["text"] = "none"]
       \/ /\ rq \in Searches /\ ret <= 0 /\ sent' = NotFound
          /\ UNCHANGED mem
       \/ /\ rq \in {"ride", "no_search"} /\ sent' = NotFound
          /\ UNCHANGED mem
       \/ /\ rq \in {"gps", "help", "no_request"} /\ sent' = Found(4)
          /\ UNCHANGED mem
    /\ pc' = IF rq = "gps" THEN "put" ELSE "done"
    /\ UNCHANGED <<rq, overwritten, failed, object, ret>>

Restart ==
    /\ pc = "dead" /\ pc' = "done" /\ rq' = "no_request"
    /\ Fresh

Next ==
    \/ \E r \in Requests, named \in BOOLEAN : Receive(r, named)
    \/ FindLine \/ FindFuzzy \/ FindOut \/ FindIn \/ FindOther
    \/ Render \/ Put \/ Free \/ Answer \/ Restart

Spec == Init /\ [][Next]_vars

-----------------------------------------------------------------------------
(* The variables keep their shapes.                                        *)
TypeOK ==
    /\ pc \in {"done", "find", "fuzzy", "out", "in", "render", "put", "answer", "dead"}
    /\ rq \in Requests
    /\ mem \in [Blocks -> {"none", "held"}]
    /\ overwritten \in BOOLEAN /\ failed \in BOOLEAN /\ misused \in BOOLEAN
    /\ json \in [Nodes -> {"none", "held", "freed"}]
    /\ Len(puts) <= 2 /\ ret \in {-1, 0, 1}

(* Wherever a search ended - in an error, in nothing, after rows were      *)
(* allocated - rows are read only where they are held, and a text is       *)
(* answered only if there is one.                                          *)
RowsReadable ==
    /\ pc \in {"out", "in"} => mem["info"] = "held"
    /\ pc = "in" => mem["out_all"] = "held"
    /\ pc = "render" /\ rq # "gps" => \A b \in RowsOf(rq) : mem[b] = "held"
    /\ pc = "answer" /\ rq \in Searches /\ ret > 0 => mem["text"] = "held"

(* A request that found all it looked for leaves no rows behind, and no    *)
(* request leaves a text behind.                                           *)
NothingLost ==
    pc = "done" =>
        /\ mem["text"] = "none"
        /\ ~failed => ~overwritten /\ \A b \in Rows : mem[b] = "none"

(* json_object_put takes what its caller owns (json_object.h:114): however *)
(* a search ends, only that of a station puts an object that is gone, and  *)
(* of what was rendered only the array around the answer is never put.     *)
PutsBalanced ==
    /\ misused => rq = "sta"
    /\ pc = "done" => \A n \in Nodes \ {"outer_arr"} : json[n] # "held"
=============================================================================
