-------------------------- MODULE BusSearchProofs --------------------------
(***************************************************************************)
(* Whatever call of the database or allocation fails, in every request:    *)
(* what BusSearch says of rows, texts and JSON objects.                    *)
(***************************************************************************)
EXTENDS BusSearch, TLAPS

(* Who is where: only a search looks things up, only a line in all places. *)
Places ==
    /\ pc = "find" => rq \in Searches
    /\ pc \in {"fuzzy", "out", "in"} => rq = "line"
    /\ pc \in {"render", "put"} => rq \in Searches \cup {"gps"}
    /\ pc = "dead" => rq = "sta"

(* A text is held from its rendering to its answer.                        *)
TextHeld ==
    /\ mem["text"] = "held" => pc \in {"put", "answer", "dead"} /\ rq \in Searches
    /\ pc \in {"put", "answer"} /\ rq \in Searches => (mem["text"] = "held" <=> ret > 0)

(* While nothing failed, just the rows looked up so far are held.          *)
RowsHeld ==
    /\ pc = "fuzzy" => failed
    /\ (\E b \in Rows : mem[b] = "held") => rq \in Searches
    /\ ~ failed =>
          /\ ~ overwritten
          /\ \A b \in Rows : mem[b] = "held" =>
                 pc \in {"out", "in", "render", "put", "dead"} /\ b \in RowsOf(rq)
          /\ pc = "out" => mem["out_all"] = "none"
          /\ pc \in {"out", "in"} => mem["in_all"] = "none"

(* The objects of a request before its first put, between the two puts of  *)
(* a station, and after the last.                                          *)
NoObjects == json = [n \in Nodes |-> "none"] /\ puts = <<>> /\ ~ misused

AllBuilt ==
    /\ json = [n \in Nodes |-> IF n \in Built[rq] THEN "held" ELSE "none"]
    /\ puts = Puts[rq] /\ ~ misused

OnePut ==
    /\ rq = "sta" /\ puts = <<"new_obj">> /\ ~ misused
    /\ \A n \in Nodes \ {"outer_arr", "new_obj"} : json[n] # "held"

AllPut ==
    /\ puts = <<>> /\ (misused => rq = "sta")
    /\ \A n \in Nodes \ {"outer_arr"} : json[n] # "held"

Objects ==
    /\ pc \in {"find", "fuzzy", "out", "in", "render"} => NoObjects
    /\ pc = "put" => AllBuilt \/ OnePut \/ AllPut
    /\ pc = "answer" => IF rq = "gps" THEN AllBuilt ELSE AllPut
    /\ pc = "done" => AllPut
    /\ misused => rq = "sta"

IInv == TypeOK /\ Places /\ RowsReadable /\ TextHeld /\ RowsHeld /\ Objects
-----------------------------------------------------------------------------
(* What the type invariant says of blocks.                                 *)
LEMMA Held ==
    ASSUME TypeOK
    PROVE  /\ mem \in [Blocks -> {"none", "held"}] /\ ret \in {-1, 0, 1}
           /\ overwritten \in BOOLEAN /\ failed \in BOOLEAN /\ misused \in BOOLEAN
           /\ "text" \in Blocks \ Rows /\ Rows \subseteq Blocks
           /\ RowsOf(rq) \subseteq Rows
BY DEF TypeOK, Blocks, Rows, RowsOf

(* The lengths of short sequences.                                         *)
LEMMA Short == Len(<<>>) = 0 /\ \A x : Len(<<x>>) = 1 /\ \A y : Len(<<x, y>>) = 2
OBVIOUS

(* A request begins, or the server, with nothing held.                     *)
LEMMA FreshIInv ==
    ASSUME IInv, Fresh,
           \/ pc' = "find" /\ rq' \in Searches
           \/ pc' = "render" /\ rq' = "gps"
           \/ pc' = "answer" /\ rq' \in Requests \ {"gps"}
           \/ pc' = "done" /\ rq' \in Requests
    PROVE  IInv'
<1> USE DEF Fresh
<1>1. /\ rq' \in Requests /\ mem' \in [Blocks -> {"none", "held"}]
      /\ json' \in [Nodes -> {"none", "held", "freed"}] /\ Len(puts') <= 2
  <2>1. rq' \in Requests
    BY DEF Requests
  <2>2. Len(puts') <= 2
    OBVIOUS
  <2> QED
    BY <2>1, <2>2
<1>2. mem'["text"] = "none" /\ \A b \in Rows : mem'[b] = "none"
  BY DEF Blocks
<1>3. TypeOK' /\ Places'
  BY <1>1 DEF TypeOK, Places
<1>4. RowsReadable' /\ TextHeld'
  BY <1>2 DEF RowsReadable, TextHeld
<1>5. RowsHeld'
  BY <1>2 DEF RowsHeld, Rows
<1>6. NoObjects' /\ AllPut'
  BY DEF NoObjects, AllPut
<1>7. Objects'
  BY <1>6 DEF Objects, NoObjects
<1> QED
  BY <1>3, <1>4, <1>5, <1>7 DEF IInv, RowsReadable

(* Looking things up: where a search goes on, what it needs is held.       *)
LEMMA FindStep ==
    ASSUME IInv, FindLine \/ FindFuzzy \/ FindOut \/ FindIn \/ FindOther
    PROVE  IInv'
<1> USE DEF IInv
<1>1. PICK here \in {"find", "fuzzy", "out", "in"}, b \in Rows,
           onPass \in {"out", "in", "render"}, onFail \in {"fuzzy", "answer"} :
          /\ Lookup(here, b, onPass, onFail)
          /\ here \in {"find", "fuzzy"} => b = "info"
          /\ here = "out" => b = "out_all" /\ onPass = "in"
          /\ here = "in" => b = "in_all" /\ onPass = "render"
          /\ rq = "line" /\ here \in {"find", "fuzzy"} => onPass = "out"
          /\ rq # "line" => here = "find" /\ onPass = "render" /\ onFail = "answer"
  <2>1. CASE FindLine
    BY <2>1 DEF FindLine, Rows
  <2>2. CASE FindFuzzy
    BY <2>2 DEF FindFuzzy, Lookup, Places, Rows
  <2>3. CASE FindOut
    BY <2>3 DEF FindOut, Lookup, Places, Rows
  <2>4. CASE FindIn
    BY <2>4 DEF FindIn, Lookup, Places, Rows
  <2>5. CASE FindOther
    BY <2>5 DEF FindOther, Rows
  <2> QED
    BY <2>1, <2>2, <2>3, <2>4, <2>5
<1>2. PICK r \in {-1, 0, 1} :
          /\ Find(b, r) /\ pc = here
          /\ pc' = IF r > 0 THEN onPass ELSE onFail
          /\ ret' = IF r > 0 THEN r ELSE -1
          /\ UNCHANGED <<rq, json, puts, misused, sent>>
  BY <1>1 DEF Lookup, Passed, object
<1>3. /\ mem \in [Blocks -> {"none", "held"}] /\ overwritten \in BOOLEAN /\ failed \in BOOLEAN
      /\ rq \in Searches /\ mem["text"] = "none"
      /\ b \in Blocks /\ b # "text" /\ "text" \in Blocks /\ Rows \subseteq Blocks
  BY <1>2 DEF TypeOK, Places, TextHeld, Searches, Blocks, Rows
<1>4. CASE r <= 0
  <2>1. failed' = TRUE /\ pc' = onFail /\ ret' = -1
    <3>1. failed' = (failed \/ r <= 0)
      BY <1>2 DEF Find
    <3>2. failed' = TRUE
      BY ONLY <3>1, <1>4
    <3>3. ~ r > 0
      BY <1>4
    <3> QED
      BY <1>2, <3>2, <3>3
  <2>2. /\ mem' \in [Blocks -> {"none", "held"}] /\ overwritten' \in BOOLEAN
        /\ mem'["text"] = "none"
    BY <1>2, <1>3 DEF Find
  <2>3. TypeOK' /\ Places'
    BY <1>1, <1>2, <1>3, <2>1, <2>2 DEF TypeOK, Places
  <2>4. RowsReadable' /\ TextHeld' /\ RowsHeld'
    BY <1>2, <1>3, <2>1, <2>2 DEF RowsReadable, TextHeld, RowsHeld
  <2>5. Objects'
    BY <1>2, <1>3, <2>1 DEF Objects, NoObjects, AllPut, Searches
  <2> QED
    BY <2>3, <2>4, <2>5
<1>5. CASE r = 1
  <2>1. /\ failed' = failed /\ mem' = [mem EXCEPT ![b] = "held"]
        /\ overwritten' = (overwritten \/ mem[b] = "held")
        /\ pc' = onPass /\ ret' = 1
    BY <1>2, <1>3, <1>5 DEF Find
  <2>2. TypeOK' /\ Places'
    BY <1>1, <1>2, <1>3, <2>1 DEF TypeOK, Places
  <2>3. RowsReadable'
    <3>1. mem' \in [Blocks -> {"none", "held"}] /\ mem'[b] = "held"
          /\ \A x \in Blocks : mem[x] = "held" => mem'[x] = "held"
      BY <1>3, <2>1
    <3>2. CASE rq = "line"
      <4>1. CASE here \in {"find", "fuzzy"}
        BY <1>1, <1>2, <2>1, <3>1, <3>2, <4>1 DEF RowsReadable
      <4>2. CASE here = "out"
        BY <1>1, <1>2, <1>3, <2>1, <3>1, <3>2, <4>2 DEF RowsReadable, Rows
      <4>3. CASE here = "in"
        <5>1. \A x \in Rows : mem'[x] = "held"
          BY <1>1, <1>2, <1>3, <3>1, <4>3 DEF RowsReadable, Rows
        <5> QED
          BY <1>1, <1>2, <2>1, <3>2, <4>3, <5>1 DEF RowsReadable, RowsOf
      <4> QED
        BY <4>1, <4>2, <4>3
    <3>3. CASE rq # "line"
      BY <1>1, <1>2, <2>1, <3>1, <3>3 DEF RowsReadable, RowsOf
    <3> QED
      BY <3>2, <3>3
  <2>4. TextHeld'
    BY <1>1, <1>2, <1>3, <2>1 DEF TextHeld
  <2>5. RowsHeld'
    <3>1. ~ failed => mem[b] = "none"
      BY <1>1, <1>2, <1>3 DEF RowsHeld
    <3>2. b \in RowsOf(rq)
      BY <1>1, <1>3 DEF RowsOf
    <3>3. \A x \in Rows : mem'[x] = IF x = b THEN "held" ELSE mem[x]
      BY <1>3, <2>1
    <3>4. ~ failed' => ~ overwritten'
      BY <2>1, <3>1 DEF RowsHeld
    <3>5. ~ failed => \A x \in Rows : mem[x] = "held" =>
              pc \in {"out", "in", "render", "put", "dead"} /\ x \in RowsOf(rq)
      BY DEF RowsHeld
    <3>6. ~ failed' => \A x \in Rows : mem'[x] = "held" => x \in RowsOf(rq')
      BY <1>2, <2>1, <3>2, <3>3, <3>5
    <3>7. pc' = "out" /\ ~ failed => mem'["out_all"] = "none"
      BY <1>1, <1>2, <1>3, <2>1, <3>3, <3>5 DEF Rows
    <3>8. pc' \in {"out", "in"} /\ ~ failed => mem'["in_all"] = "none"
      BY <1>1, <1>2, <1>3, <2>1, <3>3, <3>5 DEF Rows, RowsHeld
    <3> QED
      BY <1>1, <1>2, <1>3, <2>1, <3>4, <3>6, <3>7, <3>8 DEF RowsHeld
  <2>6. Objects'
    BY <1>2, <1>3, <2>1 DEF Objects, NoObjects
  <2> QED
    BY <2>2, <2>3, <2>4, <2>5, <2>6
<1> QED
  BY <1>4, <1>5

(* The objects are built; the text is held if there was memory for it.     *)
LEMMA RenderStep ==
    ASSUME IInv, Render
    PROVE  IInv'
<1> USE DEF IInv
<1>1. /\ pc = "render" /\ rq \in Searches \cup {"gps"} /\ mem["text"] = "none"
      /\ mem \in [Blocks -> {"none", "held"}]
      /\ UNCHANGED <<rq, overwritten, failed, misused, sent>>
  BY Held DEF Render, Places, TextHeld
<1>2. /\ \/ rq = "gps" /\ pc' = "answer" /\ ret' = 1 /\ mem' = mem
         \/ rq # "gps" /\ pc' = "put" /\ ret' = 1 /\ mem' = [mem EXCEPT !["text"] = "held"]
         \/ rq # "gps" /\ pc' = "put" /\ ret' = -1 /\ mem' = mem
  BY DEF Render
<1>3. AllBuilt' /\ ~ misused
  BY <1>1 DEF Render, AllBuilt, Objects, NoObjects
<1>4. Len(puts') <= 2 /\ json' \in [Nodes -> {"none", "held", "freed"}]
  <2>1. \A r \in Searches \cup {"gps"} :
            Puts[r] \in {<<"new_obj">>, <<"sta_line_arr", "new_obj">>, <<"line_obj_arr">>}
    BY DEF Puts
  <2>2. Len(puts') <= 2
    <3>1. puts' \in {<<"new_obj">>, <<"sta_line_arr", "new_obj">>, <<"line_obj_arr">>}
      BY <1>1, <2>1 DEF Render
    <3>2. /\ Len(<<"new_obj">>) = 1 /\ Len(<<"line_obj_arr">>) = 1
          /\ Len(<<"sta_line_arr", "new_obj">>) = 2
      BY Short
    <3> QED
      BY ONLY <3>1, <3>2
  <2> QED
    BY <2>2 DEF Render
<1>5. TypeOK' /\ Places'
  BY <1>1, <1>2, <1>4 DEF TypeOK, Places
<1>6. RowsReadable' /\ TextHeld'
  <2>1. /\ pc' \in {"answer", "put"} /\ (pc' = "answer" => rq \notin Searches)
        /\ mem'["text"] = "held" <=> rq \in Searches /\ ret' > 0
    BY <1>1, <1>2, Held DEF Searches
  <2> QED
    BY <1>1, <2>1 DEF RowsReadable, TextHeld
<1>7. RowsHeld'
  <2>1. \A b \in Rows : mem'[b] = mem[b]
    BY <1>1, <1>2, Held
  <2>2. rq = "gps" => \A b \in Rows : mem[b] # "held"
    BY DEF RowsHeld, Searches
  <2> QED
    BY <1>1, <1>2, <2>1, <2>2 DEF RowsHeld
<1>8. Objects'
  BY <1>1, <1>2, <1>3 DEF Objects
<1> QED
  BY <1>5, <1>6, <1>7, <1>8

(* Each object is put once, but for the array of a station's lines, which  *)
(* is put alone and then with its owner.                                   *)
LEMMA PutStep ==
    ASSUME IInv, Put
    PROVE  IInv'
<1> USE DEF IInv
<1> DEFINE freed == {Head(puts)} \cup (Below[Head(puts)] \cap Built[rq])
<1>1. /\ pc = "put" /\ puts # <<>> /\ puts' = Tail(puts)
      /\ json' = [n \in Nodes |-> IF n \in freed THEN "freed" ELSE json[n]]
      /\ misused' = (misused \/ \E n \in freed : json[n] # "held")
      /\ pc' \in {"put", "dead"} /\ (pc' = "dead" => misused')
      /\ UNCHANGED <<rq, mem, overwritten, failed, ret, sent>>
  BY DEF Put, rows
<1>2. rq \in Searches \cup {"gps"} /\ misused \in BOOLEAN
      /\ json \in [Nodes -> {"none", "held", "freed"}]
  BY <1>1 DEF Places, TypeOK
<1>3. \/ OnePut' /\ rq = "sta"
      \/ AllPut'
  <2>1. CASE AllBuilt /\ rq = "sta"
    <3>1. puts = <<"sta_line_arr", "new_obj">> /\ Below["sta_line_arr"] = {}
          /\ Built["sta"] = {"outer_arr", "new_obj", "sta_line_arr"}
      BY <2>1 DEF AllBuilt, Puts, Below, Built, Nodes, Searches
    <3>2. puts' = <<"new_obj">> /\ freed = {"sta_line_arr"}
      BY <1>1, <3>1
    <3>3. json["sta_line_arr"] = "held"
      BY <2>1, <3>1 DEF AllBuilt, Nodes
    <3>4. ~ misused'
      BY <1>1, <2>1, <3>2, <3>3 DEF AllBuilt
    <3>5. \A n \in Nodes \ {"outer_arr", "new_obj"} : json'[n] # "held"
      BY <1>1, <2>1, <3>1, <3>2 DEF AllBuilt
    <3> QED
      BY <1>1, <2>1, <3>2, <3>4, <3>5 DEF OnePut
  <2>2. CASE AllBuilt /\ rq # "sta"
    <3>1. PICK top \in Nodes :
              /\ puts = <<top>> /\ top \in Built[rq]
              /\ Built[rq] \subseteq Nodes
              /\ Built[rq] \ {"outer_arr"} \subseteq {top} \cup Below[top]
      <4>1. CASE rq \in {"line", "gps"}
        BY <1>2, <2>2, <4>1 DEF AllBuilt, Puts, Built, Below, Nodes, Searches
      <4>2. CASE rq \in {"line_fuzzy", "sta_fuzzy"}
        BY <1>2, <2>2, <4>2 DEF AllBuilt, Puts, Built, Below, Nodes, Searches
      <4> QED
        BY <1>2, <2>2, <4>1, <4>2 DEF Searches
    <3>2. puts' = <<>> /\ freed = {top} \cup (Below[top] \cap Built[rq])
      BY <1>1, <3>1
    <3>3. \A n \in freed : n \in Built[rq]
      BY <3>1, <3>2
    <3>4. ~ misused'
      BY <1>1, <2>2, <3>1, <3>3 DEF AllBuilt
    <3>5. \A n \in Nodes \ {"outer_arr"} : json'[n] # "held"
      BY <1>1, <2>2, <3>1, <3>2 DEF AllBuilt
    <3> QED
      BY <3>2, <3>4, <3>5 DEF AllPut
  <2>3. CASE OnePut
    <3>1. puts' = <<>> /\ "new_obj" \in freed
      BY <1>1, <2>3 DEF OnePut
    <3>2. \A n \in Nodes \ {"outer_arr"} : json'[n] # "held"
      BY <1>1, <2>3, <3>1 DEF OnePut
    <3> QED
      BY <1>1, <2>3, <3>1, <3>2 DEF OnePut, AllPut
  <2> QED
    BY <1>1, <2>1, <2>2, <2>3 DEF Objects, AllPut
<1>4. misused' => rq = "sta"
  BY <1>1, <1>3 DEF OnePut, AllPut
<1>5. Objects'
  BY <1>1, <1>3, <1>4 DEF Objects
<1>6. TypeOK' /\ Places'
  <2>1. Len(puts') <= 2
    <3>1. puts' \in {<<>>, <<"new_obj">>}
      BY <1>3 DEF OnePut, AllPut
    <3> QED
      BY <3>1, Short
  <2>2. json' \in [Nodes -> {"none", "held", "freed"}] /\ misused' \in BOOLEAN
    BY <1>1, <1>2
  <2> QED
    BY <1>1, <1>4, <2>1, <2>2 DEF TypeOK, Places
<1>7. RowsReadable' /\ TextHeld' /\ RowsHeld'
  BY <1>1 DEF RowsReadable, TextHeld, RowsHeld
<1> QED
  BY <1>5, <1>6, <1>7

(* The rows a search looked up are those it frees.                         *)
LEMMA FreeStep ==
    ASSUME IInv, Free
    PROVE  IInv'
<1> USE DEF IInv
<1>1. /\ pc = "put" /\ puts = <<>>
      /\ UNCHANGED <<rq, overwritten, failed, json, puts, misused, ret, sent>>
      /\ \/ rq = "gps" /\ pc' = "done" /\ mem' = mem
         \/ /\ rq # "gps" /\ pc' = "answer"
            /\ mem' = [b \in Blocks |-> IF b \in RowsOf(rq) THEN "none" ELSE mem[b]]
  BY DEF Free, Freed, object
<1>2. rq \in Searches \cup {"gps"} /\ mem \in [Blocks -> {"none", "held"}]
  BY <1>1 DEF Places, TypeOK
<1>3. AllPut
  <2>1. ~ AllBuilt
    <3>1. Puts[rq] # <<>>
      BY <1>2 DEF Puts
    <3> QED
      BY <1>1, <3>1 DEF AllBuilt
  <2> QED
    BY <1>1, <2>1 DEF Objects, OnePut
<1>4. TypeOK' /\ Places' /\ Objects'
  BY <1>1, <1>2, <1>3 DEF TypeOK, Places, Objects, AllPut
<1>5. mem'["text"] = mem["text"] /\ \A b \in Rows : mem'[b] = "held" => mem[b] = "held"
  BY <1>1, <1>2, Held
<1>6. RowsReadable' /\ TextHeld'
  BY <1>1, <1>2, <1>5 DEF RowsReadable, TextHeld, Searches
<1>7. RowsHeld'
  <2>1. rq = "gps" => \A b \in Rows : mem[b] # "held"
    BY DEF RowsHeld, Searches
  <2>2. pc' = "answer" => \A b \in RowsOf(rq) : mem'[b] = "none"
    BY <1>1, Held
  <2>3. ~ failed => \A b \in Rows : mem'[b] # "held"
    BY <1>1, <1>5, <2>1, <2>2 DEF RowsHeld
  <2> QED
    BY <1>1, <1>5, <2>3 DEF RowsHeld
<1> QED
  BY <1>4, <1>6, <1>7

(* The text is given back with the answer.                                 *)
LEMMA AnswerStep ==
    ASSUME IInv, Answer
    PROVE  IInv'
<1> USE DEF IInv
<1>1. /\ pc = "answer" /\ pc' = (IF rq = "gps" THEN "put" ELSE "done")
      /\ UNCHANGED <<rq, overwritten, failed, json, puts, misused, ret>>
      /\ \/ rq \in Searches /\ ret > 0 /\ mem' = [mem EXCEPT !["text"] = "none"]
         \/ ~ (rq \in Searches /\ ret > 0) /\ mem' = mem
  <2>1. ret <= 0 <=> ~ ret > 0
    BY Held
  <2>2. UNCHANGED <<rq, overwritten, failed, json, puts, misused, ret>>
    BY DEF Answer, object
  <2> QED
    BY <2>1, <2>2 DEF Answer, Searches
<1>2. mem \in [Blocks -> {"none", "held"}] /\ rq \in Requests
  BY DEF TypeOK
<1>3. mem'["text"] = "none" /\ \A b \in Rows : mem'[b] = mem[b]
  BY <1>1, Held DEF TextHeld
<1>4. TypeOK' /\ Places' /\ Objects'
  BY <1>1, <1>2 DEF TypeOK, Places, Objects, AllBuilt, AllPut
<1>5. RowsReadable' /\ TextHeld' /\ RowsHeld'
  <2>1. RowsReadable' /\ TextHeld'
    BY <1>1, <1>3 DEF RowsReadable, TextHeld, Searches
  <2>2. ~ failed => \A b \in Rows : mem[b] # "held"
    BY <1>1 DEF RowsHeld
  <2> QED
    BY <1>1, <1>3, <2>1, <2>2 DEF RowsHeld
<1> QED
  BY <1>4, <1>5

(* In every state of every request.                                        *)
THEOREM SearchInvariant == Spec => []IInv
<1>1. Init => IInv
  <2> SUFFICES ASSUME Init PROVE IInv
    OBVIOUS
  <2>1. TypeOK
    <3>1. mem \in [Blocks -> {"none", "held"}] /\ json \in [Nodes -> {"none", "held", "freed"}]
      BY DEF Init
    <3>2. Len(puts) <= 2
      BY Short DEF Init
    <3> QED
      BY <3>1, <3>2 DEF Init, TypeOK, Requests
  <2>2. mem["text"] = "none" /\ \A b \in Rows : mem[b] = "none"
    BY DEF Init, Blocks
  <2>3. Places /\ RowsReadable /\ TextHeld /\ RowsHeld
    BY <2>2 DEF Init, Places, RowsReadable, TextHeld, RowsHeld
  <2>4. Objects
    BY DEF Init, Objects, AllPut
  <2> QED
    BY <2>1, <2>3, <2>4 DEF IInv
<1>2. IInv /\ [Next]_vars => IInv'
  <2> SUFFICES ASSUME IInv, [Next]_vars PROVE IInv'
    OBVIOUS
  <2>1. ASSUME NEW r \in Requests, NEW named \in BOOLEAN, Receive(r, named)
        PROVE  IInv'
    BY <2>1, FreshIInv DEF Receive, Requests, Searches
  <2>2. CASE Restart
    BY <2>2, FreshIInv DEF Restart, Requests
  <2>3. CASE UNCHANGED vars
    BY <2>3 DEF vars, rows, object, IInv, TypeOK, Places, RowsReadable, TextHeld, RowsHeld,
       Objects, NoObjects, AllBuilt, OnePut, AllPut
  <2> QED
    BY <2>1, <2>2, <2>3, FindStep, RenderStep, PutStep, FreeStep, AnswerStep DEF Next
<1> QED
  BY <1>1, <1>2, PTL DEF Spec

(* The variables keep their shapes.                                        *)
THEOREM SearchTyped == Spec => []TypeOK
<1>1. IInv => TypeOK
  BY DEF IInv
<1> QED
  BY <1>1, SearchInvariant, PTL

(* Rows are read, and a text answered, only where they are held.           *)
THEOREM RowsAlwaysReadable == Spec => []RowsReadable
<1>1. IInv => RowsReadable
  BY DEF IInv
<1> QED
  BY <1>1, SearchInvariant, PTL

(* A request that found all it looked for gives back all it held.          *)
THEOREM NothingEverLost == Spec => []NothingLost
<1>1. IInv => NothingLost
  <2> SUFFICES ASSUME IInv, pc = "done"
               PROVE  /\ mem["text"] = "none"
                      /\ ~failed => ~overwritten /\ \A b \in Rows : mem[b] = "none"
    BY DEF NothingLost
  <2>1. mem \in [Blocks -> {"none", "held"}]
    BY DEF IInv, TypeOK
  <2> QED
    BY <2>1, Held DEF IInv, TextHeld, RowsHeld
<1> QED
  BY <1>1, SearchInvariant, PTL

(* Only a station's search puts an object twice, and only the array around *)
(* the answer is never put.                                                *)
THEOREM PutsAlwaysBalanced == Spec => []PutsBalanced
<1>1. IInv => PutsBalanced
  BY DEF IInv, Objects, AllPut, PutsBalanced
<1> QED
  BY <1>1, SearchInvariant, PTL
=============================================================================
