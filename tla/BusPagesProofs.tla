-------------------------- MODULE BusPagesProofs --------------------------
(***************************************************************************)
(* BusPages for every set of texts, with any number of requests under way  *)
(* and pages opened on top of each other.                                  *)
(***************************************************************************)
EXTENDS BusPages, SequenceTheorems, TLAPS

Page == [page : PageNames, of : Asked, from : {"search", "page"}, came : BOOLEAN]
Opened == [page : PageNames, of : Asked, from : {"search", "page"},
           came : BOOLEAN, data : Queries \cup {NoRows}]

(* A search under way has chosen its page.                                 *)
Chosen == commits # {} => page_url \in PageNames

(* While a page is opened, or shown, there is data.                        *)
HasData == loading # {} \/ stack # <<>> => line_info # NoRows

(* Waiting for each answer, a passenger has one thing under way, and the   *)
(* places a search goes through belong to that search.                     *)
Quiet ==
    ~hasty =>
        /\ commits # {} => details = {} /\ loading = {}
        /\ \A c, d \in commits : c = d
        /\ \A c \in commits : page_url = PageOf(c.of[1])
        /\ \A p \in loading : p.from = "search" =>
               /\ details = {} /\ commits = {}
               /\ p.of = line_info /\ p.page = PageOf(line_info[1])
        /\ \A p \in loading : p.from = "page" =>
               /\ details \subseteq {p.of} /\ commits = {}
               /\ p.came => p.of = line_info

PagesInv ==
    /\ TypeOK /\ Chosen
    /\ HasData /\ PagesHaveData
    /\ Quiet /\ SearchShown /\ DetailShown

-----------------------------------------------------------------------------
(* What the operators of the search page give.                             *)

LEMMA PagesAreNamed ==
    ASSUME NEW t
    PROVE  PageOf(t) \in PageNames /\ OtherType(t) \in Types
  BY DEF PageOf, PageNames, OtherType, Types

LEMMA NoRowsIsNoQuery == NoRows \notin Queries
  BY BusPagesAssumption DEF Queries, Types

(* Typing a text keeps the form's shape.                                   *)
LEMMA BindKeepsForm ==
    ASSUME FormOK, NEW x \in Texts \cup {NoText}, search_bind(x),
           search_type' = search_type
    PROVE  FormOK'
<1>0. lists' \subseteq Queries
  BY DEF FormOK, search_bind, Queries
<1>1. vec' \in [Types -> Queries \cup {NoRows}]
  BY DEF FormOK, search_bind
<1>2. text' \in [Types -> Texts \cup {NoText}]
  BY DEF FormOK, search_bind
<1> QED
  BY <1>0, <1>1, <1>2 DEF FormOK

(* Sending the form adds one search, from the search page.                 *)
LEMMA CommitKeeps ==
    ASSUME PagesInv, FormOK', AtIndex, bus_commit, UNCHANGED stack
    PROVE  PagesInv'
<1>1. search_type \in Types /\ text'[search_type] \in Texts \cup {NoText}
  BY DEF TypeOK, FormOK, bus_commit
<1> DEFINE new == [of |-> <<search_type, text'[search_type]>>, tab |-> Live]
<1>2. /\ new \in [of : Asked, tab : Types \cup {Live}]
      /\ new.of[1] = search_type
  BY <1>1 DEF Asked
<1>3. /\ commits' = commits \cup {new}
      /\ page_url' = PageOf(search_type)
      /\ UNCHANGED <<details, found, opened>>
  BY DEF bus_commit, PageChosen, opened
<1> HIDE DEF new
<1>4. page_url' \in PageNames
  BY <1>3, PagesAreNamed
<1>5. RequestsOK'
  BY <1>2, <1>3 DEF PagesInv, TypeOK, RequestsOK, AtIndex, opened
<1>6. OpenedOK' /\ FoundOK'
  BY <1>3, <1>4 DEF PagesInv, TypeOK, OpenedOK, FoundOK, found, opened
<1>7. hasty' \in BOOLEAN
  BY DEF PagesInv, TypeOK, bus_commit
<1>8. Chosen' /\ HasData' /\ PagesHaveData'
  BY <1>3, <1>4 DEF PagesInv, Chosen, HasData, PagesHaveData, found, opened
<1>9. ~hasty' => ~hasty /\ commits = {} /\ details = {} /\ loading = {}
  BY DEF bus_commit, Awaiting
<1>10. Quiet'
  BY <1>2, <1>3, <1>9 DEF Quiet, opened
<1>11. SearchShown' /\ DetailShown'
  BY <1>3, <1>9 DEF PagesInv, SearchShown, DetailShown, opened
<1> QED
  BY <1>5, <1>6, <1>7, <1>8, <1>10, <1>11 DEF PagesInv, TypeOK

-----------------------------------------------------------------------------
THEOREM PagesInit == Init => PagesInv
<1> SUFFICES ASSUME Init PROVE PagesInv
  OBVIOUS
<1>1. FormOK
  <2>1. text \in [Types -> Texts \cup {NoText}] /\ search_type \in Types
    BY DEF Init, NoForm, Types
  <2>2. vec \in [Types -> Queries \cup {NoRows}]
    BY DEF Init, NoVec
  <2>3. lists \subseteq Queries
    BY DEF Init
  <2> QED
    BY <2>1, <2>2, <2>3 DEF FormOK
<1>2. RequestsOK
  BY DEF Init, RequestsOK
<1>3. OpenedOK
  <2>1. loading = {} /\ stack \in Seq(Opened)
    BY EmptySeq DEF Init
  <2> QED
    BY <2>1 DEF OpenedOK, Opened
<1>4. FoundOK /\ hasty \in BOOLEAN
  BY DEF Init, FoundOK
<1>5. Chosen /\ HasData /\ Quiet
  BY DEF Init, Chosen, HasData, Quiet
<1>6. PagesHaveData /\ SearchShown /\ DetailShown
  <2>1. Len(stack) = 0
    BY EmptySeq DEF Init
  <2> QED
    BY <2>1 DEF PagesHaveData, SearchShown, DetailShown
<1> QED
  BY <1>1, <1>2, <1>3, <1>4, <1>5, <1>6 DEF PagesInv, TypeOK

(* The steps that leave what is under way, found and opened as it was.     *)
LEMMA FormStepKeeps ==
    ASSUME PagesInv, FormOK', hasty' \in BOOLEAN, hasty => hasty',
           UNCHANGED <<commits, details, page_url, found, opened>>
    PROVE  PagesInv'
<1>1. RequestsOK' /\ OpenedOK' /\ FoundOK'
  BY DEF PagesInv, TypeOK, RequestsOK, OpenedOK, FoundOK, AtIndex, found, opened
<1>2. Chosen' /\ HasData' /\ PagesHaveData'
  BY DEF PagesInv, Chosen, HasData, PagesHaveData, found, opened
<1>3. Quiet' /\ SearchShown' /\ DetailShown'
  BY DEF PagesInv, Quiet, SearchShown, DetailShown, found, opened
<1> QED
  BY <1>1, <1>2, <1>3 DEF PagesInv, TypeOK

(* A search's answer: what was found is stored, and its page opened.       *)
LEMMA AnswerKeeps ==
    ASSUME PagesInv, NEW c \in commits, CommitAnswer(c)
    PROVE  PagesInv'
<1>1. /\ c \in [of : Asked, tab : Types \cup {Live}]
      /\ page_url \in PageNames
      /\ commits' = commits \ {c}
      /\ UNCHANGED <<search_type, text, vec, lists, details, page_url, stack, hasty>>
  BY DEF PagesInv, TypeOK, RequestsOK, Chosen, CommitAnswer, form
<1>2. FormOK' /\ RequestsOK'
  BY <1>1 DEF PagesInv, TypeOK, FormOK, RequestsOK, AtIndex
<1>3. ASSUME UNCHANGED <<found, loading>> PROVE PagesInv'
  <2>1. OpenedOK' /\ FoundOK' /\ hasty' \in BOOLEAN
    BY <1>1, <1>3 DEF PagesInv, TypeOK, OpenedOK, FoundOK, found
  <2>2. Chosen' /\ HasData' /\ PagesHaveData'
    BY <1>1, <1>3 DEF PagesInv, Chosen, HasData, PagesHaveData, found
  <2>3. Quiet' /\ SearchShown' /\ DetailShown'
    BY <1>1, <1>3 DEF PagesInv, Quiet, SearchShown, DetailShown, found
  <2> QED
    BY <1>2, <2>1, <2>2, <2>3 DEF PagesInv, TypeOK
<1>4. ASSUME NEW rows \in {c.of, NoRows}, c.of[2] = NoText => rows = NoRows,
             Opens(rows), line_info' = rows, Open(c.of),
             last_search' = IF c.tab = Live THEN search_type ELSE c.tab
      PROVE  PagesInv'
  <2>1. rows # NoRows /\ rows = c.of /\ c.of \in Queries
    BY <1>1, <1>4 DEF Opens, Asked, Queries
  <2>2. FoundOK'
    <3>1. last_search' \in Types
      BY <1>1, <1>4 DEF PagesInv, TypeOK, FormOK
    <3> QED
      BY <1>1, <1>4, <2>1, <3>1 DEF PagesInv, TypeOK, FoundOK
  <2> DEFINE new == [page |-> page_url, of |-> c.of, from |-> "search",
                  came |-> TRUE]
  <2>3. /\ new \in Page
        /\ new.of = c.of /\ new.page = page_url
    BY <1>1 DEF Page
  <2>4. loading' = {new} \/ loading' = loading
    BY <1>4 DEF Open
  <2> HIDE DEF new
  <2>5. OpenedOK'
    BY <1>1, <2>3, <2>4 DEF PagesInv, TypeOK, OpenedOK, Page
  <2>6. Chosen' /\ HasData' /\ PagesHaveData'
    BY <1>1, <1>4, <2>1 DEF PagesInv, Chosen, HasData, PagesHaveData
  <2>7. Quiet'
    <3> SUFFICES ASSUME ~hasty PROVE Quiet'
      BY <1>1 DEF Quiet
    <3>1. /\ details = {} /\ loading = {} /\ commits' = {}
          /\ page_url = PageOf(c.of[1])
      BY <1>1 DEF PagesInv, Quiet
    <3> QED
      BY <1>1, <1>4, <2>1, <2>3, <2>4, <3>1 DEF Quiet
  <2>8. SearchShown' /\ DetailShown'
    BY <1>1 DEF PagesInv, SearchShown, DetailShown
  <2> QED
    BY <1>1, <1>2, <2>2, <2>5, <2>6, <2>7, <2>8 DEF PagesInv, TypeOK
<1> QED
  BY <1>3, <1>4 DEF CommitAnswer

(* A page is put on top of the others, with the data of this moment.       *)
LEMMA LoadKeeps ==
    ASSUME PagesInv, NEW p \in loading, PageLoaded(p)
    PROVE  PagesInv'
<1> DEFINE top == [page |-> p.page, of |-> p.of, from |-> p.from, came |-> p.came,
                  data |-> line_info]
<1>1. /\ loading # {} /\ loading' = {}
      /\ stack' = Append(stack, top)
      /\ UNCHANGED <<details, page_url, last_search, line_info, hasty>>
  BY DEF PageLoaded, found
<1>2. p \in Page /\ stack \in Seq(Opened) /\ line_info \in Queries \cup {NoRows}
  BY DEF PagesInv, TypeOK, OpenedOK, FoundOK, Page, Opened
<1>3. /\ top \in Opened
      /\ top.page = p.page /\ top.of = p.of /\ top.from = p.from
      /\ top.came = p.came /\ top.data = line_info
  BY <1>2 DEF Page, Opened
<1> HIDE DEF top
<1>4. /\ stack' \in Seq(Opened)
      /\ stack' # <<>>
      /\ Len(stack) \in Nat
      /\ Len(stack') = Len(stack) + 1
      /\ \A i \in 1 .. Len(stack) : stack'[i] = stack[i]
      /\ stack'[Len(stack) + 1] = top
  BY <1>1, <1>2, <1>3, AppendProperties, LenProperties
<1>5. FormOK'
  <2>1. CASE UNCHANGED form
    BY <2>1 DEF PagesInv, TypeOK, FormOK, form
  <2>2. CASE /\ search_type' = "type_sta" /\ text' = NoForm
             /\ vec' = NoVec /\ lists' = {}
    <3>1. text' \in [Types -> Texts \cup {NoText}] /\ search_type' \in Types
      BY <2>2 DEF NoForm, Types
    <3>2. vec' \in [Types -> Queries \cup {NoRows}]
      BY <2>2 DEF NoVec
    <3>4. lists' \subseteq Queries
      BY <2>2
    <3> QED
      BY <3>1, <3>2, <3>4 DEF FormOK
  <2> QED
    BY <2>1, <2>2 DEF PageLoaded
<1>6. RequestsOK'
  <2>1. details' \subseteq Queries
    BY <1>1 DEF PagesInv, TypeOK, RequestsOK
  <2>2. \A c \in commits' : c \in [of : Asked, tab : Types \cup {Live}] /\ c.tab # Live
    <3>1. CASE AtIndex /\ commits' = {Left(c) : c \in commits}
      <4> SUFFICES ASSUME NEW c \in commits
                   PROVE  /\ Left(c) \in [of : Asked, tab : Types \cup {Live}]
                          /\ Left(c).tab # Live
        BY <3>1
      <4>1. /\ c \in [of : Asked, tab : Types \cup {Live}]
            /\ search_type \in Types /\ search_type # Live
        BY DEF PagesInv, TypeOK, RequestsOK, FormOK, Types, Live
      <4>2. CASE c.tab = Live
        <5>1. Left(c) = [c EXCEPT !.tab = search_type]
          BY <4>2 DEF Left
        <5> QED
          BY <4>1, <5>1
      <4>3. CASE c.tab # Live
        BY <4>1, <4>3 DEF Left
      <4> QED
        BY <4>2, <4>3
    <3>2. CASE ~AtIndex /\ commits' = commits
      BY <3>2 DEF PagesInv, TypeOK, RequestsOK
    <3> QED
      BY <3>1, <3>2 DEF PageLoaded
  <2> QED
    BY <2>1, <2>2 DEF RequestsOK
<1>7. OpenedOK' /\ FoundOK' /\ hasty' \in BOOLEAN
  BY <1>1, <1>4 DEF PagesInv, TypeOK, OpenedOK, FoundOK, Opened
<1>8. commits' # {} => commits # {}
  BY DEF PageLoaded
<1>9. line_info # NoRows
  BY <1>1 DEF PagesInv, HasData
<1>10. Chosen' /\ HasData'
  BY <1>1, <1>8, <1>9 DEF PagesInv, Chosen, HasData
<1>11. ASSUME NEW i \in 1 .. Len(stack')
       PROVE  \/ i \in 1 .. Len(stack) /\ stack'[i] = stack[i]
              \/ stack'[i] = top
  <2>1. i \in 1 .. Len(stack) \/ i = Len(stack) + 1
    BY <1>4
  <2> QED
    BY <1>4, <2>1
<1>12. PagesHaveData'
  BY <1>3, <1>9, <1>11 DEF PagesInv, PagesHaveData
<1>13. Quiet'
  BY <1>1, <1>8 DEF PagesInv, Quiet
<1>14. SearchShown'
  <2> SUFFICES ASSUME ~hasty, NEW i \in 1 .. Len(stack'),
                      stack'[i].from = "search"
               PROVE  /\ stack'[i].data = stack'[i].of
                      /\ stack'[i].page = PageOf(stack'[i].of[1])
    BY <1>1 DEF SearchShown
  <2>1. CASE i \in 1 .. Len(stack) /\ stack'[i] = stack[i]
    BY <2>1 DEF PagesInv, SearchShown
  <2>2. CASE stack'[i] = top
    BY <1>3, <2>2 DEF PagesInv, Quiet
  <2> QED
    BY <1>11, <2>1, <2>2
<1>15. DetailShown'
  <2> SUFFICES ASSUME ~hasty, NEW i \in 1 .. Len(stack'),
                      stack'[i].from = "page", stack'[i].came
               PROVE  stack'[i].data = stack'[i].of
    BY <1>1 DEF DetailShown
  <2>1. CASE i \in 1 .. Len(stack) /\ stack'[i] = stack[i]
    BY <2>1 DEF PagesInv, DetailShown
  <2>2. CASE stack'[i] = top
    BY <1>3, <2>2 DEF PagesInv, Quiet
  <2> QED
    BY <1>11, <2>1, <2>2
<1> QED
  BY <1>5, <1>6, <1>7, <1>10, <1>12, <1>13, <1>14, <1>15 DEF PagesInv, TypeOK


(* A detail is asked for from a page, and its page opened at once.         *)
LEMMA DetailClickKeeps ==
    ASSUME PagesInv, NEW x \in Texts, DetailClick(x)
    PROVE  PagesInv'
<1> DEFINE q == <<OtherType(Top.data[1]), x>>
           new == [page |-> PageOf(q[1]), of |-> q, from |-> "page",
                  came |-> FALSE]
<1>1. q \in Queries /\ q \in Asked
  BY PagesAreNamed DEF Queries, Asked
<1>2. /\ ~AtIndex
      /\ details' = details \cup {q} /\ loading' = {new}
      /\ UNCHANGED <<search_type, text, vec, lists, commits, page_url,
                     last_search, line_info, stack>>
      /\ hasty' = (hasty \/ Awaiting)
  BY DEF DetailClick, form, found
<1>3. PageOf(q[1]) \in PageNames
  BY PagesAreNamed
<1>4. new \in Page /\ new.from = "page" /\ new.of = q /\ ~new.came
  BY <1>1, <1>3 DEF Page
<1> HIDE DEF q, new
<1>5. FormOK' /\ FoundOK' /\ hasty' \in BOOLEAN
  BY <1>2 DEF PagesInv, TypeOK, FormOK, FoundOK
<1>6. RequestsOK'
  BY <1>1, <1>2 DEF PagesInv, TypeOK, RequestsOK, AtIndex
<1>7. OpenedOK'
  BY <1>2, <1>4 DEF PagesInv, TypeOK, OpenedOK, Page
<1>8. Chosen' /\ HasData' /\ PagesHaveData'
  BY <1>2 DEF PagesInv, Chosen, HasData, PagesHaveData, AtIndex
<1>9. Quiet'
  <2> SUFFICES ASSUME ~hasty' PROVE Quiet'
    BY DEF Quiet
  <2>1. commits' = {} /\ details' = {q}
    BY <1>2 DEF Awaiting
  <2> QED
    BY <1>2, <1>4, <2>1 DEF Quiet
<1>10. SearchShown' /\ DetailShown'
  BY <1>2 DEF PagesInv, SearchShown, DetailShown
<1> QED
  BY <1>5, <1>6, <1>7, <1>8, <1>9, <1>10 DEF PagesInv, TypeOK

(* Its answer is stored, unless there is none.                             *)
LEMMA DetailAnswerKeeps ==
    ASSUME PagesInv, NEW q \in details, DetailAnswer(q)
    PROVE  PagesInv'
<1>1. /\ q \in Queries /\ q[1] \in Types /\ q # NoRows
      /\ details # {} /\ details' = details \ {q}
      /\ UNCHANGED <<search_type, text, vec, lists, commits, page_url,
                     stack, hasty>>
  BY NoRowsIsNoQuery
     DEF PagesInv, TypeOK, RequestsOK, DetailAnswer, Queries, form
<1>2. FormOK' /\ RequestsOK' /\ hasty' \in BOOLEAN
  BY <1>1 DEF PagesInv, TypeOK, FormOK, RequestsOK, AtIndex
<1>3. Chosen' /\ PagesHaveData' /\ SearchShown' /\ DetailShown'
  BY <1>1 DEF PagesInv, Chosen, PagesHaveData, SearchShown, DetailShown
<1>4. CASE DetailStored(q) /\ loading' = Came(q)
  <2>1. last_search' = q[1] /\ line_info' = q
    BY <1>4 DEF DetailStored
  <2>2. \A p \in loading' : \E r \in loading :
            /\ p \in Page /\ p.page = r.page /\ p.of = r.of /\ p.from = r.from
    <3> TAKE p \in loading'
    <3>1. PICK r \in loading : p = [r EXCEPT !.came = @ \/ r.of = q]
      BY <1>4 DEF Came
    <3>2. r \in Page
      BY DEF PagesInv, TypeOK, OpenedOK, Page
    <3> QED
      BY <3>1, <3>2 DEF Page
  <2>3. OpenedOK' /\ FoundOK'
    BY <1>1, <2>1, <2>2 DEF PagesInv, TypeOK, OpenedOK, FoundOK, Page
  <2>4. HasData'
    BY <1>1, <2>1 DEF HasData
  <2>5. Quiet'
    BY <1>1, <2>1, <2>2 DEF PagesInv, Quiet
  <2> QED
    BY <1>2, <1>3, <2>3, <2>4, <2>5 DEF PagesInv, TypeOK
<1>5. CASE UNCHANGED <<found, loading>>
  <2>1. OpenedOK' /\ FoundOK'
    BY <1>1, <1>5 DEF PagesInv, TypeOK, OpenedOK, FoundOK, found
  <2>2. HasData' /\ Quiet'
    BY <1>1, <1>5 DEF PagesInv, HasData, Quiet, found
  <2> QED
    BY <1>2, <1>3, <2>1, <2>2 DEF PagesInv, TypeOK
<1> QED
  BY <1>4, <1>5 DEF DetailAnswer

LEMMA BackKeeps ==
    ASSUME PagesInv, Back
    PROVE  PagesInv'
<1>1. /\ stack # <<>>
      /\ stack' = SubSeq(stack, 1, Len(stack) - 1)
      /\ UNCHANGED <<search_type, text, vec, lists, commits, details, page_url,
                     last_search, line_info, loading, hasty>>
  BY DEF Back, AtIndex, form, found
<1>2. stack \in Seq(Opened)
  BY DEF PagesInv, TypeOK, OpenedOK, Opened
<1>3. /\ Len(stack) \in Nat \ {0}
      /\ \A i \in 1 .. Len(stack) - 1 : stack[i] \in Opened
  <2>1. Len(stack) \in Nat \ {0}
    BY <1>1, <1>2, EmptySeq
  <2> QED
    BY <1>2, <2>1, ElementOfSeq
<1>4. /\ stack' \in Seq(Opened)
      /\ Len(stack') = Len(stack) - 1
      /\ \A i \in 1 .. Len(stack) - 1 : stack'[i] = stack[i]
  <2> DEFINE n == Len(stack) - 1
  <2>1. n \in Nat /\ n - 1 + 1 = n /\ \A i \in 1 .. n : stack[i] \in Opened
    BY <1>3
  <2> HIDE DEF n
  <2>2. /\ SubSeq(stack, 1, n) \in Seq(Opened)
        /\ Len(SubSeq(stack, 1, n)) = IF 1 <= n THEN n - 1 + 1 ELSE 0
        /\ \A i \in 1 .. n - 1 + 1 : SubSeq(stack, 1, n)[i] = stack[1 + i - 1]
    BY <2>1, SubSeqProperties
  <2>3. /\ Len(SubSeq(stack, 1, n)) = n
        /\ \A i \in 1 .. n : SubSeq(stack, 1, n)[i] = stack[i]
    BY <2>1, <2>2
  <2> QED
    BY <1>1, <2>2, <2>3 DEF n
<1>5. \A i \in 1 .. Len(stack') : i \in 1 .. Len(stack) /\ stack'[i] = stack[i]
  BY <1>3, <1>4
<1>6. FormOK' /\ RequestsOK' /\ FoundOK' /\ hasty' \in BOOLEAN
  BY <1>1 DEF PagesInv, TypeOK, FormOK, RequestsOK, FoundOK, AtIndex
<1>7. OpenedOK'
  BY <1>1, <1>4 DEF PagesInv, TypeOK, OpenedOK, Opened
<1>8. Chosen' /\ HasData'
  BY <1>1 DEF PagesInv, Chosen, HasData
<1>9. PagesHaveData'
  BY <1>5 DEF PagesInv, PagesHaveData
<1>10. Quiet'
  BY <1>1 DEF PagesInv, Quiet
<1>11. SearchShown' /\ DetailShown'
  BY <1>1, <1>5 DEF PagesInv, SearchShown, DetailShown
<1> QED
  BY <1>6, <1>7, <1>8, <1>9, <1>10, <1>11 DEF PagesInv, TypeOK

THEOREM PagesStep == PagesInv /\ [Next]_vars => PagesInv'
<1> SUFFICES ASSUME PagesInv, [Next]_vars PROVE PagesInv'
  OBVIOUS
<1>0. CASE UNCHANGED vars
  <2>1. FormOK' /\ hasty' = hasty /\ hasty' \in BOOLEAN
    BY <1>0 DEF vars, form, PagesInv, TypeOK, FormOK
  <2> QED
    BY <1>0, <2>1, FormStepKeeps DEF vars
<1>1. CASE li_click
  <2>1. FormOK'
    BY <1>1, PagesAreNamed DEF li_click, PagesInv, TypeOK, FormOK
  <2>2. (hasty => hasty') /\ hasty' \in BOOLEAN
    BY <1>1 DEF li_click, PagesInv, TypeOK
  <2> QED
    BY <1>1, <2>1, <2>2, FormStepKeeps DEF li_click
<1>2. ASSUME NEW x \in Texts \cup {NoText}, Typed(x) PROVE PagesInv'
  <2>1. FormOK'
    BY <1>2, BindKeepsForm DEF Typed, PagesInv, TypeOK
  <2>2. (hasty => hasty') /\ hasty' \in BOOLEAN
    BY <1>2 DEF Typed, PagesInv, TypeOK
  <2> QED
    BY <1>2, <2>1, <2>2, FormStepKeeps DEF Typed
<1>3. ASSUME NEW q \in lists, ListAnswer(q) PROVE PagesInv'
  <2>1. FormOK'
    <3>1. q \in Queries
      BY DEF PagesInv, TypeOK, FormOK
    <3>2. vec' \in [Types -> Queries \cup {NoRows}]
      BY <1>3, <3>1 DEF ListAnswer, ListSet, PagesInv, TypeOK, FormOK
    <3>3. lists' \subseteq Queries /\ UNCHANGED <<search_type, text>>
      BY <1>3 DEF ListAnswer, PagesInv, TypeOK, FormOK
    <3> QED
      BY <3>2, <3>3 DEF PagesInv, TypeOK, FormOK
  <2>2. (hasty => hasty') /\ hasty' \in BOOLEAN
    BY <1>3 DEF ListAnswer, PagesInv, TypeOK
  <2> QED
    BY <1>3, <2>1, <2>2, FormStepKeeps DEF ListAnswer
<1>4. CASE CommitClick
  <2>1. FormOK' /\ UNCHANGED stack
    BY <1>4 DEF CommitClick, bus_commit, opened, PagesInv, TypeOK, FormOK
  <2> QED
    BY <1>4, <2>1, CommitKeeps DEF CommitClick
<1>5. ASSUME NEW x \in Texts, search_li_click(x) PROVE PagesInv'
  <2>1. UNCHANGED <<stack, search_type>>
    BY <1>5 DEF search_li_click, bus_commit, opened
  <2>2. FormOK'
    <3>1. CASE search_bind(x)
      BY <2>1, <3>1, BindKeepsForm DEF PagesInv, TypeOK
    <3>2. CASE UNCHANGED <<text, vec, lists>>
      BY <2>1, <3>2 DEF PagesInv, TypeOK, FormOK
    <3> QED
      BY <1>5, <3>1, <3>2 DEF search_li_click
  <2> QED
    BY <1>5, <2>1, <2>2, CommitKeeps DEF search_li_click
<1>6. ASSUME NEW c \in commits, CommitAnswer(c) PROVE PagesInv'
  BY <1>6, AnswerKeeps
<1>7. ASSUME NEW p \in loading, PageLoaded(p) PROVE PagesInv'
  BY <1>7, LoadKeeps
<1>8. ASSUME NEW x \in Texts, DetailClick(x) PROVE PagesInv'
  BY <1>8, DetailClickKeeps
<1>9. ASSUME NEW q \in details, DetailAnswer(q) PROVE PagesInv'
  BY <1>9, DetailAnswerKeeps
<1>10. CASE Back
  BY <1>10, BackKeeps
<1> QED
  BY <1>0, <1>1, <1>2, <1>3, <1>4, <1>5, <1>6, <1>7, <1>8, <1>9, <1>10 DEF Next

(* The variables keep their shapes, and callbacks of a page that was left  *)
(* never take the tab of the one loaded anew.                              *)
THEOREM PagesTyped == Spec => []TypeOK
<1>1. PagesInv => TypeOK
  BY DEF PagesInv
<1> QED
  BY PagesInit, PagesStep, <1>1, PTL DEF Spec

(* However requests and pages are interleaved, a page is opened only when  *)
(* there is data for its script (bus_index.html:306).                      *)
THEOREM PagesAlwaysHaveData == Spec => []PagesHaveData
<1>1. PagesInv => PagesHaveData
  BY DEF PagesInv
<1> QED
  BY PagesInit, PagesStep, <1>1, PTL DEF Spec

(* Who waits for each answer sees what was searched on the page for it     *)
(* (bus_index.html:279-314).                                               *)
THEOREM SearchAlwaysShown == Spec => []SearchShown
<1>1. PagesInv => SearchShown
  BY DEF PagesInv
<1> QED
  BY PagesInit, PagesStep, <1>1, PTL DEF Spec

(* A station or line that was clicked is what its page shows, when its     *)
(* data came first and nothing else was under way (bus_line.html:87).      *)
THEOREM DetailAlwaysShown == Spec => []DetailShown
<1>1. PagesInv => DetailShown
  BY DEF PagesInv
<1> QED
  BY PagesInit, PagesStep, <1>1, PTL DEF Spec

-----------------------------------------------------------------------------
(* The lists of the search page, as long as the tab is not changed while   *)
(* one is asked for.                                                       *)
ListsAsked == ~hasty => \A q \in lists : q[1] = search_type

ListsInv == TypeOK /\ ListsAsked /\ ListsOfType

(* Typing asks for, or empties, a list of the tab shown.                   *)
LEMMA BindKeepsLists ==
    ASSUME ListsInv, NEW x \in Texts \cup {NoText}, search_bind(x),
           search_type' = search_type, hasty => hasty'
    PROVE  ListsAsked' /\ ListsOfType'
<1> SUFFICES ASSUME ~hasty' PROVE ListsAsked' /\ ListsOfType'
  BY DEF ListsAsked, ListsOfType
<1>1. search_type \in Types /\ vec \in [Types -> Queries \cup {NoRows}]
  BY DEF ListsInv, TypeOK, FormOK
<1>2. \A q \in lists' : q \in lists \/ q = <<search_type, x>>
  BY DEF search_bind
<1>3. \A t \in Types : vec'[t] = vec[t] \/ vec'[t] = NoRows
  BY <1>1 DEF search_bind
<1> QED
  BY <1>2, <1>3 DEF ListsInv, ListsAsked, ListsOfType

THEOREM ListsStep == ListsInv /\ TypeOK' /\ [Next]_vars => ListsInv'
<1> SUFFICES ASSUME ListsInv, TypeOK', [Next]_vars
             PROVE  ListsAsked' /\ ListsOfType'
  BY DEF ListsInv
<1>0. ASSUME UNCHANGED <<search_type, vec, lists>>, hasty => hasty'
      PROVE  ListsAsked' /\ ListsOfType'
  BY <1>0 DEF ListsInv, ListsAsked, ListsOfType
<1>a. CASE UNCHANGED vars
  BY <1>a, <1>0 DEF vars, form
<1>1. CASE li_click
  <2>1. (hasty' = FALSE => hasty = FALSE /\ lists = {}) /\ UNCHANGED <<vec, lists>>
    BY <1>1 DEF li_click, Listing, ListsInv, TypeOK
  <2> QED
    BY <2>1 DEF ListsInv, ListsAsked, ListsOfType
<1>2. ASSUME NEW x \in Texts \cup {NoText}, Typed(x)
      PROVE  ListsAsked' /\ ListsOfType'
  BY <1>2, BindKeepsLists DEF Typed
<1>3. ASSUME NEW q \in lists, ListAnswer(q) PROVE ListsAsked' /\ ListsOfType'
  <2>1. /\ vec' = [vec EXCEPT ![search_type] = q] \/
           vec' = [vec EXCEPT ![search_type] = NoRows] \/ vec' = vec
        /\ lists' \subseteq lists /\ UNCHANGED <<search_type, hasty>>
    BY <1>3 DEF ListAnswer, ListSet
  <2>2. search_type \in Types /\ vec \in [Types -> Queries \cup {NoRows}]
    BY DEF ListsInv, TypeOK, FormOK
  <2>3. \A t \in Types : \/ vec'[t] = vec[t]
                         \/ vec'[t] = NoRows
                         \/ t = search_type /\ vec'[t] = q
    BY <2>1, <2>2
  <2> QED
    BY <2>1, <2>3 DEF ListsInv, ListsAsked, ListsOfType
<1>4. CASE CommitClick
  BY <1>4, <1>0 DEF CommitClick, bus_commit
<1>5. ASSUME NEW x \in Texts, search_li_click(x) PROVE ListsAsked' /\ ListsOfType'
  <2>1. search_type' = search_type /\ (hasty => hasty')
    BY <1>5 DEF search_li_click, bus_commit
  <2>2. CASE search_bind(x)
    BY <2>1, <2>2, BindKeepsLists
  <2>3. CASE UNCHANGED <<text, vec, lists>>
    BY <2>1, <2>3, <1>0
  <2> QED
    BY <1>5, <2>2, <2>3 DEF search_li_click
<1>6. ASSUME NEW c \in commits, CommitAnswer(c) PROVE ListsAsked' /\ ListsOfType'
  BY <1>6, <1>0 DEF CommitAnswer, form
<1>7. ASSUME NEW p \in loading, PageLoaded(p) PROVE ListsAsked' /\ ListsOfType'
  <2>1. CASE UNCHANGED form
    BY <1>7, <2>1, <1>0 DEF PageLoaded, form
  <2>2. CASE vec' = NoVec /\ lists' = {}
    BY <2>2 DEF NoVec, ListsAsked, ListsOfType
  <2> QED
    BY <1>7, <2>1, <2>2 DEF PageLoaded
<1>8. ASSUME NEW x \in Texts, DetailClick(x) PROVE ListsAsked' /\ ListsOfType'
  BY <1>8, <1>0 DEF DetailClick, form
<1>9. ASSUME NEW q \in details, DetailAnswer(q) PROVE ListsAsked' /\ ListsOfType'
  BY <1>9, <1>0 DEF DetailAnswer, form
<1>10. CASE Back
  BY <1>10, <1>0 DEF Back, form
<1> QED
  BY <1>a, <1>1, <1>2, <1>3, <1>4, <1>5, <1>6, <1>7, <1>8, <1>9, <1>10 DEF Next

(* Unless the tab is changed too early, answers fill the list of their own *)
(* type (bus_index.html:195-204).                                          *)
THEOREM ListsAlwaysOfType == Spec => []ListsOfType
<1>1. Init => ListsAsked /\ ListsOfType
  BY DEF Init, NoVec, ListsAsked, ListsOfType
<1>2. PagesInv /\ ListsAsked /\ ListsOfType /\ [Next]_vars
        => (PagesInv /\ ListsAsked /\ ListsOfType)'
  BY PagesStep, ListsStep DEF PagesInv, ListsInv
<1> QED
  BY PagesInit, <1>1, <1>2, PTL DEF Spec

=============================================================================
