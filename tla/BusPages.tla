------------------------------ MODULE BusPages ------------------------------
(***************************************************************************)
(* Searching lines and stations (bus/bus_index.html) and the pages that    *)
(* show what was found (bus_line.html, bus_sta.html).  All pages live in   *)
(* one document; what one finds, the next reads from window.bus_data_arr.  *)
(*                                                                         *)
(* A query is <<type, text>>, and rows are named by the query they answer. *)
(* Answers come late, in any order, or never.                              *)
(***************************************************************************)
EXTENDS Integers, Sequences, FiniteSets

CONSTANTS
    Texts,       \* what may be typed, or be the name in a row
    NoText,      \* the empty string
    NoRows,      \* an empty list; for a page, that there is none
    MayFail,     \* whether a request may fail
    MaxLists,    \* bound: queries of lists under way that are answered
    MaxWaiting,  \* bound: searches, and details, under way
    MaxDepth     \* bound: pages opened on top of the search page

ASSUME BusPagesAssumption ==
    /\ NoText \notin Texts
    /\ NoRows \notin {"type_line", "type_sta"} \X Texts
    /\ MayFail \in BOOLEAN
    /\ MaxLists \in Nat /\ MaxWaiting \in Nat /\ MaxDepth \in Nat

VARIABLES
    search_type, text,    \* the tab, and the text of each tab
    vec,                  \* search_line_vec and search_sta_vec, by type
    lists,                \* queries of a list under way
    commits,              \* searches under way, each with the tab it will see
    details,              \* requests of a detail page under way
    page_url,             \* a global: the page of the last search
    last_search, line_info,  \* window.bus_data_arr
    loading,              \* pages being opened
    stack,                \* pages opened on top of the search page
    hasty                 \* history: whether an answer was not waited for

form    == <<search_type, text, vec, lists>>
found   == <<last_search, line_info>>
opened  == <<loading, stack>>
vars    == <<form, commits, details, page_url, found, opened, hasty>>

Types == {"type_line", "type_sta"}
OtherType(t) == IF t = "type_line" THEN "type_sta" ELSE "type_line"
Queries == Types \X Texts
Asked == Types \X (Texts \cup {NoText})

(* The page that can show the rows of a search, by the page's own script.  *)
PageOf(t) == IF t = "type_line" THEN "bus_line.html" ELSE "bus_sta.html"

(* While the search page is shown, its view model is the live one; once it *)
(* was left, its callbacks see the tab that was chosen last.               *)
Live == "live"

AtIndex == stack = <<>>
Awaiting == commits # {} \/ details # {} \/ loading # {}
Listing == lists # {}
Top == stack[Len(stack)]

NoForm == [t \in Types |-> NoText]
NoVec  == [t \in Types |-> NoRows]

Init ==
    /\ search_type = "type_sta" /\ text = NoForm
    /\ vec = NoVec /\ lists = {}
    /\ commits = {} /\ details = {} /\ page_url = ""
    /\ last_search = "" /\ line_info = NoRows
    /\ loading = {} /\ stack = <<>>
    /\ hasty = FALSE

-----------------------------------------------------------------------------
(* The search page.                                                        *)

(* Another tab.                                                            *)
li_click ==
    /\ AtIndex
    /\ search_type' = OtherType(search_type)
    /\ hasty' = (hasty \/ Awaiting \/ Listing)
    /\ UNCHANGED <<text, vec, lists, commits, details, page_url, found, opened>>

(* The text of the tab has changed: its list is asked for, or emptied.     *)
search_bind(x) ==
    /\ text' = [text EXCEPT ![search_type] = x]
    /\ \/ /\ x = NoText
          /\ vec' = [vec EXCEPT ![search_type] = NoRows]
          /\ UNCHANGED lists
       \/ /\ x # NoText
          /\ lists' = IF Cardinality(lists) < MaxLists
                      THEN lists \cup {<<search_type, x>>} ELSE lists
          /\ UNCHANGED vec

Typed(x) ==
    /\ AtIndex /\ x # text[search_type]
    /\ search_bind(x)
    /\ UNCHANGED <<search_type, commits, details, page_url, found, opened, hasty>>

MutListOfQuery(q, rows) == vec' = [vec EXCEPT ![OtherType(q[1])] = rows]

(* The list of the tab of this moment gets the rows.                       *)
ListSet(q, rows) == vec' = [vec EXCEPT ![search_type] = rows]

ListAnswer(q) ==
    /\ q \in lists /\ lists' = lists \ {q}
    /\ \/ \E rows \in {q, NoRows} : ListSet(q, rows)
       \/ MayFail /\ UNCHANGED vec
    /\ UNCHANGED <<search_type, text, commits, details, page_url, found, opened, hasty>>

MutPageOfLast == page_url' = PageOf(last_search)

PageChosen == page_url' = PageOf(search_type)

(* The form is sent with both texts and the type.                          *)
bus_commit ==
    /\ Cardinality(commits) < MaxWaiting
    /\ PageChosen
    /\ commits' = commits \cup {[of |-> <<search_type, text'[search_type]>>, tab |-> Live]}
    /\ hasty' = (hasty \/ Awaiting)
    /\ UNCHANGED <<search_type, details, found, opened>>

CommitClick ==
    /\ AtIndex
    /\ UNCHANGED <<text, vec, lists>>
    /\ bus_commit

(* A row of the list: its name becomes the text, and is searched.          *)
search_li_click(x) ==
    /\ AtIndex
    /\ vec[search_type] # NoRows /\ vec[search_type][1] = search_type
    /\ \/ x # text[search_type] /\ search_bind(x)
       \/ x = text[search_type] /\ UNCHANGED <<text, vec, lists>>
    /\ bus_commit

MutOpens(rows) == TRUE

(* Only what was found is stored and shown; else an alert.                 *)
Opens(rows) == rows # NoRows

(* The hidden button is clicked, if the search page is still in the        *)
(* document; bound: one page is opened at a time.                          *)
Open(of) ==
    \/ /\ AtIndex /\ loading = {}
       /\ loading' = {[page |-> page_url, of |-> of, from |-> "search",
                       came |-> TRUE]}
    \/ /\ ~AtIndex /\ UNCHANGED loading

CommitAnswer(c) ==
    /\ c \in commits /\ commits' = commits \ {c}
    /\ \/ \E rows \in {c.of, NoRows} :
           /\ c.of[2] = NoText => rows = NoRows
           /\ \/ /\ Opens(rows)
                 /\ last_search' = IF c.tab = Live THEN search_type ELSE c.tab
                 /\ line_info' = rows
                 /\ Open(c.of)
              \/ ~Opens(rows) /\ UNCHANGED <<found, loading>>
       \/ MayFail /\ UNCHANGED <<found, loading>>
    /\ UNCHANGED <<form, details, page_url, stack, hasty>>

-----------------------------------------------------------------------------
(* The pages opened.                                                       *)

MutLeft(c) == c

(* A search whose page was left sees the tab that page had.                *)
Left(c) == IF c.tab = Live THEN [c EXCEPT !.tab = search_type] ELSE c

(* The script of the page reads what was found at this moment.  The search *)
(* page leaves the document when the first page is shown.                  *)
PageLoaded(p) ==
    /\ p \in loading /\ loading' = {}
    /\ stack' = Append(stack, [page |-> p.page, of |-> p.of, from |-> p.from,
                               came |-> p.came, data |-> line_info])
    /\ \/ /\ AtIndex
          /\ commits' = {Left(c) : c \in commits}
          /\ search_type' = "type_sta" /\ text' = NoForm
          /\ vec' = NoVec /\ lists' = {}
       \/ ~AtIndex /\ UNCHANGED <<commits, form>>
    /\ UNCHANGED <<details, page_url, found, hasty>>

(* sta_click and line_click: the data is asked for and, as the returned    *)
(* FALSE is not heeded, the link is followed at once.  Bound: not to what  *)
(* is open already, which would be shown as it is.                         *)
DetailClick(x) ==
    /\ ~AtIndex /\ Len(stack) < MaxDepth /\ loading = {}
    /\ Cardinality(details) < MaxWaiting
    /\ PageOf(Top.data[1]) = Top.page
    /\ LET q == <<OtherType(Top.data[1]), x>>
       IN /\ \A i \in 1 .. Len(stack) : stack[i].from = "page" => stack[i].of # q
          /\ details' = details \cup {q}
          /\ loading' = {[page |-> PageOf(q[1]), of |-> q, from |-> "page",
                         came |-> FALSE]}
    /\ hasty' = (hasty \/ Awaiting)
    /\ UNCHANGED <<form, commits, page_url, found, stack>>

MutDetailStored(q) == last_search' = q[1] /\ UNCHANGED line_info

DetailStored(q) == last_search' = q[1] /\ line_info' = q

(* The page being opened for q still has its data before it.               *)
Came(q) == {[p EXCEPT !.came = @ \/ p.of = q] : p \in loading}

DetailAnswer(q) ==
    /\ q \in details /\ details' = details \ {q}
    /\ \/ DetailStored(q) /\ loading' = Came(q)
       \/ UNCHANGED <<found, loading>>
    /\ UNCHANGED <<form, commits, page_url, stack, hasty>>

(* The page left is taken out of the document (index.html); the search     *)
(* page is loaded anew.                                                    *)
Back ==
    /\ ~AtIndex /\ loading = {}
    /\ stack' = SubSeq(stack, 1, Len(stack) - 1)
    /\ UNCHANGED <<form, commits, details, page_url, found, loading, hasty>>

Next ==
    \/ li_click
    \/ \E x \in Texts \cup {NoText} : Typed(x)
    \/ \E q \in lists : ListAnswer(q)
    \/ CommitClick
    \/ \E x \in Texts : search_li_click(x)
    \/ \E c \in commits : CommitAnswer(c)
    \/ \E p \in loading : PageLoaded(p)
    \/ \E x \in Texts : DetailClick(x)
    \/ \E q \in details : DetailAnswer(q)
    \/ Back

Spec == Init /\ [][Next]_vars

-----------------------------------------------------------------------------
FormOK ==
    /\ search_type \in Types /\ text \in [Types -> Texts \cup {NoText}]
    /\ vec \in [Types -> Queries \cup {NoRows}]
    /\ lists \subseteq Queries

RequestsOK ==
    /\ commits \subseteq [of : Asked, tab : Types \cup {Live}]
    /\ details \subseteq Queries
    /\ ~AtIndex => \A c \in commits : c.tab # Live

PageNames == {"bus_line.html", "bus_sta.html"}

OpenedOK ==
    /\ loading \subseteq [page : PageNames, of : Asked, from : {"search", "page"},
                         came : BOOLEAN]
    /\ stack \in Seq([page : PageNames, of : Asked, from : {"search", "page"},
                      came : BOOLEAN, data : Queries \cup {NoRows}])

FoundOK ==
    /\ page_url \in PageNames \cup {""}
    /\ last_search \in Types \cup {""}
    /\ line_info \in Queries \cup {NoRows}

(* The variables keep their shapes, and no callback takes the tab of a     *)
(* search page that was left for that of the one loaded anew.              *)
TypeOK == FormOK /\ RequestsOK /\ OpenedOK /\ FoundOK /\ hasty \in BOOLEAN

(* A page is opened only when there is data for its script to read.        *)
PagesHaveData == \A i \in 1 .. Len(stack) : stack[i].data # NoRows

(* A passenger who waits for each answer before the next search sees, on   *)
(* the page that fits, what was searched; the four places it goes through  *)
(* - form, page_url, bus_data_arr, and the page's script - agree.          *)
SearchShown ==
    ~hasty => \A i \in 1 .. Len(stack) : stack[i].from = "search" =>
        /\ stack[i].data = stack[i].of
        /\ stack[i].page = PageOf(stack[i].of[1])

(* Unless the tab is changed while a list is asked for, the rows in a      *)
(* tab's list are of its type.                                             *)
ListsOfType ==
    ~hasty => \A t \in Types : vec[t] # NoRows => vec[t][1] = t

(* A station, or a line, that was clicked is what its page shows (bus_line *)
(* 87, bus_sta 72) - if the answer came before the page's script ran, and  *)
(* nothing else was under way; nothing makes the page wait for it.         *)
DetailShown ==
    ~hasty => \A i \in 1 .. Len(stack) :
        stack[i].from = "page" /\ stack[i].came => stack[i].data = stack[i].of
=============================================================================
