# wifi-bus-app: specifications

The system is the on-board web application of a bus. A GoAhead web server runs
in the vehicle with the application's own actions (C) over a SQLite database of
lines and stations; passengers and the driver open jQuery Mobile pages in their
browsers; a driver unit, which is not in the repository, reports the bus's
progress to the server.

Paths below are relative to the repository: `APP` is `src/src/`, `WEB` is
`src/app_public/webserver/web/`, `GA` is `src/bus_webserver/src/`.
`PROJECT.json` maps every definition to the lines it models.

## 1. The system

| part | state | operations | talks to |
|---|---|---|---|
| `bus_config` action, `APP/webserver/rq_bus_config.c` | `bus_num`, `bus_derection`, `bus_cur_line_info`, `bus_sta_status[]`, `bus_cur_sta`: all static memory | get and set of `rq_type=cur_line` and of `rq_type=sta_status` | the database; the live line page, the configuration page, the driver unit |
| driver unit | the trip | one report per stop and phase | `sta_status` requests |
| `js/position_cmp.js` | the line, the reminder, the nearest station last found | `set_line_sta`, `set_remind_sta`, `set_reminde_threshold`, `rebuild_dis`, the two checks | the live line page |
| live line page, `WEB/realtime/cur_line.html` | retries, locating way and object, reminder, stations already announced | answers of the server, of the map service, of three ways to a position; the panel | `bus_config`, `bus_realtime`, the map service, `position_cmp` |
| travel plan page, `WEB/realtime/ride_result.html` | both ends (and as given), the way and options, lists, fare | answers of the map service, clicks on ways, options, lists, return trip | the map service; `bus_ride.html` through globals |
| read-only actions, `APP/webserver/rq_bus.c`, `rq_bus_realtime.c`, `rq_help.c`, with `APP/dbif/` | none between requests | searches of lines and stations, the router's position, a comment | the database, json-c |
| search pages, `WEB/bus/bus_index.html`, `bus_line.html`, `bus_sta.html` | the form, its lists, `page_url`, `window.bus_data_arr`, the pages open | typing, searching, following a station or line, going back | `bus_base` requests |
| configuration page, `WEB/config/bus_config_cur_line_cfg.html` | the name typed, the direction chosen and `set_dir`, the line shown | set, get, the line as the map service has it | `bus_config` |
| ride form, `WEB/realtime/bus_ride.html` | the locating timer, the position last seen, both boxes | locating, handing over both ends | the travel plan page, which it opens in its own document and shares its globals with |
| GoAhead's output, `GA/http.c`, `GA/runtime.c` | `output`, `chunkbuf`, the chunk being written, flags of the request | `websWrite`, `websFlush`, `websDone`, the file writer, events of the socket, timeout | every action; the browser |
| rest of GoAhead, `GA` | connections, sessions, routes, users | the event loop, accepting, parsing, routing | everything above |
| database opening, server start | one handle, a semaphore nobody takes | open, register the actions, run | |
| periphery, home, help, weather pages | what one answer brought | links | other sites |

Where it is hard, and what makes each part correct:

- **Server.** GoAhead serves one handler at a time, so requests do not
  interleave; the hard part is the *sequence* of legal requests, the boundary
  of the status array, a request of which one step fails, and that everything
  is lost by a restart. Correct is: the cached line belongs to the name and
  direction configured; a report touches its own entry and a neighbour's only;
  what is shown agrees with where the bus is.
- **Output.** An answer leaves in pieces: two ring buffers that neither grow nor
  wrap for their readers, a chunk whose prefix or data may be interrupted at any
  byte and is resumed by another event, a socket that takes what it likes.
  Correct is: no byte out of place, none twice, the end only after the last,
  and a request that waits is woken or closed.
- **Driver unit.** Its reports may be lost or repeated: stations left behind
  are shown so all the same, and the display only moves forward.
- **Pages.** A browser runs one callback at a time and to its end; the hard
  part is the order of the answers. Each page asks several services, answers
  come late, out of order or never, the user goes on meanwhile, and callbacks
  use what is in a variable when they run and not what was there when they were
  asked for. Correct is: announced once and always (live line page), the panel
  shows plans by the options ticked (plan page), a visit shows its own journey
  with its own addresses, and nothing of the visit before (ride form and plan
  page), a page shows what was searched (search pages), and what the driver
  stored is what the page shows (configuration page).
- **Read-only actions.** Three searches and as many allocations behind one
  answer, each of which may fail: no rows are read that are not held, none are
  left behind, and a JSON object is put by its owner.

Every hazard, at its line, with the properties about it or the reason there is
none yet, is in `PROJECT.json`.

## 2. The modules

| module | models | uses | theorems |
|---|---|---|---|
| `BusConfig` | `rq_bus_config.c`, both request types, and a restart | | `BusConfigProofs` |
| `BusTrip` | a driver unit on one line | extends `BusConfig`, implements `TripBoard` | `BusConfigProofs` |
| `TripBoard` | abstract: what the status of a station may say of the bus | | |
| `ConfigPage` | the configuration page | extends `BusConfig` | `BusConfigProofs` |
| `PosCmp` | `position_cmp.js`, its loop turn by turn | | `PosCmpProofs` |
| `CurLine` | `cur_line.html`, which uses the result of `PosCmp` | | `CurLineProofs` |
| `RideResult` | `ride_result.html`: ways, options, plans, fare | | `RideResultProofs` |
| `RideVisits` | `bus_ride.html` and `ride_result.html`, visit after visit: ends, labels, lists of stations | | `RideVisitsProofs` |
| `BusSearch` | the read-only actions | | `BusSearchProofs` |
| `BusPages` | the search pages | | `BusPagesProofs` |
| `WebsBuf` | the ring buffers of `runtime.c` | | |
| `HttpOutput` | the output of one answer, `http.c` | extends `WebsBuf`, implements `ByteStream` | `HttpOutputProofs` |
| `ByteStream` | abstract: what a client is promised of an answer | | |

Each component has an `...MC` module with the values TLC uses. Definitions keep the names
of the source (`set_bus_config_bus_num`, `bus_commit`, `reselect_point`).
Definitions whose names begin with `Mut` are not part of a specification: each
is a plausible mistake in the definition that follows it, and shows that a
property notices it.

### BusConfig

One request is one step, since GoAhead calls one handler at a time and none
yields. `CurLineSet` is the whole handler: name, direction, rendered line, in
the code's order; the fuzzy search after the exact one, and a failure of either
station search, leave their part of the line empty in `Rendered`. The line is
rendered with `snprintf` into 10 KB (`rq_bus_config.c:283`): of `LongLines` the
end may be cut off (`whole = FALSE`), depending on which parts were found, and
the rest is cached all the same. Names are model values; a name longer than
`bus_num` is clipped by `Clip`, so two may become one. Entries keep the integers
the C code writes, `memset`'s byte values included (`Bytes`). `bus_cur_sta` is
written (`rq_bus_config.c:320`) and never read; no property rests on it.

`bus_sta_status[BUS_STA_MX_COUNT]` is not an element of the array. Where that
write lands is the linker's choice: `Neighbours` says which statics may follow
the array in the build, and `WritePastEnd` chooses among them.

### BusTrip and TripBoard

The bus runs `Begin`, then `Leave`, `Approach`, `Arrive` for every station,
`Finish`. `lossy` is chosen once, at the beginning: on a way that may lose
reports, each one arrives or is lost. The last one may be repeated (`Retry`);
the server may restart. `unheard` is what the server cannot know. The order of
reports is that of the report kinds in `src/h/web_app_h/rq_head.h`.

What the server shows is the status array, `StationsShown`: the answer to a get
(`rq_bus_config.c:347-368`) read by the enumeration of `rq_head.h`, where a
number that is in none of its places says nothing. `TripBoard` promises that
every report heard shows the bus's own station as it is and says nothing untrue
of another: each entry keeps what it said or says what is true now (`Heard`). At
the ends of a trip entries may fall silent (`TakenBack`), a restart silences all
(`Dark`). `BusTrip` implements it (`ShowsTruth`) on every way, those that lose
reports included: losses leave gaps and old entries, never a new untruth.

### ConfigPage

Page and server together: `Handle` is a request reaching `BusConfig`'s whole
handler, `Others` any step of `BusConfig` by another client (or a restart) that
changes the line. `asked` and `answered` are the calls on their way there and
back; `Lose` takes one of either. A set is followed by a get whatever its
answer was, as in the code. `set_dir` is the hidden input that stays empty (0)
until the select is changed, while an option shows as selected from the start.
A line that was cut off is no JavaScript: `eval` throws
(`bus_config_cur_line_cfg.html:125`) and the page keeps what it showed
(`GetAnswered`). `typed`, `hasty` and `mine` are history: the name the driver typed last,
whether he did so while an answer was due, and his last set if nothing
interfered with it.

### PosCmp

A position is the tuple of its distances to the stations; only their order and
two limits (50 m, the threshold) matter, so the haversine formula is left out.
The loop of `rebuild_dis` is a step per turn so that its invariant can be
stated; the settings change only between callbacks (`pc = "idle"`). A line may
have no stations (`cur_line.html:440`, `450`), also after one that had some: with
a reminder kept from that one, `check_threshold` throws (`result = "error"`).

### CurLine

A position is what `PosCmp` makes of it: nearest station, and on it, near it or
far. `pending` counts the locate requests under way by kind, so a request
begun with the browser is answered after a switch to the router. `search` and
`timer` are the map service's callbacks and the interval timer. `alerts`,
`arrivals`, `approaches` and `heard` are history variables: the alerts are the
page's output and are kept nowhere in its own state.

### RideResult

A search goes by its way, the option ticked, and whether the journey is turned
round (`Goal`). Each is made by an object of its own, but all of one way render
into one panel (`ride_result.html:241-246`), so `transit_callback` takes any of
the searches under way, earlier ones too, and `shown` is what the panel of a way
was filled from last. `asked` and `overtaken` are history: the last search of a
way, and the ways whose last answer an earlier one has overwritten. `delayed` is
the click the page makes itself after three seconds (`517`); the passenger may
click before it. The fare is asked for with a search by bus and has no panel.
What the handlers do to ends, labels and lists is in `RideVisits`.

### RideVisits

jQuery Mobile loads the plan page into the document of the form
(`page = "loading"`, then its script has run, `"loaded"`, then it shows,
`"plan"`) and takes it out again when it is left. The globals stay, and so do
the requests under way: `local` marks those of an earlier visit with
`own = FALSE`, `Back` lets `MaxLate` of them come late. The form's locating timer
is never cleared, so `PositionAnswer` and `AddressAnswer` happen under the plan
page too. A point is the position located or the text typed, and a station found
is named by the text it was found for, since which station the map service
chooses is not the page's business; an address is named by its position. Requests
alike are one member of a set that may stay when one of them is answered.
`re_search` looks up the ends again and writes the labels from `pos_str`, which
the form shares. Two history variables name what the code does not prevent in a
visit: `foreign`, the form learned the address of another position and wrote it
into `pos_str`, or the journey was turned round while an address was under way;
`hasty`, stations may come for other ends than those shown.

### BusSearch

A handler runs to its answer, in steps, since what matters is what is held when
a step fails. `mem` are the blocks of rows and the text, `json` the objects,
`puts` the `json_object_put` calls still to come. An object put twice may go
unnoticed or end the process (`pc = "dead"`), after which the server is started
again.

### BusPages

A query is `<<type, text>>` and rows are named by the query they answer. All
pages live in one document: `stack` are the pages opened, `loading` the one
being loaded, and a page's data is what `window.bus_data_arr` holds when its
script runs. A search whose page was left keeps the view model of that page
(`tab`). `came` tells whether the answer for a detail page came before the
page's script ran; the code opens the page without waiting for it. `hasty`
remembers whether the passenger did something before an answer
it may depend on; the properties about what is shown are for one who waits.

### WebsBuf, HttpOutput and ByteStream

`WebsBuf` is the buffer of `runtime.c` with its offsets: `Put` goes around the
end, `Room` and `Straight` do not, `Compact` drops what lies around the end. That
these differences never bite is `RingsInPlace`, a property and no assumption:
`Straight` yields `Junk` where a reader leaves the memory.

`HttpOutput` is one answer. The handler (`WriteHeaders`, `WriteBlock`,
`PutBlock`, `websDone`) runs in one thread; `websFlush` is the steps from
`"chunk"` and `"send"` on, with `caller` as its return address; one step is one
turn of a loop of `flushChunkData` or of the sending loop. `kind` is an answer
of unknown length in chunks, one of known length, or a file written by the
background writer (`fileWriteEvent`); a HEAD request for a file (`file.c:96-99`)
does what a file of size 0 does. The socket takes any number of bytes, none, or
breaks: a `Send` or part of a file's block, then the break, is `socketWrite`
returning an error after bytes it has sent (`socket.c:778-785`). After it said
it is writable it takes at least one. `Reads` is
the client, which notices every byte out of place, and `After` what it is once it
has read several.

`ByteStream` promises the bytes taken from the handler, in order, and an end
only after the last of them. `HttpOutput` implements it with `taken <- size -
left`, `got` the bytes the client has read and `ended` whether it has read the
last chunk.

## 3. What is checked

Each run is exhaustive over its instance.

| run | question | instance |
|---|---|---|
| `BusConfig` | does any sequence of requests, failures and restarts break the types, show a value the code cannot write, or part the cached line from the configuration? | 2 names, 2 clipped names, 1 line, 4 entries, first and last index and one beyond each, all directions and reports |
| `BusTrip` | do lost and repeated reports, or a restart, leave a station behind the bus unpassed; does a trip write past the array; does what is shown implement `TripBoard`, losses or none? | a line as long as the array (4) |
| `BusTripAhead` | after an accepted BEGIN, is a station ahead shown as passed? *violated* | as above |
| `ConfigPage` | does the page show what was stored, whatever calls are lost or late and whoever else changes the line? | 2 names, 1 clipped to one of them, 1 line, which may be cut off, 2 directions, 2 calls under way |
| `PosCmp` | is the first of the nearest stations found, and does no verdict rest on an old position? does a callback end? | lines of none to 3 stations, distances on and just beyond both limits |
| `CurLine` | is every name announced, and once, whatever the order of answers? is the reminder that of the menu? does the polling end? | a ring of 3 stations with a repeated name, 2 requests of a kind, 4 tries |
| `RideResult` | does the panel show plans by the options ticked, whatever is clicked, changed, turned and answered late? are buses searched in the end? | clicks on bus and car, 2 ticks of each of the 3 groups, 1 earlier search, 1 fare |
| `RideVisits` | does a visit show the journey committed for it, and the addresses of its own positions, turned round and searched anew, whatever an earlier visit left under way? | 2 texts, 2 positions, 1 late search |
| `BusSearch` | what is read, what is left and what is put, after each outcome of each search? | all; the module has no constants |
| `BusPages` | does a page always have data, and the data searched or clicked? do lists hold rows of their type? | 2 texts, 2 lists, 1 search and 1 detail under way, 2 pages |
| `HttpOutput` | do bytes reach the client in order and once, and is none lost but those the handler was told of; does a waiting request wake; does every answer end? | buffers of 11 bytes, bodies of 0, 1, 5, 10 and 13 |
| `HttpOutputCut` | is an answer complete only when all of it is written? *violated* | as above |

### Bounds, and why they are enough

- `BUS_STA_MX_COUNT` (64 in the code) is 4. A quarter of the array is what
  `memset` reaches, one entry here, and three that it does not. `EdgeSeqs` keeps the indices at and beyond both
  ends; those between differ only in their number and are all visited in
  `BusTrip`. The theorems hold for every size that is a multiple of 4.
- `MaxSize` 3: a nearest station at the start, in the middle, at the end, and
  two as near. `Dists` sits on each limit and one beyond, so that `<` and `<=`
  differ.
- `ReqLimit` 4 for the code's 10: the page counts up and compares; `MaxPending`
  2: two answers of a kind can change places. `MaxPending` guards the tick of
  the timer and the conversion, so a third request waits; nothing but its
  number is lost.
- `RideResult`: all three groups have two ticks, so that a change, its opposite
  and the same again occur, and the two groups of one way are mixed. `Clicked`
  leaves out walking, which has no options and goes through the same handler;
  the theorem holds with it. Of the searches that are no way's last one,
  `MaxEarlier` 1 may still be answered: one late answer is enough to overwrite a
  panel. `MaxPending` saturates (`More`): one more fare than the bound is as if
  not asked, an answer that never comes.
- `MaxLists`: a list beyond it is asked for and never answered. `MaxWaiting`
  bounds searches and details; `MaxDepth` the pages; one page is loaded at a
  time; a detail already open is not opened again, as the framework would show
  the page it has. Two pages are the least for a detail of a detail.
- The texts are compared with each other and never looked into: `BusPages` uses
  their symmetry; it checks no liveness.

- `ConfigPage`: a set needs one call and so does the get after it; with 2 of
  them answers change places, and a get overtakes the set before it. Its `VIEW`
  leaves out the reply and the status array, which the page never reads, and the
  numbers that tell calls alike apart. Its one line may be cut off, or not. One
  direction of the select is 1, which shows as selected without having been
  chosen, and the other 2.
- `RideVisits`: two texts and two positions, so that what is left over can
  differ from what is shown; both are only compared, hence the symmetry. One
  search that comes late is enough to fall into another visit; a second one
  could only do the same.
- `HttpOutput`: `BufLen` 11 stands for the code's 16384 (`bufCreate` rounds
  `BIT_GOAHEAD_LIMIT_BUFFER + 1` up, and neither buffer may grow beyond that),
  `CHUNK_LOW` 2 for 128, `Reserve` 2 for 16. `Sizes` are below, at
  and above what a ring holds, so that the handler writes in one piece, flushes
  in between, and gives up. A prefix is 1 or 2 bytes, so that it may be
  interrupted in the middle if there were too little room. The theorems hold for
  all sizes that keep the named order.

Deadlock is checked in every run but `HttpOutput` and `HttpOutputCut`: none of
the other programs stops, and an answer does.

### Fairness

- `CurLine`: the retry timer fires (`AskAgain`), and a request to the server
  comes back or fails (`CurLineAnswer`); the browser gives both. An answer of
  the map service or a position is owed by nobody and has none.
- `RideResult`: the browser's three-second timer fires (`DelayedClick`).
- `PosCmp`: a callback that began is run to its end.
- `HttpOutput`: the thread runs on (`Thread`), and the event loop calls a waiting
  request when the socket is writable or the timeout has passed
  (`WritableEvent \/ Timeout`, one of the two: `checkTimeout` runs on its own
  timer). Nothing says that the client takes anything.
- Passengers, drivers, the database and the network are never assumed to act.

## 4. What is proved

TLAPS proves these for every value of the constants allowed by the named
assumptions of the modules; no other assumption is used.

- **BusConfig** (`IInv == TypeOK /\ StatusShown /\ InfoIsCurrent`). The three
  parts are inductive together: `InfoIsCurrent` needs the types, and the set of
  values an entry may hold needs nothing but itself. From it `TypeCorrect`,
  `StatusAsShown`, `InfoCurrent` and the action property
  `LineAndReportsApart`, for every array size and neighbour.
- **BusTrip** (`TripInv`). `BehindPassed` is not inductive: a repeated report
  could undo it. `LastFits` relates the last report sent to where the bus is, so
  that a repetition writes what stands there or at the next station.
  `Unconfigured` says no line is configured under way. From it
  `StationsBehindPassed`, `TripLeavesLine` and `TripTypeCorrect`, for every line
  that fits. `TripImplementsBoard` is the refinement `ShowsTruth`, for lines of
  every length: the status array says nothing at first, and each report, heard
  or lost, repetition and restart is a step of the board. What an entry says is
  decided by that entry alone (`Said`), so a report is judged on the entries it
  writes; that a repetition tells the truth needs `LastFits`.
- **ConfigPage** (`PageInv`). `SetIsShown` speaks of the moment when all is
  answered; the invariant follows the one call there can be while `mine` stands:
  a set under way carries what was typed, a get after it finds the server with
  that line, an answer under way brings it. It gives `PageTypeCorrect` and
  `SetAlwaysShown`, for every set of names, of lines cut off and number of
  calls; the steps of the server are those proved for `BusConfig`.
- **PosCmp** (`ScanInv`). The loop invariant `ScanSoFar`: `min_index` is the
  first of the nearest among the stations before `i`, and `min_dis` its
  distance; and `NothingFound` for a line without stations, where `dis_last`
  is undefined. From it `NearestIsFound` and `VerdictIsOnPosition`.
- **CurLine** (`CurLineInv == Ledger /\ Menu`). `Ledger`: a name is in
  `passed_sta` exactly when its arrival has been announced, once, and likewise
  `inbound_sta`; a station heard from is in it. `Menu`: the reminder's three
  copies. From it `NamesToldOnce`, `HeardIsTold`, `ReminderIsOfMenu` and
  `CurLineTyped`, for every line, also one that repeats a name, and any number
  of requests.
- **RideResult**. `PlansInv` joins three facts. `LastTicks`: the last change of a
  way is the tick of one of its groups, and the groups of a way share no value, so
  that a change is never taken for a repetition. `ChosenAsked`: the last search of
  the way chosen goes by what is ticked now. `Panels`: a panel shows what the last
  search of its way found, or that is still to come, or it was overwritten. It
  gives `OptionsFollowed`, for every set of options and number of earlier
  searches; `RideTyped` are the types.
- **BusPages**. `PagesInv` adds to the types that a search under way has chosen
  its page (`Chosen`), that a page loading or open has found data (`HasData`),
  and, while the passenger waits (`Quiet`), what the one request under way has
  to do with form, `page_url` and found rows. It gives `PagesTyped`,
  `PagesAlwaysHaveData`, `SearchAlwaysShown` and `DetailAlwaysShown`; `ListsInv`
  (`ListsAsked`: lists under way are of the present tab) gives
  `ListsAlwaysOfType`, for any number of texts, requests and pages.
- **RideVisits** (`IInv`). What is shown depends on globals that outlive the page.
  `EndsGiven`: from the commit on both ends are given, and the plan page's script
  read those; `NothingLeft`: a page that is left takes its lists, labels and
  addresses along; `NothingStale`: unless the visit is one of the exceptions
  (`hasty`), every look-up under way is its own and for the end it shows, and none
  is once the journey is turned round; `AskedForEnds`: unless the visit is `foreign`,
  the addresses under way, and the one in `pos_str`, are those of the ends as
  committed, which is what labels written anew need.
  From it `TypeCorrect`, `JourneyAlwaysShown` and `LabelAlwaysOfPosition`, for any
  texts, positions and number of late searches.
- **BusSearch** (`IInv`). At each place of the handler, what is held: `RowsHeld`
  (while nothing failed, just the rows looked up so far), `TextHeld` (a text from
  its rendering to its answer, if there was memory), `Objects` (all built before
  the first put; between the two puts of a station only `outer_arr` and `new_obj`,
  afterwards at most `outer_arr`). `Places` tells which request may be
  where. From it `SearchTyped`, `RowsAlwaysReadable`, `NothingEverLost` and
  `PutsAlwaysBalanced`. The module has no constants, so that the run is complete
  too; the proof adds the reason.
- **HttpOutput**, control (`IInv`). `ChunkFits` is what makes the writer resumable: room
  for prefix and data of a chunk once begun stays reserved, because `output` only
  shrinks between flushes. With `RingsInPlace` (every `AdjustStart` is followed by
  a `Compact` before anyone reads) it gives `RingsStayInPlace`, `ChunksFit`,
  `SocketWakes` and `TypeCorrect`, for all buffer sizes and lengths.
- **HttpOutput**, stream (`SInv`). That the client never met a byte out of place says
  nothing of the bytes still in the buffers, so it is not inductive. `InOrder` is:
  the bytes in `output` lead the client, byte by byte, to `Reader`, the client that
  has read headers, all chunks begun and every byte handed on. `BodyChunked` says
  `chunkbuf` holds the bytes that come next; `ClientReads` survives a broken
  connection; `Kinds` and `Ending` tell what is done for which kind of answer, and
  when one is complete. A put extends the path (`LeadsOn`), a short write cuts it in
  two (`LeadsInPieces`). From it `WireAlwaysInOrder`, `NothingElseEverLost` and
  `StreamImplemented`, the refinement of `ByteStream`: its steps are shown to be
  `Flow` or a stutter in `FlowStep`.
- **HttpOutput**, loops. `ThreadAlwaysComesBack`: each step of the thread makes a
  tuple of naturals smaller, compared from the left (bytes of the body left, the
  places the thread still passes, bytes to be chunked, what the chunk still needs,
  bytes to be sent). So the server's only thread is back in its event loop after
  finitely many steps, whatever the sizes and whatever the socket takes; this is
  the part of `AnswerEnds` that needs no fairness. It needs `BlockLeft` (a block is
  flushed for only while it has bytes left) and that a chunk begun is never empty.

A path is a function on `0 .. Len(bytes)` (`IsRun`), not a recursion, and what is
said of all its points is proved by the least counterexample (`LeastNat`,
`Stepwise`), since the library's induction theorems cannot be used here.
`LeadsAfter` ties paths to the recursive function `After` of the model.

The type invariants of `BusTrip`, `PosCmp`, `RideResult`, `ConfigPage` and
`HttpOutput` are proved and therefore not among the properties of the runs. Every
safety property a passing run checks is now also proved, with both refinements.

**Only model-checked.** The liveness properties `CallbackEnds`, `PollEnds`,
`BusSearched` and `AnswerEnds`: liveness under fairness and `ENABLED` are beyond this
prover.

## 5. Where code and its own description part

Two are runs with a counterexample:

- **Stations ahead are shown as passed** (`BusTripAhead`): `memset` counts bytes
  (`rq_bus_config.c:341`), a quarter of the entries are reset at BEGIN; the
  rest keep `STA_PASSED` from the trip before.
- **The end of an answer is not sent** (`HttpOutputCut`): `websFlush` calls a
  request complete when `output` is empty (`http.c:2079`), also when
  `flushChunkData` left something in `chunkbuf`; its comment (`http.c:2044`) says
  all data is written. It takes an answer of nearly the size of the buffer.

The following were met while modelling; the models do what the code does, and
properties make an exception where one is needed, named in their comments:

- The status array also holds byte patterns that are no value of the
  enumeration (`rq_bus_config.c:341`, `rq_head.h:60-66`). `StatusShown` names
  them.
- An empty name empties `bus_num` but keeps the cached line
  (`rq_bus_config.c:88`, `163-164`); `InfoIsCurrent` therefore says nothing of
  an empty name.
- The terminal alert compares an index with `sta_count`, which counts panels
  and stays 1 (`cur_line.html:534`, `445`): it is given at the second station,
  and stops the timer there.
- A reminder switched on before the line is loaded shows on, and is not passed
  on (`cur_line.html:657`); and `dst_sta` stays empty until another station is
  selected, so that the reminder speaks of no name (`112-113`, `542`).
- After the return trip was asked for while stations are looked up, start and
  end may become the same place: the look-ups are for the ends as given and
  write to the ends as they are (`ride_result.html:331`). `JourneyShown` says
  what holds until then.
- The answer of an earlier search of plans, for other options or the other
  direction, overwrites those of the last one when it comes after them
  (`ride_result.html:241-246`); `PlansOfOptions` tells this case from all others.
- A station found for an earlier visit is written into the present one, even
  over a located start, when it comes between the page's script and `pageshow`
  or after it (`ride_result.html:329-338`).
- An address that comes after the return trip was asked for overwrites the
  other end's label (`ride_result.html:472`, `439`); and a label written anew by
  `re_search` or the return trip may be the address of a position the form has
  located since (`440-458`). `LabelOfPosition` names both (`foreign`) and holds in
  all other visits.
- The taxi fare is asked for by shortest distance and shown as that of the
  shortest time (`ride_result.html:295`, `148`, `271`), and that of a search by
  car is never rendered, as its callback is replaced (`275`).
- A second list of stations overrides a choice already made
  (`ride_result.html:331`, `65`, `316`).
- An array is put by one who no longer owns it: `rq_bus.c:402` after `:387`,
  against `json_object.h:114-116`. `PutsBalanced` says when.
- The outer JSON array of a search is never put (`rq_bus.c:284`), and the empty
  answer `[]` is announced with 3 bytes and written with 2 (`rq_bus.c:104`).
- A detail page is opened while its data is under way, and may show what was
  found before (`bus_line.html:88`, `98`); `DetailShown` is about an answer that
  came in time.
- `last_search` names the other type when the tab was changed while the search
  was under way (`bus_index.html:310`), and a late list fills a field emptied
  meanwhile (`bus_index.html:197`).
- A line whose details do not fit in 10 KB is cut off and cached
  (`rq_bus_config.c:283`). Neither page can evaluate it
  (`bus_config_cur_line_cfg.html:125`, `cur_line.html:286`): the first keeps what it
  shows, the second stays without a line, as after a request that fails, and does
  not ask again. `SetIsShown` makes an exception of it. (The status of 64 entries
  fits in its 2 KB.)
- The text of the direction is kept when the line has a direction the page has no
  text for (`bus_config_cur_line_cfg.html:150`).
- The configuration page shows the first direction as selected while `set_dir`
  is empty, so that the server keeps the direction it had
  (`bus_config_cur_line_cfg.html:43`, `85`, `95`).
- `process_web_write_response` does not look at the count `websWrite` returns
  (`rq_wrap_tool.c:17`): of an answer that does not fit, the rest is dropped
  without a word. After an error `fileWriteEvent` does not seek back
  (`file.c:128-135`).
- Two assertions do not hold: `websDone` asserts a connection that a failed write
  has already ended (`http.c:545`), and `complete` one that has not begun or is
  complete (`http.c:571`), while `checkTimeout` (`2312`) calls it for a running
  request. `assertError` only logs, so the request is closed all the same, as
  `AnswerEnds` says.

## 6. What is not modelled

- Of the configuration page, the texts `show_baidu_info` fills from the map
  service: they are shown and nothing is done with them.
- Of GoAhead, all but its output: accepting and parsing, reuse of a connection,
  sessions, routes, users, CGI, upload and templates are upstream code that the
  application configures and does not change. Its event loop is assumed: one
  handler at a time.
- Database opening and server start: each runs once, before any request.
- How many rows a search counts and how many it then reads (`BusSearch` tells
  none from some), and the size of a block of rows: `db_bus_search.c:343` allocates
  rows of one type and clears rows of another.
- Memory that GoAhead does not get: `fileWriteEvent` would write an error page
  after the headers, and into the body (`file.c:125-128`).
- What the SQL selects and what the JSON says; maps, markers and panels; the
  haversine formula. Nothing writes to the database while the server runs, so
  a search may fail and does not change.
- Periphery, home, help and weather pages: one answer, shown.
- Older copies of pages and actions, vendored libraries.

Counted in lines of JavaScript files the share modelled is small and will stay
so: those files are, but for `position_cmp.js` and a few helpers, copies of
jQuery, jQuery Mobile and their demos. The program's own logic is in C and in
scripts inside its `.html` pages, and every page and action that keeps state is
modelled above.

## 7. Plan

What would come next, in this order:

1. A measure, as the one of `HttpOutput`, for what `PollEnds` rests on, with the
   requests that may be lost.
2. `Connections`: the states of a `Webs` from accept to reuse and its timeout,
   around `HttpOutput` as one of its phases.
3. `Sessions`: creation, limit and pruning in `GA/http.c`.

`cur_line.html` and `bus_ride.html` have globals of the same names but no
document in common (`data-ajax="false"`, `index.html:73`, `78`), so they are not
composed.
