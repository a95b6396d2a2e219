# srvlog: a verification development

srvlog collects the logs of many hosts over UDP (syslog, Logback), TCP (Logback
events) and HTTP (JSON), stores them in MySQL, keeps the latest ones in memory and
shows them live in a browser over web sockets. This directory holds TLA+ models of
the parts whose correctness depends on the order of things, TLC configurations that
check them on small instances, and proofs that TLAPS checks for every instance.

Paths below are those of the repository; `S/` stands for
`srvlog-service/src/main/java/com/payneteasy/srvlog/`, `W/` for
`srvlog-web/src/main/java/com/payneteasy/srvlog/` and `Q/` for
`srvlog-sql/src/main/resources/db/migration/`.

## Inventory

| part | state it keeps | operations | works with |
|---|---|---|---|
| Online log feed: `S/service/impl/LogBroadcastingServiceImpl`, `InMemoryLogStorage`, `Subscription`, `W/websocket/jetty` | a ring of the last logs per host and program; the subscription of each open web socket session | receive a log (add, broadcast), serve a request (collect, respond, subscribe), open, fail, close a session | called by the collector on the adapters' threads and by Jetty's threads |
| Log collector: `S/service/impl/SimpleLogCollector` | none of its own | save a log: default the date, refuse a log without a host, truncate, hand to the feed, store; save hosts; search | feed, DAO, indexer |
| UDP server: `S/adapter/udp/UDPServer` | started, stopped, a channel, a bounded queue | start, stop, acceptor loop, processor loop | syslog-free Logback UDP adapter |
| TCP server: `S/adapter/utils/ThreadPooledServer`, `S/adapter/LoggerAcceptorNode`, `S/adapter/AbstractTCPLoggerAdapter` | started, stopped, a socket, a pool | init, destroy, accept loop, one worker per client | Logback TCP adapter |
| JSON over HTTP: `S/adapter/json` | none of its own | parse a batch, save it in one transaction, answer | collector |
| Syslog, Snort, OSSEC: `S/adapter/syslog`, `S/adapter/syslog/surricata` | a manager created lazily | route a message by its program, correlate OSSEC alerts with Snort logs by a hash and a time window | collector, DAO |
| Log tables: `Q/SP/5.0-save`, `Q/SP/6.0-get` | hosts, logs, unprocessed logs, Snort and OSSEC logs | save_log, save_host, save_unprocessed_logs, queries | DAO; the pages that add hosts |
| Partitions: `Q/SP/2.0-service` | partitions by day and month | create the next ones, drop the old ones | database events |
| Migration R04: `Q/R04.00.00` | snort_logs and its copy | triggers, copy, catch-up, rename | running writers |
| Full-text index: `S/service/impl/SphinxIndexerService`, `srvlog-it/sphinx` | main and delta index | rotate, search | collector's search |
| Online page: `W/wicket/page/js/terminal-1.0.0.js`, `multi-select-dropdown.js` | the selected hosts and programs, one web socket, the terminals made so far, the global `terminalIO` | click, new terminal, socket events | the feed; the terminal |
| Terminal: `hterm_all-1.91.js` beside it | a parser; two screens of rows of nodes, a shared scrollback, cursor, modes, character sets, colours; a scroll port with a selection and timers | interpret a text, resize, scroll, select, redraw | printed to by the online page |
| Other web pages: `W/wicket` | page position, date range, filters | paging, searches, hosts form | collector |
| Configuration, security, wiring, Jetty start | none that changes | - | - |

### What is hard, and what makes each part correct

- **Online log feed.** Ingesting threads, request handlers and the container's
  callbacks share two concurrent maps and no lock. Correct means: a ring holds the
  last logs of its stream, in order, each once, whoever creates the ring; a broadcast
  reaches everyone who was subscribed when it began, whatever fails meanwhile; a
  removed session stays removed; a client sees the old logs of a stream before the
  new ones; an ingesting thread is never kept.
- **UDP server.** Two threads, a bounded queue, one shared buffer and a `stop()` that
  the acceptor may call on itself. Correct means: what enters the queue is handled
  once, in order and unchanged; nothing but overflow loses a datagram; stopping ends.
- **TCP server.** The acceptor constructs each worker itself, which reads from the
  client; stopping closes the socket under it.
- **Collector and JSON batches.** The feed gets a log before the database does; a
  batch is rolled back as a whole in the database but not in memory.
- **Log tables.** A log of an unknown host is put aside and moved when the host is
  known; hosts, logs and the unprocessed ones are changed by concurrent transactions.
- **Snort and OSSEC.** Two kinds of messages about one event, in any order, found
  through a time window.
- **Partitions, migration.** Work in steps on live tables, with writers in between.
- **Online page.** Clicks, terminals that become ready in a later task and events of
  old and new sockets come in any order. Correct means: the socket that lives asks for
  what is selected now, no terminal shows logs of an older selection, and in the end the
  terminal on top is the one that is printed to.
- **Terminal.** It interprets whatever the hosts wrote, control functions too, cut into
  pieces anywhere. It keeps the cursor twice and numbers and sizes rows by hand on two
  screens that share a scrollback. Correct means: the cursor is in its row, rows have
  their numbers, writing does to a row of nodes what it would do to an array of cells,
  pieces do not matter, plain logs are shown whole, no text is lost by a resize. What is
  drawn is drawn later, by timers set once, and by scroll, resize and selection events:
  at rest the page must show the rows of its scroll position.
- **Full-text index, paging.** A search sees two indexes that are rebuilt one after
  the other; a page is an offset into a result that grows at its head.

The file `PROJECT.json` names every hazard with its line in the code, the properties
that cover it, and the lines of code each definition translates.

## Modules

| module | models | extends / uses |
|---|---|---|
| `RecentLogs` | the promise of the rings: the last `Capacity` logs of every stream, in order | - |
| `InMemoryLogStorage` | `InMemoryLogStorage.java` as operators on a ring | - |
| `LogBroadcasting` | the online feed | `InMemoryLogStorage`; implements `RecentLogs` |
| `MCLogBroadcasting` | values of the constants for TLC | `LogBroadcasting` |
| `LogBroadcastingProofs` | proofs: types, what subscribers see, the refinement | `LogBroadcasting` |
| `UDPServer`, `UDPServerProofs` | the UDP server | - |
| `TCPServer`, `TCPServerProofs` | the TCP server | - |
| `LogTables`, `MCLogTables`, `LogTablesProofs` | hosts, logs and unprocessed logs under transactions | - |
| `Partitions`, `PartitionsProofs` | the partitions of the log tables | - |
| `SnortLogsMigration`, `SnortLogsMigrationProofs` | the migration of a live table | - |
| `TerminalPage` | the script of the online page | - |
| `HtermCharsets`, `HtermColors`, `HtermScreen` | operators: character sets and encoding; colours and text attributes; a screen, its rows of nodes and its cursor | `HtermScreen` uses `HtermCharsets` |
| `HtermTerminal` | operators: `hterm.Terminal`, two screens, scrollback, modes, resets, sizes | `HtermScreen`, `HtermColors` |
| `HtermVT` | operators: `hterm.VT`, the parser and every control function | `HtermTerminal` |
| `TerminalDisplay`, `MCTerminalDisplay` | the terminal under logs, pastes, the mouse and new sizes | `HtermVT` |
| `OnlinePageProofs` | proofs: the page's sockets and terminals, and what a terminal keeps whatever the logs say | `TerminalPage`, `TerminalDisplay` |
| `HtermScrollPort`, `TerminalScroll`, `TerminalScrollProofs` | operators of `hterm.ScrollPort`; the rows in the document under timers and events; proofs | each extends the one before |

Everywhere a variable that the code does not have is called *history* in its
comment; no guard of the code's steps reads one. A definition named `X_Something`
just before `X` is a plausible bug in `X`; each property is shown to catch one.

### The online feed

`LogBroadcasting` has three kinds of actors. A *thread* (an adapter's) calls
`handleReceivedLogData`: it finds the ring of the log's host and program, or puts a
new one with `computeIfAbsent` (`FindStorage`), adds the log (`AddLog`), and then
walks over the entries of `subscriptionStorage` (`BeginBroadcast`,
`NextSubscription`, `SendLog`, `SendLogFails`, `EndBroadcast`). The iterator of a
`ConcurrentHashMap` is weakly consistent: `met` and `returned` say what it must and
what it may still return. A *handler* serves one request of a session: it parses it,
reads the rings one by one (`CollectStorage`), sends what it collected and only
after that subscribes the session (`Subscribe`); a session that was removed meanwhile
is no longer in the map, and the request fails (`SubscribeFails`). The *container* opens sessions and, after the
connection was lost, calls the error and the close callback. Between any two of these
steps any other actor may run. A stream is a pair of host and program (the code's map
of maps, flattened: inner maps are never removed); logs are model values, and
`StreamOf` says which stream a log belongs to.

The race on the `ArrayList` of `collect` (`LogBroadcastingServiceImpl:102`) is a
nondeterministic choice: if more than one task of the parallel stream runs, the
request may find the logs of all rings, of some, or fail.

`RecentLogs` is the abstract specification. The refinement mapping takes each ring to
the sequence of its logs from the oldest to the newest (`OldestFirst`), and the logs
that no ring has yet to `awaited`.

### The UDP server

`UDPServer` keeps the flags, the channel, the shared buffer and the bounded queue of
`UDPServer.java`, and four places: that of the container's thread in `start()`, of
each caller in the synchronized `stop()` (the container, or the acceptor itself when
reading fails), of the acceptor and of the processor. A caller of `stop()` holds the
monitor from `EnterStop` to `AwaitAcceptor`, which ends when the acceptor does or by
the limit of three seconds, so it is always enabled. `getData` is the copy that is
taken of the shared buffer.

### The TCP server

`TCPServer` follows `AbstractTCPLoggerAdapter.init/destroy`, the loop of
`ThreadPooledServer.run`, the constructor of `LoggerAcceptorNode`, which the acceptor
itself executes and which reads the stream's header, and the workers in the pool. A
client connects, writes its header and its events, or garbage, or nothing, and
leaves. `started` is written without the lock under which it is read; `seen` is what
has been published by the acceptor's later use of the lock, and a look at `started`
may go either way in between.

### The log tables

`LogTables` has the committed tables, and beside them what each transaction has
written and not committed. Its actions are single SQL statements of `save_log`,
`save_host` and `save_unprocessed`, the steps of `SimpleLogCollector` and
`SaveLogsServiceImpl` around them, commits, rollbacks and failures. Locks are guards:
a statement that must wait is not enabled until the other transaction has ended, and a
wait may end as a failure (deadlock, lock wait timeout). The isolation is the one in
force (REPEATABLE READ inside the collector's own transactions, READ COMMITTED in a
JSON batch), which is why `INSERT ... SELECT` locks what it reads. The temporary table
of `save_unprocessed` is MyISAM and belongs to the connection, so a rollback leaves it
as it is, and the next call truncates it.

### Partitions

`Partitions` runs `check_monthly_partitions` and `check_daily_partitions` statement by
statement, in several sessions at once: counting, creating or splitting a partition,
opening the cursor over the expired ones, dropping one after the other. A partition is
named by the period it holds. `Abort` ends a run anywhere.

### The migration of snort_logs

`SnortLogsMigration` executes the script `Q/R04.00.00/V4.0` statement by statement
while writers insert. A table is a function from ids to how many rows have the id,
because the new table has no unique key. `Fail` may come before every statement,
`RepairAndMigrate` begins the script again among the tables that were left.

### The online page

`TerminalPage` is `terminal-1.0.0.js` with the lists of `multi-select-dropdown.js`. A
click (`ClickOption`) closes the socket, puts a new terminal over the one before and,
when there are hosts and programs selected, opens a socket for them. `onTerminalReady`
comes in a later task, in the order of the terminals, and sets the global `terminalIO`
that every handler of a socket prints to. A socket is known by the number of the
terminal it was made with; its events are what the browser may deliver, among them the
close event of a socket that was closed before its connection was made. Its
specification is `PageSpec` (with fairness `FairPageSpec`): its definitions carry the
page's name because the proofs read it together with `TerminalDisplay`.

### The terminal

A terminal is a record and every method of `hterm.Terminal`, `hterm.Screen` and
`hterm.VT` that changes what is shown is an operator from a record to a record, with the
name it has in the code. A row is a sequence of nodes, each a text with its attributes,
because the code's cursor is a node and an offset beside a row and a column. A text is a
sequence of characters: the control characters, the digits and letters that the control
functions of the instance are made of, and `WIDE` for a character of two columns. The
parser keeps the state it has between two pieces of text (`vt`: the function that reads
the next character, what it has gathered, the time limit of a string). The control
functions for cursor, erasing, inserting, deleting, scrolling, tab stops, modes,
attributes, character sets, colours, titles, links, reports, mouse and resets are
there.

`TerminalDisplay` is the page around it: `Println` prints a log and a new line, `Paste`,
`Mouse` and `Focus` send what the terminal would send to a host and the page prints,
`onResize_` takes over a size of the window, `StringTimeLimit` lets the twenty seconds
pass after which an unfinished string function is given up. The properties compare the
nodes with an array of cells, the text in pieces with the text whole, a terminal after
a reset with a new one, each in every state that is reached and after every character
of every log that may come next (`OnTheWay`).

`TerminalScroll` leaves the texts out: a row is a number. A log moves the cursor,
appends a row, moves rows or shows the other screen; `port` is what `hterm.ScrollPort`
keeps, with the document between its two folds; `timers` are the callbacks of
`setTimeout` in their order, and the browser's scroll, resize and selection events come
at any moment. A redraw, a selection and a row's number can get in each other's way, and
the code does not keep them apart (see the end of this file). The constant `Limited`
therefore puts limits on the logs, the user and the window, written as guards in `Log`
and `User`; with `Limited = FALSE` they are gone. What the run and the theorems say of
the scroll port is said within these limits only:

1. the user does nothing while a redraw or a new size is due (`Resizing`);
2. no row that a smaller window dropped is still in the document when a row is appended
   or the window changes again (`NoneDropped`);
3. a row is inserted, which renumbers those behind it, only while nothing is due and the
   view is at the end (`AtRest`), and the rows that the last redraw fetched keep their
   numbers (`CacheTrue`); text may be selected;
4. rows change places, the other screen is shown and the scrollback is erased only at
   rest, at the end and with nothing selected; and erased only while it is empty.

TLC, given the instance of the run without one of them, finds a property violated or
drawing undefined, with three exceptions that only the proof needs: that nothing is due
when a row is inserted, and `NoneDropped` and the view at the end in the fourth.

## Runs

| run | specification | instance | shows |
|---|---|---|---|
| `log_feed` | feed | 2 sessions with one request each, 1 thread, 2 logs of 2 hosts, capacity 1 | a client gets a stream's old logs before new ones; a broadcast starves nobody; removed sessions stay removed |
| `log_memory` | feed, fair | 2 threads, 3 logs, capacity 2, 1 session with requests of either kind | the rings implement `RecentLogs`: created by two threads at once, wrapped; the adapter's thread always returns |
| `log_gap` | feed | 1 session, 1 log and one without a host | *violation*: a log between snapshot and subscription is missed |
| `udp_delivery` | UDP, fair | 4 datagrams of 2 contents, queue of 2 | handled once, in order, unchanged; at most one after a stop; calls of stop return |
| `tcp_server` | TCP, fair | 2 clients with up to 2 events, 1 thread | after init has returned the acceptor serves the port, unless accept itself fails; accepted sockets have one owner; clients that left are released; the rest are served; the acceptor ends |
| `tables` | log tables | 2 writers, 3 calls, 2 operators, 2 forms | a log is in one row, of a host that is there; nothing due is left; forms are whole |
| `tables_far` | log tables, persistent operators | 1 writer, 1 operator, a log no partition takes | *violation*: one such log stops `save_unprocessed` for all |
| `partitions` | partitions | 2 runs, 4 periods, retention 1, both kinds | what was checked is accepted; days keep their own partition; only the old is dropped |
| `migration` | migration | 2 writers, 5 ids, windows of 2 | the new table has all, older rows once; nothing is lost |
| `terminal_page` | online page, fair | 2 hosts, 1 program, 4 terminals (3 clicks) | the live socket asks for the selection; no older logs; the terminal on top is printed to in the end |
| `terminal_display` | terminal | 3 columns and 2 rows that grow to 4 of both; 38 logs, 2 pastes, the mouse; 3 events | the shape of the terminal, cursor in its row, rows numbered, cells written, pieces do not matter, a resize loses no text, plain logs whole, colours of the screen that is shown, full reset |
| `terminal_scroll` | scroll port | window of 2 or 3 rows, 5 rows at a time, 4 events | at rest the rows of the scroll position are shown; the view follows; the selection is not touched; all within the limits of `Limited` |

Why the bounds are enough to meet the hard cases: a capacity of 1 makes a ring wrap at
once, and one of 2 with three logs makes it wrap with something left in it; two threads
race on the creation of a ring; two sessions let one fail while the other is being
served; a queue of two with four datagrams overflows and is drained again; one pool
thread with two clients leaves one waiting in the acceptor or in the pool's queue; two
operators race on the same rows, while a writer adds more; four periods with a retention
of one have gaps, expiry and a clock that goes back; three windows of the copy have rows
before, in and behind the one being copied. Three clicks select, change and take back,
with every terminal but one still to become ready. Three columns are enough for a word
that wraps, a wide character that does not fit, a tab stop inside the row and one at its
end; two rows for a scroll region, scrolling off and taking back. Three events are enough
for a mode or a region, a text under it and what ends it, and each of the logs has itself
one control function or a few that belong together. Two
or three rows in a window and five in all have a row above, in and below the view, one
that is appended while another is dropped, and a selection across a fold. Every counter
that is bounded is so by a constant whose comment says *bound*: `MaxRequests`,
`MaxDatagrams`, `MaxEvents`, `LastId`, `MaxTerminals`, `MaxRows`. `AnswerRounds` bounds
how long the parser works on answers: a text takes at most two steps for each of its
characters, but a query in it is answered by a text that is parsed in turn, and may be a
query itself. What the bounds cut off is, for the safety properties, covered by the
proofs, but for those of `TerminalDisplay` that are named below as model-checked only.
`CHECK_DEADLOCK FALSE` is set where the system may really stop, because a finite number
of logs, requests, clients or events is used up or the server was stopped. The type
invariants are proved and not run, but for that of `TerminalDisplay`, which is both.

## Fairness

- *Feed*: a thread or handler that entered a call is scheduled, and a write to a
  session ends, since Jetty's idle timeout turns one that a stalled peer blocks into a
  failure. Nothing is assumed of clients, the network and new logs.
- *UDP and TCP*: a thread of the server that can go on does. A `receive()` or `accept()`
  whose channel is closed fails. Datagrams, connections, errors and the calls of stop
  and destroy need not happen. Saving an event returns or throws.
- *Online page*: the browser runs the callbacks that are due, and says how a connection
  that is being made or closed ends. Nothing is assumed of clicks, messages and of
  connections that are open.
- *Terminal*: no liveness is claimed, so no fairness is stated. `TerminalShown` and
  `FollowsLogs` speak of the states in which no timer or event is due.
- *Log tables*: `KnownHostsProcessed` is checked with `PersistentSpec`: operators who
  go on clicking, and a database that does not refuse for ever a statement it can
  execute. Strong fairness makes the counterexample stronger: even so the logs stay.

## What is proved

The proofs hold for all values of the constants that satisfy the named assumptions of
the modules. The assumptions say that the absent values are not values (`NoLog`,
`NoSession`, `Missing`, ...), that capacities are positive, that a bound is a number,
that batches are disjoint (a log is saved by one call), that the ids of the migrated
table stay below `i_max_id`, which is 40 000 000 in the script, and that a window has
room for a row (`HeightsAssumption`; `onResize_` ignores one that has not).

- **Types** (`TypeCorrect` of each module). `TypeInv` of the feed adds to `TypeOK` where a
  thread may carry no log and no target. Elsewhere the types are part of the invariants
  below.
- **What subscribers see** (`LogBroadcastingProofs`). `SnapshotFirst`: the invariant
  `SnapshotInv` adds that a subscription covers only streams whose snapshot was
  delivered, which a handler between its response and its subscription already has.
  `NobodyStarved`: `ScanInv` says that in the middle of a scan every session that is due
  is among those the iterator has still to return, is the target, or has the log.
  `NeverRegisteredAgain` needs no invariant but the types: the only step
  that puts a session is the one that opens it.
- **The rings** (`LogBroadcastingProofs!KeepsRecentLogs`). `RingsOK` says that a ring is
  well-formed: the pointer is a slot, and the slots behind it are filled unless the ring
  has never wrapped; the lemma `AddDropsOldest` shows that adding appends and drops the
  oldest. `OwnLog` says that no two threads carry one log. Every step then maps to a
  step of `RecentLogs` or to a stutter.
- **UDP** (`UDPServerProofs`). `DeliveryInv`: what was handled, what is in hand and what
  is in the queue make up, in this order, what was accepted. `HandledInOrder` is not
  inductive without the queue. After `stopped` is set the processor handles at most the
  datagram it already waits for.
- **TCP** (`TCPServerProofs`). `TCPInv`: `PortInv` ties the port and the pool to where the
  acceptor is, to `started` and to `destroy()`. `InitReliable` goes one way: an init that
  fails may have taken its last look while the acceptor was about to open the port. `HandInv` says when the acceptor has a socket;
  `OneOwner` is inductive with them, because the queue of the pool has no duplicates.
- **Log tables** (`LogTablesProofs`). `EachLogOnce`: `RowInv` adds to the property how a
  writer's batch is split into what it has inserted and what it has still to, that no
  two writers have the same batch, and that the rows an operator's call has copied to
  its temporary table are still there until it moves them (`RowsHeld`): that is what
  keeps a second operator from copying them. `NothingLeft`: `DueInv` says where in its
  procedure an operator's call has the rows that were due. `HostsKept`: `HostInv` follows
  a host from the select that found it, by the rows a transaction has not committed, to
  `logs`. `FormsWhole`: `FormInv` says that the hosts a form has inserted and those it has
  still to insert are those of its list, and that nobody else has them.
- **Partitions** (`PartitionsProofs`). `PartInv`: the date of a finished run, and of one
  that has seen or made its partition, keeps a partition at or after it; a run drops
  only what is older than its own date less the retention, so that what another run
  needs stays.
- **Migration** (`SnortLogsMigrationProofs`). `MigInv` has a part per phase of the
  script: while the copy runs, every row below the window is in the new table or in the
  table of identifiers; the identifiers never contain a row that was there when
  recording began; no id is given twice. The clauses hold again from `CreateNew` on,
  whatever an earlier pass has left, which is why a failure anywhere does no harm.
- **Online page** (`OnlinePageProofs`, first part). The two properties and the types are
  inductive together: only the socket that lives gets messages, it is the last one, and
  `terminalIO` is never ahead of the terminals.
- **Terminal** (`OnlinePageProofs`, second part). `TerminalTypeCorrect`,
  `RowNumbersCorrect`, `PaletteCorrect` and `ResizeCorrect` hold for *any* set of logs and
  pasted texts, any sizes of the window, any `TabWidth` and `AnswerRounds`. They rest on
  one invariant, `Good`, and none of the first three is inductive without it: that a row keeps a node needs
  the cursor, of either screen, to be in a node that exists; that rows have their numbers
  when the screens are swapped needs the rows of the hidden one to be numbered too, from
  wherever the scrollback ended when it was hidden; that the cursor stays on the screen
  needs the parser's arguments to be numbers. In the middle of an operation less holds,
  so `Good` is made of layers:
  - `Base`: rows of both screens and of the scrollback have nodes and numbers, a cursor
    that is in a row is in one of its nodes, tab stops are on the screen, the page shows
    the palette, the parser's arguments are numbers;
  - `Fit` adds that the screen that is shown has the size of the terminal;
  - `Sound` adds that the scroll region is on it and the cursor in one of its rows,
    perhaps beyond the last column, as in the middle of a text that wraps;
  - `Good` adds that the cursor is in a column.

  Every operation of the screen, the terminal and the parser has a lemma that says which
  layer it needs and which it leaves. A text is interpreted in rounds: `InterpretGood`
  says that any text leaves a good terminal good, by induction over the rounds; the other
  loops (pieces of a printed text, nodes that are deleted, arguments, modes, tab stops,
  pairs of an OSC function) have an induction each, over their steps. `OneByOneGood`
  carries it to every terminal that a log passes through when it comes one character at
  a time, which is what `OnTheWay` asks for.
  All these loops are written with one higher-order operator, `Iterate` of
  `HtermScreen`, and their inductions with its recursive function.

  That a new size loses no text (`ResizeCorrect`) is a statement about one step: rows
  that scroll off stay in their order (`ScrollOffBase`), rows that are appended are blank
  (`AppendFit`), rows that are taken back are the last of the scrollback, and rows that
  are dropped had nothing in them because `popRows` is only called for those below the
  last one with text or a cursor (`EmptyBelowRange`, `PopBase`, `BackBase`). `Texts` is a
  recursive function too: that texts of joined rows are joined, and that blank rows add
  none, are `ExtendsTexts` and `EmptyExtends`, each by induction over the rows.
- **Scroll port** (`TerminalScrollProofs`). The three properties rest on one inductive
  invariant, `Inv`, proved in `DueWorkKept`. None is inductive, because each speaks of
  the states in which nothing is due, and an event that comes between hands its work to
  another: a resize draws nothing but sets a timer that will. So `Inv` says, of every
  state, what holds *or what is due*:
  - `Numbers`: every row of the terminal has the number of its place, and no row is on
    both screens or twice. That adding and
    moving rows, swapping the screens and new sizes keep it is `ExtendedNumbered`, `JoinedNumbered`,
    `ScreensNumbered` and `RealizedNumbers`.
  - `Ordered`: the document has no node twice, the folds are in it, the rows between
    them are those of the view in their order, those outside are in order and belong to
    the selection, and the cache has rows only under their numbers. Where rows of the
    screen have changed places (`Disordered`) the order is lost until the timer of
    `scheduleInvalidate` fires, and nothing that draws can come before it.
  - `Geometry`: what the window, the port and the terminal believe to be the height, and
    which event will carry a difference on.
  - `ViewDue`, `EndDue`, `FollowDue`, `CursorDue`: the page shows the rows of its scroll
    position, `isScrolledEnd` is right, a view at the end has the height of all rows, the
    cursor is in its row; or a timer or an event that makes it so is still to come.

  `PageShowsTerminal`, `ViewFollows` and `SelectionSurvives` follow. The longest part is
  a redraw. `RowDrawn` shows that one step of `drawVisibleRows_`, in each of its cases,
  puts one more row in its place, whatever rows of the selection stand in the way, and
  moves none of these; `TopFoldDrawn` and `BottomFoldDrawn` do it for the folds. The loop
  is a recursive function (`drawVisibleRows_`, as is `Without`), and what it does after n
  steps is shown by induction on n: `SetInduction` derives it from the well-foundedness
  of the natural numbers, for sets of numbers instead of predicates. All four theorems
  assume `Limited`, and so logs, a user and a window that keep to the limits listed under
  *The terminal*; outside of them the code may show wrong rows, and nothing is proved.

Model-checked only:

- all liveness properties and their fairness (`AcceptedIsHandled`, `StopReturns`,
  `AcceptorLeaves`, `IngestReturns`, `LeaverReleased`, `Served`, `PageSettles`), because
  TLAPS does not reason about ENABLED;
- `CursorInRow` and `CellsWritten`: they do not hold of every log. Wide characters in
  insert mode and lines inserted below the scroll region break them (see below), so a
  proof for all logs does not exist, and one for the rest would have to know what the
  modes were when a character was written;
- `ChunksDoNotMatter`, `FullReset`, `LogShownWhole`: they compare whole terminals after
  two different histories, or the text of a log with the characters of all rows, so that
  they speak of what recursive definitions compute from a text and not only of what they
  keep.

The counterexamples are TLC's.

## Where the code does not do what it says

Two disagreements are runs that end in a violation:

1. `log_gap`: the snapshot of a request is collected and sent before the session is
   subscribed, so a log that arrives in between reaches the client in neither way.
2. `tables_far`: one log whose month has no partition makes every `save_unprocessed`
   fail, and all the other unprocessed logs stay.

The rest was met while the code was read and modelled. No run shows it; the models
either allow it (and say so at the action) or assume it away by a named condition.

*Feed, servers, tables*

- The tasks of a parallel stream add to one `ArrayList`
  (`LogBroadcastingServiceImpl:95-111`); with two hosts in a request it may lose lists or
  contain null, and the request fails. `CollectStorage` allows it.
- The comment in the processor's loop (`UDPServer:81`) counts on an interrupt that
  `stop()` never sends; the thread stays in `take()` (`:74`).
- The acceptor of the TCP server waits for the header of one client at a time; stopping
  it while it is in `accept()` leaves the threads of the pool running.
- The feed has a log before the database, and keeps it when the transaction is rolled
  back. A JSON batch whose answer is lost is stored twice when it is sent again. The
  isolation that `ILogDao` declares is not that of a transaction begun before.
- Rows inserted while the migration copies ahead of them are copied twice, for the new
  table has no unique key, and those inserted between the catch-up and the rename stay
  in the old one.
- The log of an OSSEC alert and its OSSEC row are saved by two transactions; an alert of
  31 December that is handled on 1 January gets the new year. The counter of the search
  index moves when the main index begins to be built. A page is an offset into a result
  that grows at its head.

*Online page*

- A click puts a new terminal over the ones before, which are never removed. Messages
  that come before the new one is ready go to a terminal that it covers; before the first
  is ready they end in a TypeError. The notice that an old connection was closed is
  printed in the newest terminal. The keyboard is never installed, so that
  `terminal-1.0.0.js:126` is dead.

*Terminal* (lines of `hterm_all-1.91.js`)

- `setAlternateMode` is said to have "no effect on the scrollback buffer" (17356), but a
  screen that is shown for the first time is filled with rows taken back from it
  (15731, 17397), which `?1049h` then clears: logs that had scrolled off are lost.
- A report re-enters the parser and drops the rest of the log that asked for it, the new
  line too, against what `println` promises (18755-18759). `Asks` leaves such logs out of
  `ChunksDoNotMatter`.
- A wide character that does not fit at the margin is lost without wraparound, and at the
  end of a row in insert mode leaves the cursor in its middle (`OnTheWay` leaves it out).
- Lines inserted with the cursor below the scroll region move its row into it
  (16866-16881), so that the cursor's row and node part; the logs of the instance leave
  this out, for `CursorInRow` does not hold then. The first
  branch of `insertString` is dead; the overflow of a row stays after `ESC[K`.
- `ESC ( ESC` and a question of OSC 4 about something that is no number throw; the
  answer to `ESC[5n` prints an "n"; a report of the mouse in the X10 mode deletes a line,
  for the page prints what a host should have read.
- The second argument of a DCS function is taken for the start of its time limit. The
  encoding chosen by `ESC % @` survives every reset (15823-15828). So does a tile begun
  with `CSI 0;n z`: `TextAttributes.reset` leaves it alone on purpose (18891-18913), but
  the clearing that follows fills the screen with tiles and the next log is written in
  them, against "full reset to the default values" (15826). `FullReset` leaves out
  terminals with one of the two, on the alternate screen, or in the middle of an escape
  sequence (`Resettable`). A reset forgets
  `reverseVideo` while the style stays reversed; OSC 10 and 11 set the colours as if it
  were not. `ESC c` on the alternate screen saves the old cursor of that screen for the
  primary one (15842). The test at 15237 is always true, and a name such as
  "constructor" passes for a colour (957).
- `CSI > c` is answered by itself (21979), for the page prints the answer as a log
  (`terminal-1.0.0.js:141`): the stack overflows and the rest of the log is lost. In the
  model the parser gives up after `AnswerRounds`.
- The cursor is not shown until a log asks for it.

*Scroll port* (the same file)

- Erasing the scrollback while rows have scrolled off leaves the view blank, in part or
  with rows that are gone; the comment at 15807 says otherwise.
- A row inserted at the end of a scroll region renumbers rows that the last redraw has
  cached by number (12161-12163): wrong rows are shown.
- Rows that are moved while a selection is in them make `redraw_` throw or the selection
  disappear. A row that `realizeHeight_` dropped may be in the document still when a new
  row gets its number, which is then never shown (13599).
- A scroll by the user within the 10 ms before the timer that follows the logs is undone.
  The alternate screen, entered while the view is scrolled back, is shown at the old
  position.
- The comment at 12254-12262 does not describe what `sync` does with a collapsed
  selection; it also checks `scrollPort_.autoScrollEnabled_` (12566), which is never
  defined. A redraw between a smaller window and its resize event throws once.

## Not modelled

- **Syslog, Snort and OSSEC messages.** Conversion of one text to one row: parsers of
  alerts and packet headers. Their state is one lazily created manager; the saving of a
  row is that of any log. The two transactions of an OSSEC alert are a hazard without a
  property.
- **Full-text index and search.** A client of a search server and a template of its
  configuration. When the indexes are built and rotated is decided outside of the
  repository: a model would be one of the server.
- **Paging, date ranges, truncation, the other web pages.** Sequential work of one
  request, fetched anew for the next.
- **Configuration, security, Spring's wiring, the start of Jetty.** Sequential start-up
  without state of its own.
- **Vendored scripts but the terminal**: `bootstrap.js` and `highstock.js` have nothing
  of this system's logic. The terminal is vendored too, but everything the online page
  shows goes through it.
- **Of the terminal**: images (OSC 1337) with their buffer, 8-bit control characters, the
  modes for 132 columns and for a blinking cursor, notifications (OSC 9 and 777), the
  clipboard (OSC 52), the keyboard, the bags of a selection that is copied, the find bar,
  accessibility, preferences, transparent colours and names of colours. A style is what
  is shown of it; pixels are rows and columns.
- **Elsewhere**: the read-only getters of the feed, the procedures that only read, those
  that insert one Snort or OSSEC row, the trigger on updates that nothing updates, logging,
  the client libraries of MySQL and Sphinx (modelled by how they are used), and what an
  operating system's TCP does beyond the accept queue.
