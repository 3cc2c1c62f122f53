# Verification of the multithreaded RMM service

The program is a remote monitoring system: a Qt **client** collects metrics of its
machine, keeps them in a SQLite outbox and sends them over TCP to a Boost.Asio
**server**, which stores them in SQLite and lets an administrator list the nodes, look
at their latest metrics and broadcast commands to all of them.  Client and server speak
a line protocol (`TYPE payload\n`).

This directory holds TLA+ modules translated from that code, TLC configurations that
model-check them, and TLAPS proofs.  `PROJECT.json` maps every definition to the lines
it stands for; paths below are relative to `src/`.

## 1. Inventory

| Component | State | Operations | What makes it correct |
|---|---|---|---|
| `LocalMetricsStore` (client/src/data) | table `outbox` with AUTOINCREMENT ids | `enqueue`, `peekOldest`, `erase` | rows leave only after the server dealt with them; ids are not reused |
| `SyncService`, outbox part (client/src/business) | `m_store`, `m_worker` | `onSnapshotFromWorker`, `flushOutbox`, `onAckReceived` | send the head, erase on ACK, send the next; no snapshot lost, none overtaken |
| `SyncService`, session part | `m_isAdmin`, `m_userId`, `m_nodeName`, worker and its thread | `start`, `stop`, `logout`, `onMessageReceived`, `processCommand`, admin requests | stop leaves nothing running; a command runs on the right clients, once |
| `ClientChannel` (client/src/network) | `QTcpSocket`, `m_buffer` | connect, disconnect, `sendWireMessage`, `onReadyRead` | lines arrive whole, a reconnection starts clean |
| `MetricsCollectorWorker` + `QThread` | `m_running`, timers, queued calls | `startCollecting`, `collectOnce`, `stopCollecting` | one collection per interval; stop and deletion are safe |
| `MetricsCollector`, `metrics_json` | last CPU counters | readers of Windows APIs, JSON | arithmetic of counters, round trip of the JSON |
| `MainWindow`, client `main` | widgets, one more connection of each signal | clicks, responses | the administrator tab matches the session |
| `Session` (server/src/network) | strand, `m_outgoing`, `m_stopped`, `m_userId`, `m_nodeName`, `m_isAdmin` | `start`, `stop`, `doRead`/`onRead`, `sendMessage`/`doWrite`, one handler per line type | one writer, always a reader, ordered answers, released when stopped; acts for one account |
| `SessionRegistry` (server/src/business) | `m_sessions` (weak pointers) under a mutex | `join`, `leave`, `broadcast`, `nodes` | has exactly the serving sessions; a broadcast reaches what it gathered |
| `Server` (server/src/network) | acceptor, purge timer, threads of one `io_context` | `doAccept`, `run`, `schedulePurge` | a session is joined before it reads; the timer is always armed |
| `MetricRepository`, users + `AuthService` | table `users`, `m_mutex` | `initSchema`, `initUsers`, `registerUser`, `authenticateUser` | one owner per name, the administrator is always there, the lock is released |
| `MetricRepository`, metrics | table `metrics` | `insertSnapshot`, `getLatestSnapshotForNode`, `purgeOldMetrics` | the newest is shown, nothing recent is purged, old rows go |
| protocol (`shared/src/protocol.cpp`) | none | `encodeWireMessage`, `decodeWireMessage` | decode inverts encode, however the stream is cut |

**Interactions.**  Inside the client: Qt signals, direct on the main thread and queued
between the worker's thread and the main thread; `main.cpp:18-21` connects
`ackReceived` and `serverCommandReceived` to their slots a *second* time, after the
constructor of `SyncService` did.  Between client and server: TCP lines LOGIN, REGISTER,
METRICS, NODES_LIST, GET_METRICS, COMMAND one way, responses, ACK and COMMAND the other.
Inside the server: handlers of sessions run on their strands, on any thread of the
`io_context`; they share the registry's mutex and the repository's `m_mutex`.

**What is hard.**  Connections that break with lines still buffered on both sides, and
old sessions that go on handling them beside the new connection; ACKs that are late,
doubled or garbled; client and server processes that end between any two steps;
several client processes on one outbox file; answers about who is logged in that come
late, behind a logout or behind a message box that runs an event loop of its own; lines
cut anywhere, and names converted six times on their way to the administrator;
`start()` running on the accept thread outside the strand; broadcasts gathered under a
lock and delivered after it; registrations racing on one database connection;
`m_running` written by two threads, and a stop that waits for a thread; timers that
multiply; late snapshots against a purge.  `PROJECT.json` lists them at their lines.

## 2. Modules

### `OutboxSync`, and the abstract `SnapshotDelivery`

The store-and-forward path from the worker's signal to the metrics table, over many
connections.

| State | Code |
|---|---|
| `outbox`, `lastId` | table `outbox` and its `sqlite_sequence` |
| `worker`, `socket`, `fragment` | `m_worker` was made; state of `m_socket`; `m_buffer` holds the start of a line |
| `conn`, `peer`, `toServer`, `toClient` | connections and sessions, lines sent and not handled, ACKs on their way |
| `metrics`, `refused` | rows of the metrics table per snapshot; snapshots whose insertion threw |

One action per slot, handler or event: `OnLoginResponse`, `OnSnapshotFromWorker`
(enqueue *and* flush), `ReadAck` (the slot runs **twice**, each run erases and flushes),
`ReadGarbledLine` (the buffer kept over a disconnect), `HandleMetrics(c)` (ACK also when
the insertion threw), `Connect`, `DisconnectFromServer`, `SessionStops`, `ServerCrash`,
`OnDisconnected`, `ClientRestart`.  A connection that breaks loses a tail of the lines on
it, in both directions; what its session had read is still handled later, beside the
lines of the next connection.

`SnapshotDelivery` says what this amounts to with no outbox, sockets or ACKs: snapshots
are accepted in order, stored any number of times or refused, and let go only when they
are the oldest held and the server dealt with them.  `OutboxSync` is shown to implement
it with `held <- {r.snap : r \in outbox}` and `stored <- {s : metrics[s] > 0}`.

`worker` stays true after `SyncService::stop`, because snapshots the worker emitted
before are in the main thread's queue and still arrive; this also lets a few more arrive
than the queue can hold, which is the safe side.

### `SessionStrand`

The server's sessions, registry and accept loop.  Each session has its `strand` (a queue
of posted handlers), the outstanding `reads` and `writes`, `m_outgoing`, `m_stopped`,
`m_isAdmin`.  A handler that touches only its session is one step; `broadcast` is
`Gather` (under the lock), one `Deliver` per session (after it) and `BroadcastDone`;
`stop` is `Stop` and `Leave`; `start` is `Join` and `StartReading`, on the accept thread,
so all of these interleave.  `remote_endpoint()` without an error code may throw in
`Accept` and `Stop`: the exception ends the process (`up`).  A broadcast delivers in an
order that is left open; the code goes through a vector, one of those orders.
`HandlerThrows` is a handler of a login, a registration or a request that throws, since
`read_json` finds no JSON or the repository fails: nothing catches it, and the process
ends as well.  It is no part of `Run`, so fairness never asks for it.

### `WorkerLifecycle`

`MetricsCollectorWorker`, its `QThread` and the part of `SyncService` that starts,
refreshes and stops it, on two threads: queued `startCollecting`, queued `collectOnce`
(twice per refresh command), the 0 ms and interval timers, `m_running` written by both
threads, the wait in `stop`, deletion with `deleteLater` and again by the `unique_ptr`
(after which the process may end: undefined behaviour as a choice of outcomes).

### `UserAccounts`

The users table under `m_mutex`, and the handlers of LOGIN and REGISTER on several
threads.  The lock is explicit (`holder`): `registerUser` is `RegisterCheck` (lock, look
up) and `RegisterInsert` (insert, read the row id, unlock); `RegisterAnswer` follows
outside the lock.  `RegisterInsert` has a branch for a name that is there already: the
UNIQUE constraint would throw out of the handler and end the process.
`InsertNeverConflicts` says that this branch is never taken.  `Crash` and the steps of
the start (`InitSchema`, `InitUsers`) come at any time.  A node name is the user name
with `-node` after it and is told apart by the user name.

### `MetricsTable`

The metrics table over time: insertion of snapshots in any order and of any age, the
query for the latest one, the hourly purge, its failures, and restarts.  Time is kept as
ages relative to the server's clock, so that nothing grows: an hour (`Tick`) makes
everything older.  Ages may be negative, for the client sets the timestamps and its
clock may be ahead.  How far a snapshot is beyond the retention is not told apart; every
property speaks of snapshots within it.  `shown` is what the administrator's window has,
`newest` the newest snapshot stored, kept only to state the properties.

### `SharedOutbox`

The outbox again, with several client processes that open one file: the user may start
the program twice, and a restart command does so by itself, for `main` connects
`serverCommandReceived` a second time and each run of the slot starts a process.

| State | Code |
|---|---|
| `outbox`, `lastId` | the shared table and its `sqlite_sequence` |
| `state`, `link` | a process is there, has a worker; its `m_socket.state()` |
| `todo` | the SQL statements the running slot has still to do |
| `sent`, `acks` | ids of METRICS lines on a process's connections; `localId`s that may reach it |
| `stored`, `refused` | ids the server inserted, or could not insert |

A slot is no longer one step: `OnSnapshotFromWorker` and `ReadAck` put statements into
`todo` (the doubled ACK slot four of them), and `DoEnqueue`, `DoFlush` and `DoErase` do
one each, with statements of other processes in between.  `End` comes at any statement,
which is also what an INSERT or DELETE does that finds the database locked: it throws out
of the slot.  `peekOldest` then finds no row, so `DoFlush` may always send nothing.
Lines on their way are sets, so that any number of copies arrive in any order or
not at all; what `OutboxSync` says of the order on one connection is not repeated.
`SharedOutbox` implements the same `SnapshotDelivery`, with `held <- outbox`.

### `ClientSession`

Who is logged in, as the window, `SyncService`, the socket's line buffer and the server's
session see it.

| State | Code |
|---|---|
| `tab`, `label`, `logout` | `MainWindow::m_isAdmin`, `m_roleLabel`, `m_logoutButton` |
| `role`, `user`, `worker` | `SyncService::m_isAdmin`, `m_userId` with `m_nodeName`, `m_worker` |
| `socket`, `fragment`, `buffer`, `dialog` | `m_socket.state()`, `m_buffer` and its complete lines, the message box of `onRegisterResponse` |
| `account`, `accounts` | identity of the `Session`; names in the users table |
| `requests`, `responses` | lines on their way, each way |

One action per click (`Connect`, `OnDisconnectClicked`, `SendCredentials`,
`SendAdminRequest`, `OnLogoutClicked`), per handler of the session (`HandleLogin`,
`HandleRegister`, `HandleAdmin`) and per step of `onReadyRead`: `OnReadyRead` takes
complete lines, `OnLoginResponse` and `OnRegisterResponse` handle one, `CloseDialog` ends
the message box.  While it is open its event loop runs, so `OnDisconnected` may come
between; the lines in the local buffer are handled after it, on a connection that is
gone.  `answered` and `orphan` are history: whether an "ok" of this connection was
handled, and whether the tab was enabled by a line that outlived its connection.  Rights
are those of the name `admin`, as `UserAccounts` proves.  Passwords are a choice of `ok`.

### `WireText`

The lines from server to client, cut into chunks anywhere, and the list of processes
from `toJson` over the column `processes_json` and `buildMetricsJson` to `fromJson`. A
text is a sequence of symbols, and a symbol is what a reader looks for (quotation mark,
backslash, space, newline), a key, a number or a letter.  `Write`, `OnReadyRead` (any
number of symbols) and `Reconnect` (which does not clear `m_buffer`) are the steps.
`OnReadyRead` takes every complete line (`LineEnds`); `received` holds, for each, the
message that was decoded (`NoMessage` for a line without a type) and what the client
reads in it: of any line of type ACK its `localId`, which is 0 when the payload is no
JSON (the client then flushes and erases nothing, `ReadGarbledLine` of `OutboxSync`).
The conversions are operators: `ToJson`, `FromJson` (a scan for tokens, with
`QJsonDocument`'s escapes: an unknown one is the letter itself, `\u` needs digits),
`Stored` (`insertSnapshot`, which escapes by hand), `FromColumn`
(`getLatestSnapshotForNode`, which searches for keys and takes digits only for a pid),
`BuildMetricsJson` (which does not escape), `EncodeWireMessage`, `DecodeWireMessage`.
`Limited` is the limit of `collectProcesses`.  Of a snapshot the node and the processes
are kept; the other fields are numbers and a timestamp, copied one by one.
`AnswersAreLines` assumes that no answer has a newline, as no name has one; TLC
evaluates it for the instance.

### Modules around them

`MC*` modules are the TLC instances, with the constants that a `.cfg` cannot write.
`*Proofs` modules hold the theorems.  Definitions named `Bad...` are plausible mistakes
in the definition after them (a dropped guard, a missing reset, `ORDER BY` turned
round); no specification uses them.  With such a definition put in the place of the
right one, TLC finds the property that goes with it violated, so each property is known
to be able to fail.

## 3. Runs

| Run | Instance | Asks |
|---|---|---|
| `outbox_reconnect` | 2 snapshots, 3 connections (242,000 states) | `TypeOK`, `NoSnapshotLost`, `SettledInOrder`, `SentInOrder`, `ImplementsDelivery` |
| `outbox_backlog` | 3 snapshots, 1 connection (378,000) | `DuplicatesBounded`, `ExchangeContinues`, `BacklogDrains` |
| `session_safety` | 2 sessions of 2 lines each, symmetric (516,000) | `TypeOK`, `SingleWriter`, `WriterActive`, `PerSenderOrder`, `ReaderArmed`, `RegistryExact` |
| `session_liveness` | 2 sessions of 2 and 1 lines (84,000) | `BroadcastDelivers`, `StoppedIsReleased` |
| `shared_outbox` | 2 processes, symmetric, 2 snapshots (281,000) | `TypeOK`, `SettledInOrder`, `ImplementsDelivery` |
| `client_session` | 4 names of which one cannot be read back, two of them symmetric, 3 lines in flight (3.1 million) | `TypeOK`, `TabBacked`, `Agreement` |
| `client_session_answers` | 2 names, one of them `corp\user` | `RegistrationIsLogin`, which fails |
| `wire_text` | 5 lists of processes, 3 messages, 2 connections, chunks of up to 12 symbols (496,000) | `FramesIntact`, `ShownAsCollected` |
| `worker_lifecycle` | 3 starts, 3 refresh commands each (1,100) | `TypeOK`, `ChainsAddUp`, `StoppedIsQuiet`, `StopReturns`, `ReportsKeepComing` |
| `metrics_table` | 2 nodes, 3 rows, retention 3 h, period 2 h, clock 1 h ahead (32,000) | `TypeOK`, `RecentIsShown`, `NeverBack`, `ExpiredIsPurged` |
| `accounts` | 2 sessions, 3 names, 2 passwords, 4 requests (117,000) | `TypeOK`, `InsertNeverConflicts`, `AdminAvailable`, `IdentityBacked`, `GrantedOnce`, `AccountsPermanent`, `RequestsAreAnswered` |
| `accounts_regular_user` | the same with 2 names | `RegularUserLogin`, which fails |

**What they show.**

* *Outbox.*  No snapshot is lost by any combination of breaks, restarts, late ACKs and
  doubled slots: AUTOINCREMENT is what saves it, for with reused ids a late ACK erases
  a row that was never sent.  The server deals with snapshots in order, and a running
  exchange empties the outbox unless the connection breaks.  The doubled connection of
  the slot costs duplicates: the copies of a snapshot can double with every row in front
  of it in the backlog, and `DuplicatesBounded` is the bound on that.
* *Sessions.*  `m_outgoing` is written by one writer and never stuck; a session that has
  not stopped reads, although the first read starts outside the strand; the registry has
  exactly the sessions between join and leave; a stopped session is freed.
* *Shared outbox.*  Two processes on one file lose nothing and overtake nothing, though
  they send each other's rows and erase rows the other sent: a row is erased only by the
  id of an ACK, and only the oldest is ever sent.
* *Identity.*  The tab is enabled only with a connection and an administrator's service
  behind it, and requests offered while nothing was on its way are handled with the
  administrator's rights.  Once an answer came and none is on its way, window, service
  and session agree.  Three exceptions are in the statements because the code has them: an
  answer behind an open message box may enable the tab of a connection that has gone
  (`orphan`); until the first answer of a new connection the client believes to be
  who it was on the last (`answered`), and METRICS sent then are stored for user 0; and a
  session may have become a user whose name the client cannot read back (`Unreadable`),
  of whom the other parties know nothing: they still agree with each other.
* *Text.*  Lines are taken whole and in order; only the first line after a reconnection
  is lost, when a fragment was left in `m_buffer`.  The two glued together may have the
  type of an ACK, but never its text: the `localId` is 0, so the client flushes and erases
  nothing, nor are they shown as a snapshot.  A process list arrives as it was collected
  when no name has a quotation mark; with one, or with a backslash in the node's name, the
  answer is not readable or the node's name is another, but never is another list of
  processes shown.
* *Worker.*  `stop()` returns and leaves nothing, even when the queued
  `startCollecting` sets `m_running` after `stop` cleared it.  Each refresh command adds
  *two* chains of timers that last as long as the worker: `ChainsAddUp` states the exact
  number, so the rate of collection grows with every command.
* *Accounts.*  A name has one owner; a session acts with the id, node and role of one
  row of the table; the administrator is there whenever the server serves, wherever an
  earlier start was interrupted; no path keeps the mutex.
* *Metrics.*  The administrator gets the newest snapshot, and never sees a node go back
  in time, while it is within the retention; an expired row goes in the end, also when
  purges fail, unless the process ends first.  That exception is needed: the timer waits
  a full hour after each start, so a server restarted more often never purges.

**Findings.**

* `tests/server/test_auth_service.cpp:23` logs in as `user1`/`user1` in a repository
  that was just made and expects an ordinary user; `initUsers`
  (`server/src/data/metric_repository.cpp:119-122`) makes only `admin`/`admin`.
  `accounts_regular_user` is the counterexample.
* `client/src/business/sync_service.cpp:155-156` says that after a successful
  registration the server has authenticated the client, and that the client does what a
  login does.  `handleRegister` (`server/src/network/session.cpp:194`) writes the node
  name into the JSON text as it is.  With a quotation mark in it, or a backslash that begins
  no escape, as in the domain user `corp\user`, `QJsonDocument` reads nothing, and the
  client reports a failure while the session is logged in.  (Not every backslash does
  this: Qt takes an unknown escape for its letter.)  `client_session_answers` is the
  counterexample.

**Bounds.** Two snapshots are the least that can be overtaken or mixed up; three
connections let lines of one old session be handled while another breaks; three
snapshots on one connection let the doubled slot multiply twice. Two sessions that both
command are needed for crossing broadcasts, and one of them may stop while the other has
gathered it; the proofs cover any number. Two sessions and one free name already race
for a registration; the other names, and four requests, let a session change users and
the administrator register. Three rows of two nodes are the newest, a late one and
another node's; a period of more than an hour lets rows expire between purges. Two
processes already send and erase each other's rows. Four names are the administrator,
two users that can follow each other and one whose name cannot be read back; three lines
in flight let an answer, a second one and a request of the tab pass a break. Three
messages on two connections are a fragment, the line glued to it and the one behind; a
chunk of 12 symbols holds an ACK and the start of the next line, and cuts a long answer
several times. The proofs remove all of these bounds; what stays bounded is the liveness
properties and, of the text, the names and lists of processes that `ShownAsCollected` is
checked with.

`CHECK_DEADLOCK FALSE` is given where the model does stop: when the bounded connections,
lines, starts or requests are used up, or the process has ended.  `metrics_table`,
`client_session` and `shared_outbox` have it on.

**Fairness.**  `SharedOutbox`, `ClientSession` and `WireText` have none: their properties
are safety properties.

* `OutboxSync`: the `io_context` threads run the handlers of the newest session, and
  Qt's event loop delivers `readyRead` (WF on `HandleMetrics(conn)` and `ReadAck`).  No
  connection has to be made, kept or dropped.  Qt does not emit `readyRead` inside its own
  slot, so while the message box of a registration is open ACKs wait, and what came
  meanwhile waits for the next data, the ACK of the next snapshot at the latest.
* `SessionStrand`: a strand with a handler runs it, the accept thread returns from
  `start`, and operations on a socket that `stop` closed complete (WF each).  Nothing
  makes a peer send or receive.
* `WorkerLifecycle`: both threads run (WF), and after `quit()` the worker's event loop
  ends (SF on `ThreadFinishes`): a pass of the loop has finitely many events, but in the
  model a timer of 0 ms could otherwise come between for ever.
* `UserAccounts`: a thread goes on with the handler it began (WF per session).  It is
  enough because requests are bounded; mutexes are not assumed to be fair.
* `MetricsTable`: time goes on, an expired timer is handled (WF), and the purge does not
  throw every time it is tried (SF on `PurgeOldMetrics`); nothing else could be expected
  to remove rows from a database that refuses every deletion.

## 4. Proofs

For every value of the constants, under the named assumptions that the bounds are
natural numbers (at least one connection, a period above zero), that `"admin"` is among
the names and passwords, that the mark for "no holder" is no session, and that no answer
has a newline (`AnswersAreLines`).

* **`OutboxSyncProofs`**: `TypeCorrect`, `NothingLost`, `OrderKept`,
  `ConnectionInOrder`, `ExchangeGoesOn` and `Refinement` (OutboxSync implements
  SnapshotDelivery).  `NoSnapshotLost` is not inductive: that an ACK erases only what was
  dealt with depends on what is on its way.  `IInv` adds where the oldest row stands:
  rows, snapshots and ids are numbered alike (`RowsNumbered`); no line on its way
  (`WireInv`), ACK on its way (`AckInv`) or snapshot dealt with (`SettledInv`) is after a
  row still in the outbox; lines of one connection are ordered (`OrderInv`); nothing
  collected has vanished (`HeldInv`).  Then an ACK can erase only the oldest row, and
  only one that was dealt with.  The lemmas on `peekOldest` (by well-foundedness of
  `<`), `flushOutbox`, the doubled slot and sequences are stated once; each action
  has its own lemma.
  `CopiesBounded` is `DuplicatesBounded`, which is about what can still happen as much
  as about what did: a line of snapshot t can become a row of t, its ACK two lines of a
  later snapshot, and so on, so that it stands for one row of s for each subset of
  t+1 .. s.  `Copies` is the set of all that, with the rows stored: handling a line or
  reading an ACK maps it one to one into what it was before (`HandledCopies`,
  `AckedCopies`), a break only loses from it (`LostCopies`), and a line that is new adds
  at most 2^(s-1) (`AddedCopies`).  New lines come from a new snapshot, and two from a
  garbled ACK, of which a connection that broke makes at most one (`Garbles`,
  `FragmentInv`).  `CopiesInv`, the invariant, bounds `Copies` by that budget.
* **`WorkerLifecycleProofs`**: `TypeCorrect`, `ChainsCounted`, `QuietAfterStop`.  The
  invariant adds that a finished thread has no event left (`FinishedInv`), that the
  thread loops exactly while a worker is not being stopped (`LoopingInv`), and that only
  refresh calls wait until `startCollecting` ran (`StartInv`).
* **`UserAccountsProofs`**: `TypeCorrect`, `NoConflict`, `OneOwner`,
  `IdentityIsAccount`, `AdminIsThere`, `AccountsKept`.  The invariant adds that the
  session between look-up and insertion holds the mutex (`LockInv`), that handlers run
  only in a serving process with its administrator (`ServingInv`), that names are unique
  and the one administrator is the built-in one (`NamesInv`), and that a handler about
  to say "ok" has made a row nobody was granted (`AnswerInv`).
* **`SessionStrandProofs`**: `TypeCorrect`, `OneWriter`, `QueueMoves`, `ReadsOn`,
  `RegistryHolds`.  The invariant counts, per session, the write that is outstanding on
  the socket or whose handler waits in the strand (`Writing`), and the read that is
  outstanding, waits, or is being handled by a broadcast (`Reading`); `Local` says that
  each is at most one, when it is one, and that a session that has not joined has nothing
  at all.  `TargetInv` says that a broadcast gathered only sessions that joined, which
  keeps its deliveries off the others; `RegistryInv` is who is in the registry.  That
  members are alive (`MembersAlive`) follows from the read that is never missing.  Lemmas
  on counting the handlers of a strand carry the arithmetic; each action has its lemma.
* **`SessionStrandProofs`, second part**: `SenderOrderKept`, which is `PerSenderOrder`,
  on top of the invariant of the first part.  A message to a session is in its strand,
  then in `m_outgoing`, then on the wire; the front of `m_outgoing` is on the wire
  already while the handler of that write waits.  `OrderInv` says that what one session
  caused is in order within each of the three and from one to the next; `FreshInv` that
  none of it is of a line its sender has not read, nor of the line it is handling while
  that is still to cause a message; `BroadcastInv` that nobody has targets but a session
  that delivers.  Lemmas about the three sequences, which know nothing of the state, say
  what posting, queueing, writing and `written` do to the order.
* **`ClientSessionProofs`**: `TypeCorrect`, `AdminsTabBacked`, `PartiesAgree`.  What the
  window shows follows the service, and the connection unless an answer behind a message
  box came late (`WindowInv`); nothing but the answer to a registration waits behind a
  box (`DialogInv`, `RegisteredInv`).  These hold for any names.  The session's account
  is named by the last answer on its way, wherever that is: in the stream, in `m_buffer`
  or behind the box, and by the service's user when none is (`AccountInv`); a fragment
  waits only while the session has said nothing (`FragmentInv`); a request the tab
  offered has only such requests before it (`OfferedInv`).  All of it is for any names:
  where a name cannot be read back, the session is logged in as a user of whom the
  client never hears, which the run `client_session_answers` shows, so `AccountInv` ends
  with the service's user *or* such a name, and so do the two theorems.
* **`SharedOutboxProofs`**: `TypeCorrect`, `OrderKept`, `Refinement`.  What is sent, or
  dealt with, has no row in front of it (`WireInv`, `SettledInv`), and what an ACK names
  or a statement is about to erase was dealt with (`AckInv`, `EraseInv`); nothing has
  vanished (`HeldInv`).
* **`MetricsTableProofs`**: `TypeCorrect`, `NewestIsShown`, `NeverGoesBack`.  The
  invariant adds that the row of the newest snapshot is there until it expires and none
  of its node is newer (`NewestInv`), and that nobody was shown a newer one
  (`ShownInv`).
* **`WireTextProofs`**: `FramesKept`, which is `FramesIntact`, `ReadAsSent` (what is
  read in a line depends on the message sent in it alone, not on chunks or neighbours)
  and `Invariance`, for any answers that are lines, messages, chunks and connections.
  The invariant is about the text that is sent and not taken, `m_buffer` with the rest
  of the stream: it is cut without gaps, at its newlines, into the encoded messages
  behind those received, the first with the fragment of the earlier connection in front
  (`Framed`, `IsCut`, `FramingInv`); `m_buffer` itself has no newline (`BufferInv`), so
  the lines complete in a chunk are the first of those pieces.  A cut is stated by
  positions, and `LineEnds` counts newlines (`LineEndsAre`), so nothing here needs a
  recursive definition.  `DecodeLine` says that a message decodes as it was encoded, for
  its first space parts type and payload; `DecodeGlued` that a line with a fragment in
  front is not the text of an ACK: the space of the message behind the fragment comes to
  stand where an ACK has none (`LateSpace`).

**Only model-checked.**  Liveness (`BacklogDrains`, `BroadcastDelivers`,
`StoppedIsReleased`, `StopReturns`, `ReportsKeepComing`, `ExpiredIsPurged`,
`RequestsAreAnswered`), which the proof system cannot do under fairness, and
`ShownAsCollected` of `WireText`.  Its JSON reader and column are recursive functions over
a text, and what such a function computes for every text takes an induction that is out of
reach here; `ReadAsSent` proves the rest of it, that connections and chunks play no part in
what a message is read as.  Every other property of a run that passes is a theorem.

## 5. Not modelled

* `nodes()` reads `m_nodeName` of sessions whose strands may be writing it: a data race,
  of which every outcome is possible, so that nothing can be stated over it.
* `MetricsCollector`: calls of operating-system APIs and the arithmetic of one reading
  (CPU usage, temperatures); only its limit on processes meets other code, and is in
  `WireText`.
* The `execute` command starts another program and changes no state here.
* `quit()` on a restart or shutdown while the worker's thread runs: the `QThread` is
  destroyed running and the process aborts instead of ending; `End` and `Restart` are
  what other parts see of either.
* `m_outgoing` has no limit: a peer that does not read makes it grow.  The model bounds
  lines instead.
* Names with a newline (no escaping in the code is about one), text that is not
  well-formed UTF-8, and names that turn the answer to a login or registration into other
  JSON instead of none: `ClientSession` has names that are read back and names that are not.
* Widgets that only show values, the tray, styles, logging, the storage of passwords, and
  SQLite's own durability, which is assumed.
* `listNodeNames`, `latestRawPayloadForNode`, `getUserNodeName` and `count`: called by
  nothing, or by tests.
* Timestamps that are no time (`datetime()` gives NULL and the row is never purged): the
  client always writes ISO 8601, and the server fills in a missing one.

## 6. Plan

Done, in this order for their weight in the system: `OutboxSync` with
`SnapshotDelivery`, `SessionStrand`, `UserAccounts`, `WorkerLifecycle`, `MetricsTable`,
`ClientSession`, `SharedOutbox`, `WireText`, and the proofs of all of them.  Left:

1. `AnswersAreLines` and `ShownAsCollected` for any names, from the conversions alone: that
   an escaped name is read back, and that a text which is no snapshot's is `Unreadable`.
   Both take induction over a text.
2. `RegistrationIsLogin` and the finding about it, should `handleLogin` and
   `handleRegister` come to escape the node's name: `Unreadable` is then empty, and the
   exception of `TabBacked` and `Agreement` for it goes.
