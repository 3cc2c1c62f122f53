----------------------------- MODULE OutboxSync -----------------------------
(***************************************************************************)
(* The store-and-forward path of one monitoring client: the SQLite outbox  *)
(* (LocalMetricsStore), the synchronisation of it (SyncService), the TCP   *)
(* socket and its line buffer (ClientChannel), the METRICS path of the     *)
(* server's sessions (Session::handleMetrics) and the server's metrics     *)
(* table (MetricRepository).                                               *)
(*                                                                         *)
(* Every connection the client makes is a new session at the server; the   *)
(* lines an old session has buffered are still handled while the new       *)
(* connection is in use.  A snapshot is its number in the order of         *)
(* collection; its contents play no part in what is sent when.             *)
(*                                                                         *)
(* Definitions named Bad... are plausible mistakes in the definition that  *)
(* follows them.  No specification uses them: each shows that a property   *)
(* below can fail.                                                         *)
(***************************************************************************)
EXTENDS Integers, Sequences, Functions

CONSTANTS
    MaxSnapshots,    \* bound: snapshots the worker collects
    MaxConnections   \* bound: connections the client makes

ASSUME SnapshotsAssumption == MaxSnapshots \in Nat
ASSUME ConnectionsAssumption == MaxConnections \in Nat \ {0}

VARIABLES
    outbox,      \* the rows of the client's outbox table
    lastId,      \* sqlite_sequence: the largest id the outbox table ever gave
    collected,   \* number of snapshots the worker has handed to SyncService
    worker,      \* a worker was started since the client process was
    socket,      \* m_socket.state() of the client's QTcpSocket
    conn,        \* the number of the newest connection, 0 before the first
    peer,        \* the server's session of connection conn is up
    fragment,    \* m_buffer of ClientChannel holds the start of a line
    toServer,    \* METRICS lines sent and not yet handled, per connection
    toClient,    \* localIds of the ACK lines on their way on connection conn
    metrics,     \* number of rows of the metrics table, per snapshot
    refused      \* snapshots of which an insertion threw

clientVars == <<outbox, lastId, collected>>
linkVars == <<worker, socket, conn, peer, fragment>>
serverVars == <<metrics, refused>>
vars == <<outbox, lastId, collected, worker, socket, conn, peer, fragment,
          toServer, toClient, metrics, refused>>

Connections == 1 .. MaxConnections
Snapshots == 1 .. MaxSnapshots
Row == [id : Nat, snap : Snapshots]

-----------------------------------------------------------------------------
(* LocalMetricsStore.                                                      *)

\* A plain INTEGER PRIMARY KEY: one more than the largest id in the table.
BadNextRowId ==
    IF outbox = {} THEN 1
    ELSE (CHOOSE r \in outbox : \A o \in outbox : o.id <= r.id).id + 1

\* INTEGER PRIMARY KEY AUTOINCREMENT: an id is never given twice, not even
\* after the row that had it was erased.
NextRowId == lastId + 1

\* ORDER BY id DESC.
BadPeekOldest(box) == CHOOSE r \in box : \A o \in box : o.id <= r.id

\* SELECT ... ORDER BY id ASC LIMIT 1.
PeekOldest(box) == CHOOSE r \in box : \A o \in box : r.id <= o.id

\* An ACK is taken to be for the row sent last, the oldest one.
BadErase(id, box) == IF box = {} THEN {} ELSE box \ {PeekOldest(box)}

\* DELETE FROM outbox WHERE id = ?: deletes nothing when no row has the id.
Erase(id, box) == {r \in box : r.id # id}

-----------------------------------------------------------------------------
(* SyncService.                                                            *)

\* The loop of flushOutbox goes on to the next row.
BadFlushOutbox(box) ==
    IF box = {} THEN << >>
    ELSE LET first == PeekOldest(box) IN
         IF box = {first} THEN <<first>> ELSE <<first, PeekOldest(box \ {first})>>

\* flushOutbox leaves its loop after one row: what it sends of the table box.
FlushOutbox(box) == IF box = {} THEN << >> ELSE <<PeekOldest(box)>>

\* The next row is left to the next snapshot.
BadOnAckReceived(id, s) ==
    [box |-> IF id > 0 THEN Erase(id, s.box) ELSE s.box, sent |-> s.sent]

\* onAckReceived, as a function of the table and of what was sent before it.
OnAckReceived(id, s) ==
    LET left == IF id > 0 THEN Erase(id, s.box) ELSE s.box
    IN  [box |-> left, sent |-> s.sent \o FlushOutbox(left)]

\* One more connection of the same signal and slot.
BadAckReceived(id) ==
    OnAckReceived(id, OnAckReceived(id, OnAckReceived(id, [box |-> outbox, sent |-> << >>])))

\* The signal ackReceived is connected to the slot onAckReceived by the
\* constructor of SyncService and again by main: one signal runs it twice.
AckReceived(id) ==
    OnAckReceived(id, OnAckReceived(id, [box |-> outbox, sent |-> << >>]))

\* Rows written to the socket.  flushOutbox writes only in ConnectedState;
\* what is written to a session that is gone is lost.
Sent(rows) ==
    IF socket = "connected" /\ peer
    THEN [toServer EXCEPT ![conn] = @ \o rows]
    ELSE toServer

\* What is left of the lines on a connection that breaks: a tail is lost.
Prefixes(q) == {SubSeq(q, 1, n) : n \in 0 .. Len(q)}

\* What the sessions still get to handle when the newest connection breaks.
AfterBreak ==
    IF socket = "unconnected" THEN {toServer}
    ELSE {[toServer EXCEPT ![conn] = q] : q \in Prefixes(toServer[conn])}

-----------------------------------------------------------------------------
Init ==
    /\ outbox = {}
    /\ lastId = 0
    /\ collected = 0
    /\ worker = FALSE
    /\ socket = "unconnected"
    /\ conn = 0
    /\ peer = FALSE
    /\ fragment = FALSE
    /\ toServer = [c \in Connections |-> << >>]
    /\ toClient = << >>
    /\ metrics = [s \in Snapshots |-> 0]
    /\ refused = {}

\* onMessageReceived of LOGIN_RESP or REGISTER_RESP with status ok: start()
\* makes the worker.  A later stop() ends it, but the snapshots it emitted
\* before are in the event queue and still arrive: worker stays TRUE.
OnLoginResponse ==
    /\ socket # "unconnected"
    /\ ~fragment
    /\ ~worker
    /\ worker' = TRUE
    /\ UNCHANGED <<clientVars, socket, conn, peer, fragment, toServer, toClient, serverVars>>

\* onSnapshotFromWorker: a snapshot is enqueued, then the outbox is flushed.
OnSnapshotFromWorker ==
    /\ worker
    /\ collected < MaxSnapshots
    /\ collected' = collected + 1
    /\ lastId' = NextRowId
    /\ outbox' = outbox \cup {[id |-> NextRowId, snap |-> collected + 1]}
    /\ toServer' = Sent(FlushOutbox(outbox'))
    /\ UNCHANGED <<linkVars, toClient, serverVars>>

\* onReadyRead takes a complete ACK line from a clean buffer.
ReadAck ==
    /\ socket # "unconnected"
    /\ ~fragment
    /\ toClient # << >>
    /\ toClient' = Tail(toClient)
    /\ outbox' = AckReceived(Head(toClient)).box
    /\ toServer' = Sent(AckReceived(Head(toClient)).sent)
    /\ UNCHANGED <<lastId, collected, linkVars, serverVars>>

\* onReadyRead after a connection that broke inside a line: m_buffer was not
\* cleared, so the first line of this connection is appended to the fragment.
\* That line is an ACK or any other message of the server.  What results has
\* no known type, or is an ACK whose payload does not parse, localId 0.
ReadGarbledLine ==
    /\ socket # "unconnected"
    /\ fragment
    /\ fragment' = FALSE
    /\ \/ toClient # << >> /\ toClient' = Tail(toClient)
       \/ UNCHANGED toClient
    /\ \/ UNCHANGED <<outbox, toServer>>
       \/ /\ outbox' = AckReceived(0).box
          /\ toServer' = Sent(AckReceived(0).sent)
    /\ UNCHANGED <<lastId, collected, worker, socket, conn, peer, serverVars>>

\* The ACK goes to the node's newest connection instead of the session's own.
BadHandleMetrics(c) ==
    /\ toServer[c] # << >>
    /\ toServer' = [toServer EXCEPT ![c] = Tail(@)]
    /\ metrics' = [metrics EXCEPT ![Head(toServer[c]).snap] = @ + 1]
    /\ toClient' = Append(toClient, Head(toServer[c]).id)
    /\ UNCHANGED <<clientVars, linkVars, refused>>

\* No ACK when the insertion throws.
BadHandleMetricsFailure(c) ==
    /\ toServer[c] # << >>
    /\ toServer' = [toServer EXCEPT ![c] = Tail(@)]
    /\ LET row == Head(toServer[c]) IN
       \/ /\ metrics' = [metrics EXCEPT ![row.snap] = @ + 1]
          /\ toClient' = IF c = conn /\ peer THEN Append(toClient, row.id) ELSE toClient
          /\ UNCHANGED refused
       \/ /\ refused' = refused \cup {row.snap}
          /\ UNCHANGED <<metrics, toClient>>
    /\ UNCHANGED <<clientVars, linkVars>>

\* handleMetrics of the session of connection c: the row is inserted, or the
\* insertion throws and is logged; the ACK is sent in both cases, and arrives
\* when the connection is still there.
HandleMetrics(c) ==
    /\ toServer[c] # << >>
    /\ toServer' = [toServer EXCEPT ![c] = Tail(@)]
    /\ LET row == Head(toServer[c]) IN
       /\ \/ /\ metrics' = [metrics EXCEPT ![row.snap] = @ + 1]
             /\ UNCHANGED refused
          \/ /\ refused' = refused \cup {row.snap}
             /\ UNCHANGED metrics
       /\ toClient' = IF c = conn /\ peer THEN Append(toClient, row.id) ELSE toClient
    /\ UNCHANGED <<clientVars, linkVars>>

\* connectToServer succeeds: onConnected reports it, and does not flush.
Connect ==
    /\ socket = "unconnected"
    /\ conn < MaxConnections
    /\ conn' = conn + 1
    /\ socket' = "connected"
    /\ peer' = TRUE
    /\ UNCHANGED <<clientVars, worker, fragment, toServer, toClient, serverVars>>

\* disconnectFromServer: QTcpSocket stays in ClosingState until its last bytes
\* are out, and still delivers what arrives.
DisconnectFromServer ==
    /\ socket = "connected"
    /\ socket' = "closing"
    /\ UNCHANGED <<clientVars, worker, conn, peer, fragment, toServer, toClient, serverVars>>

\* The session stops (an error of a read or a write): it sends no more, but
\* the lines it has read are handled.
SessionStops ==
    /\ peer
    /\ peer' = FALSE
    /\ toServer' \in AfterBreak
    /\ toClient' \in Prefixes(toClient)
    /\ UNCHANGED <<clientVars, worker, socket, conn, fragment, serverVars>>

\* The server process ends, with everything its sessions had read.
ServerCrash ==
    /\ peer \/ \E c \in Connections : toServer[c] # << >>
    /\ peer' = FALSE
    /\ toServer' = [c \in Connections |-> << >>]
    /\ toClient' \in Prefixes(toClient)
    /\ UNCHANGED <<clientVars, worker, socket, conn, fragment, serverVars>>

\* The client's socket reaches UnconnectedState.  The last read may have left
\* the start of a line in m_buffer.
OnDisconnected ==
    /\ socket # "unconnected"
    /\ socket' = "unconnected"
    /\ peer' = FALSE
    /\ fragment' \in {fragment, TRUE}
    /\ toClient' = << >>
    /\ toServer' \in AfterBreak
    /\ UNCHANGED <<clientVars, worker, conn, serverVars>>

\* The client process ends and is started again: only the database remains.
ClientRestart ==
    /\ worker \/ fragment \/ socket # "unconnected"
    /\ worker' = FALSE
    /\ socket' = "unconnected"
    /\ peer' = FALSE
    /\ fragment' = FALSE
    /\ toClient' = << >>
    /\ toServer' \in AfterBreak
    /\ UNCHANGED <<clientVars, conn, serverVars>>

Next ==
    \/ OnLoginResponse
    \/ OnSnapshotFromWorker
    \/ ReadAck
    \/ ReadGarbledLine
    \/ \E c \in Connections : HandleMetrics(c)
    \/ Connect
    \/ DisconnectFromServer
    \/ SessionStops
    \/ ServerCrash
    \/ OnDisconnected
    \/ ClientRestart

Spec == Init /\ [][Next]_vars

\* The io_context threads run the handlers of the newest session, and Qt's
\* event loop delivers readyRead; nothing else is owed to happen.  Qt does not
\* emit readyRead again inside its slot: while the message box of a registration
\* is open, ACKs wait for it.
Fairness ==
    /\ WF_vars(conn # 0 /\ HandleMetrics(conn))
    /\ WF_vars(ReadAck)

FairSpec == Spec /\ Fairness

-----------------------------------------------------------------------------
(* Properties.                                                             *)

\* The type of the state, and how the ends of the connection go together: the
\* server's session is up only while the client's socket is, and nothing is on
\* its way to a socket that is not there.
TypeOK ==
    /\ collected \in 0 .. MaxSnapshots
    /\ lastId \in Nat
    /\ outbox \subseteq Row
    /\ socket \in {"unconnected", "connected", "closing"}
    /\ worker \in BOOLEAN
    /\ conn \in 0 .. MaxConnections
    /\ peer \in BOOLEAN
    /\ fragment \in BOOLEAN
    /\ toServer \in [Connections -> Seq(Row)]
    /\ toClient \in Seq(Nat)
    /\ metrics \in [Snapshots -> Nat]
    /\ refused \subseteq Snapshots
    /\ peer => socket # "unconnected"
    /\ socket # "unconnected" => conn # 0
    /\ socket = "unconnected" => toClient = << >>

\* The server has dealt with a copy of snapshot s.
Settled(s) == metrics[s] > 0 \/ s \in refused

\* A snapshot leaves the outbox only after the server has dealt with it, over
\* crashes, restarts, lost and late ACKs, ACKs delivered to the slot twice and
\* ACKs of an earlier connection's ids: what onAckReceived erases is never a
\* row that was not handled.
NoSnapshotLost ==
    \A s \in 1 .. collected : Settled(s) \/ \E r \in outbox : r.snap = s

\* The server deals with the snapshots of a client in the order of their
\* collection, on however many connections: no snapshot is dealt with before
\* an earlier one is.  flushOutbox relies on it when it sends only the head.
SettledInOrder ==
    \A s \in 1 .. collected : Settled(s) => \A t \in 1 .. s : Settled(t)

\* On one connection METRICS lines never go back to an earlier snapshot: though
\* every ACK flushes twice, a session takes the snapshots on their way to it,
\* copies included, in the order in which they were collected.
SentInOrder ==
    \A c \in Connections : \A i, j \in DOMAIN toServer[c] :
        i <= j => toServer[c][i].snap <= toServer[c][j].snap

\* One exchange is running on a usable connection.
ConnectionUp == socket = "connected" /\ peer /\ ~fragment
InFlight == conn # 0 /\ (toServer[conn] # << >> \/ toClient # << >>)

\* Once a row is on its way on a connection, the exchange goes on by itself
\* until the outbox is empty: no step of either side, an ACK of a row that is
\* already erased included, ends it while rows remain.
ExchangeContinues ==
    [][ConnectionUp /\ InFlight /\ socket' = "connected" /\ peer'
          => InFlight' \/ outbox' = {}]_vars

\* The rows that waited while the client was offline all reach the server once
\* the first of them is sent, unless the connection breaks first.
BacklogDrains ==
    (ConnectionUp /\ InFlight) ~> (outbox = {} \/ ~ConnectionUp)

\* Every line is sent because of a collected snapshot, because of a garbled
\* ACK (two lines), or because of an ACK of an earlier row (two lines, for the
\* slot runs twice): the copies of a snapshot double with each row in front of
\* it, and grow no faster.
DuplicatesBounded ==
    \A s \in Snapshots : metrics[s] <= (MaxSnapshots + 2 * (MaxConnections - 1)) * 2 ^ (s - 1)

Delivery == INSTANCE SnapshotDelivery WITH
    accepted <- collected,
    held <- {r.snap : r \in outbox},
    stored <- {s \in Snapshots : metrics[s] > 0},
    refused <- refused

\* The outbox, the wire protocol and the session together implement the
\* delivery that SnapshotDelivery promises.
ImplementsDelivery == Delivery!Spec
=============================================================================
