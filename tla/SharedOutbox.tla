----------------------------- MODULE SharedOutbox -----------------------------
(***************************************************************************)
(* Several client processes on one machine, which share the outbox table:  *)
(* every client opens rmm_client.sqlite3 in its working directory.  The    *)
(* user may start the program twice, and a restart command does so by      *)
(* itself, for every COMMAND is executed twice.                            *)
(*                                                                         *)
(* The slots of SyncService are several SQL statements, and statements of  *)
(* other processes come between them.  An INSERT or DELETE that finds the  *)
(* database locked throws, and the process ends at that point, as it may   *)
(* anywhere; a SELECT that does finds no row.                              *)
(*                                                                         *)
(* What is on its way is a set: how often a line was sent and in which     *)
(* order it arrives plays no part in what is promised here, so any number  *)
(* of copies may be handled, in any order, or none.  A snapshot is the id  *)
(* of its row.  Definitions named Bad... are plausible mistakes in the     *)
(* definition that follows them, and no specification uses them.           *)
(***************************************************************************)
EXTENDS Naturals, Sequences, FiniteSets

CONSTANTS
    Processes,    \* the client processes there may be at a time
    MaxSnapshots  \* bound: snapshots the workers collect

ASSUME SnapshotsAssumption == MaxSnapshots \in Nat

VARIABLES
    outbox,   \* the ids of the rows of the outbox table
    lastId,   \* sqlite_sequence of the outbox table
    state,    \* a process is not there, was started, or has a worker
    link,     \* m_socket.state() of a process
    todo,     \* the statements the running slot of a process has still to do
    sent,     \* ids of the METRICS lines on the connections of a process
    acks,     \* localIds of the ACKs that may reach a process
    stored,   \* ids of the snapshots in the metrics table
    refused   \* ids of the snapshots of which an insertion threw

vars == <<outbox, lastId, state, link, todo, sent, acks, stored, refused>>
tableVars == <<outbox, lastId>>
serverVars == <<stored, refused>>

Ids == Nat \ {0}
Statement == [op : {"enqueue", "flush"}] \cup [op : {"erase"}, id : Ids]

Init ==
    /\ outbox = {}
    /\ lastId = 0
    /\ state = [p \in Processes |-> "ended"]
    /\ link = [p \in Processes |-> "unconnected"]
    /\ todo = [p \in Processes |-> << >>]
    /\ sent = [p \in Processes |-> {}]
    /\ acks = [p \in Processes |-> {}]
    /\ stored = {}
    /\ refused = {}

-----------------------------------------------------------------------------
(* The slots.                                                              *)

\* The event loop of p runs, and no slot.
Idle(p) == state[p] # "ended" /\ todo[p] = << >>

Enqueue == [op |-> "enqueue"]
Flush == [op |-> "flush"]
Erase(id) == [op |-> "erase", id |-> id]

\* onAckReceived, run twice: main connects the signal once more than the
\* constructor.
AckSlot(id) ==
    IF id = 0 THEN <<Flush, Flush>> ELSE <<Erase(id), Flush, Erase(id), Flush>>

\* The next statement of p, and that p goes on behind it.
Begins(p, op) == todo[p] # << >> /\ Head(todo[p]).op = op
Continues(p) == todo' = [todo EXCEPT ![p] = Tail(@)]

\* onSnapshotFromWorker.
OnSnapshotFromWorker(p) ==
    /\ Idle(p)
    /\ state[p] = "collecting"
    /\ lastId + Cardinality({q \in Processes : Begins(q, "enqueue")}) < MaxSnapshots
    /\ todo' = [todo EXCEPT ![p] = <<Enqueue, Flush>>]
    /\ UNCHANGED <<tableVars, state, link, sent, acks, serverVars>>

\* onReadyRead takes an ACK; one that is glued to a fragment has no localId.
ReadAck(p) ==
    /\ Idle(p)
    /\ link[p] # "unconnected"
    /\ \E id \in acks[p] \cup {0} : todo' = [todo EXCEPT ![p] = AckSlot(id)]
    /\ UNCHANGED <<tableVars, state, link, sent, acks, serverVars>>

\* One more than the largest id in the table.
BadNextRowId ==
    IF outbox = {} THEN 1 ELSE (CHOOSE r \in outbox : \A o \in outbox : o <= r) + 1

\* AUTOINCREMENT, in the order in which the processes insert.
NextRowId == lastId + 1

\* LocalMetricsStore::enqueue.
DoEnqueue(p) ==
    /\ Begins(p, "enqueue")
    /\ Continues(p)
    /\ lastId' = NextRowId
    /\ outbox' = outbox \cup {NextRowId}
    /\ UNCHANGED <<state, link, sent, acks, serverVars>>

\* Any row of the table.
BadOldest(id) == id \in outbox

\* ORDER BY id ASC LIMIT 1.
Oldest(id) == id \in outbox /\ \A o \in outbox : id <= o

\* flushOutbox: the row that is the oldest now is written to the socket.  Nothing
\* is sent without a connection or a row, nor when the database is locked, for
\* peekOldest takes a SELECT that gives no row, whatever the reason, for no row.
DoFlush(p) ==
    /\ Begins(p, "flush")
    /\ Continues(p)
    /\ \/ /\ link[p] = "connected"
          /\ \E id \in outbox : Oldest(id) /\ sent' = [sent EXCEPT ![p] = @ \cup {id}]
       \/ UNCHANGED sent
    /\ UNCHANGED <<tableVars, state, link, acks, serverVars>>

\* The row taken off is the one sent last, the oldest.
BadDoErase(p) ==
    /\ Begins(p, "erase")
    /\ Continues(p)
    /\ outbox' = {id \in outbox : ~Oldest(id)}
    /\ UNCHANGED <<lastId, state, link, sent, acks, serverVars>>

\* LocalMetricsStore::erase: nothing happens when another process erased it.
DoErase(p) ==
    /\ Begins(p, "erase")
    /\ Continues(p)
    /\ outbox' = outbox \ {Head(todo[p]).id}
    /\ UNCHANGED <<lastId, state, link, sent, acks, serverVars>>

-----------------------------------------------------------------------------
(* The server, the connections and the processes.                          *)

\* handleMetrics of a session of p: the row is inserted or the insertion
\* throws, and the ACK is sent, to a client that may have gone.
HandleMetrics(p) ==
    /\ \E id \in sent[p] :
          /\ \/ stored' = stored \cup {id} /\ UNCHANGED refused
             \/ refused' = refused \cup {id} /\ UNCHANGED stored
          /\ \/ UNCHANGED acks
             \/ link[p] # "unconnected" /\ acks' = [acks EXCEPT ![p] = @ \cup {id}]
    /\ UNCHANGED <<tableVars, state, link, todo, sent>>

\* connectToServer of a process that runs.
Connect(p) ==
    /\ Idle(p)
    /\ link[p] = "unconnected"
    /\ link' = [link EXCEPT ![p] = "connected"]
    /\ UNCHANGED <<tableVars, state, todo, sent, acks, serverVars>>

\* disconnectFromServer: what arrives is still read.
DisconnectFromServer(p) ==
    /\ Idle(p)
    /\ link[p] = "connected"
    /\ link' = [link EXCEPT ![p] = "closing"]
    /\ UNCHANGED <<tableVars, state, todo, sent, acks, serverVars>>

\* The ACKs of the connection are kept for the next one.
BadOnDisconnected(p) ==
    /\ Idle(p)
    /\ link[p] # "unconnected"
    /\ link' = [link EXCEPT ![p] = "unconnected"]
    /\ UNCHANGED <<tableVars, state, todo, sent, acks, serverVars>>

\* The connection ends; its session may still handle what it read.
OnDisconnected(p) ==
    /\ Idle(p)
    /\ link[p] # "unconnected"
    /\ link' = [link EXCEPT ![p] = "unconnected"]
    /\ acks' = [acks EXCEPT ![p] = {}]
    /\ UNCHANGED <<tableVars, state, todo, sent, serverVars>>

\* onMessageReceived of an "ok" makes the worker.
OnLoginResponse(p) ==
    /\ Idle(p)
    /\ state[p] = "started"
    /\ link[p] # "unconnected"
    /\ state' = [state EXCEPT ![p] = "collecting"]
    /\ UNCHANGED <<tableVars, link, todo, sent, acks, serverVars>>

\* The user starts the program.
Start(p) ==
    /\ state[p] = "ended"
    /\ state' = [state EXCEPT ![p] = "started"]
    /\ UNCHANGED <<tableVars, link, todo, sent, acks, serverVars>>

\* What p holds when its process has ended.
Gone(p) ==
    /\ link' = [link EXCEPT ![p] = "unconnected"]
    /\ todo' = [todo EXCEPT ![p] = << >>]
    /\ acks' = [acks EXCEPT ![p] = {}]

\* The process ends, between any two statements or because one throws.
End(p) ==
    /\ state[p] # "ended"
    /\ state' = [state EXCEPT ![p] = "ended"]
    /\ Gone(p)
    /\ UNCHANGED <<tableVars, sent, serverVars>>

\* onServerCommand of a restart, run twice: p ends, and two processes are
\* started, of which one takes the place of p.
OnRestartCommand(p) ==
    /\ Idle(p)
    /\ link[p] # "unconnected"
    /\ \E q \in Processes \ {p} :
          /\ state[q] = "ended"
          /\ state' = [state EXCEPT ![p] = "started", ![q] = "started"]
    /\ Gone(p)
    /\ UNCHANGED <<tableVars, sent, serverVars>>

Next ==
    \E p \in Processes :
        \/ OnSnapshotFromWorker(p)
        \/ ReadAck(p)
        \/ DoEnqueue(p)
        \/ DoFlush(p)
        \/ DoErase(p)
        \/ HandleMetrics(p)
        \/ Connect(p)
        \/ DisconnectFromServer(p)
        \/ OnDisconnected(p)
        \/ OnLoginResponse(p)
        \/ Start(p)
        \/ End(p)
        \/ OnRestartCommand(p)

Spec == Init /\ [][Next]_vars

-----------------------------------------------------------------------------
(* Properties.                                                             *)

\* The type of the state: a slot runs only in a process that is there, and an
\* ACK comes only on a connection.
TypeOK ==
    /\ lastId \in Nat
    /\ outbox \subseteq 1 .. lastId
    /\ state \in [Processes -> {"ended", "started", "collecting"}]
    /\ link \in [Processes -> {"unconnected", "connected", "closing"}]
    /\ todo \in [Processes -> Seq(Statement)]
    /\ sent \in [Processes -> SUBSET Ids]
    /\ acks \in [Processes -> SUBSET Ids]
    /\ stored \subseteq Ids /\ refused \subseteq Ids
    /\ \A p \in Processes :
          /\ state[p] = "ended" => todo[p] = << >> /\ link[p] = "unconnected"
          /\ link[p] = "unconnected" => acks[p] = {}

\* Two processes that flush and erase the same table between each other's
\* statements still hand the snapshots to the server in the order in which
\* they were collected.
SettledInOrder ==
    \A s \in stored \cup refused : \A t \in 1 .. s : t \in stored \cup refused

Delivery == INSTANCE SnapshotDelivery WITH accepted <- lastId, held <- outbox

\* However many processes share the outbox, start and end: none of them erases
\* a row that the server has not dealt with, nor one that is not the oldest.
ImplementsDelivery == Delivery!Spec
=============================================================================
