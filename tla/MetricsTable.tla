---------------------------- MODULE MetricsTable ----------------------------
(***************************************************************************)
(* The metrics table of the server over time: insertSnapshot,              *)
(* getLatestSnapshotForNode, and the purge that Server::schedulePurge runs *)
(* every hour, with restarts of the process.  Each repository call is one  *)
(* step, for it holds m_mutex from its first line to its last.             *)
(*                                                                         *)
(* Time is kept as ages: how many hours before the server's clock the      *)
(* timestampUtc of a snapshot lies.  The client sets it, so it may lie     *)
(* after the server's clock, and snapshots come in any order: late from an *)
(* outbox, twice, or from two machines that use one account.  How far a    *)
(* snapshot is beyond the retention is not told apart.                     *)
(* Definitions named Bad... are plausible mistakes in the definition that  *)
(* follows them, and no specification uses them.                           *)
(***************************************************************************)
EXTENDS Integers

CONSTANTS
    Nodes,     \* the node names of the accounts
    Retention, \* hours a snapshot is kept: seven days
    Period,    \* hours between two purges: one
    Ahead,     \* bound: hours a client's clock is ahead of the server's
    MaxRows    \* bound: rows that are inserted

ASSUME RetentionAssumption == Retention \in Nat
ASSUME PeriodAssumption == Period \in Nat \ {0}
ASSUME AheadAssumption == Ahead \in Nat
ASSUME MaxRowsAssumption == MaxRows \in Nat

VARIABLES
    rows,      \* the rows of the metrics table
    lastRowId, \* sqlite_sequence of the metrics table
    server,    \* whether the server runs
    timer,     \* hours until m_purgeTimer expires, or Off
    shown,     \* age of the snapshot of a node that the administrator was shown
    newest     \* age of the newest snapshot that was stored for a node

vars == <<rows, lastRowId, server, timer, shown, newest>>

Expired == Retention + 1
Ages == (-Ahead) .. Expired
Row == [id : Nat, node : Nodes, age : Ages]
Off == -1

\* The age an hour later.
Older(a) == IF a < Expired THEN a + 1 ELSE a

\* ORDER BY id DESC LIMIT 1.
BadIsLatest(n, r) ==
    /\ r.node = n
    /\ \A q \in rows : q.node = n => q.id <= r.id

\* WHERE node_name = ? ORDER BY timestamp_utc DESC, id DESC LIMIT 1.
IsLatest(n, r) ==
    /\ r.node = n
    /\ \A q \in rows : q.node = n => r.age < q.age \/ (r.age = q.age /\ q.id <= r.id)

\* The rows the purge deletes when it counts the last hour of the retention too.
BadToPurge == {r \in rows : r.age >= Retention}

\* WHERE datetime(timestamp_utc) < datetime('now', '-7 days').
ToPurge == {r \in rows : r.age > Retention}

Init ==
    /\ rows = {}
    /\ lastRowId = 0
    /\ server = "down"
    /\ timer = Off
    /\ shown = [n \in Nodes |-> Expired]
    /\ newest = [n \in Nodes |-> Expired]

-----------------------------------------------------------------------------
\* handleMetrics: a session of node n stores a snapshot.  An exception of
\* insertSnapshot is caught and changes nothing here.
InsertSnapshot(n, a) ==
    /\ server = "serving"
    /\ lastRowId < MaxRows
    /\ rows' = rows \cup {[id |-> lastRowId + 1, node |-> n, age |-> a]}
    /\ lastRowId' = lastRowId + 1
    /\ newest' = [newest EXCEPT ![n] = IF a < @ THEN a ELSE @]
    /\ UNCHANGED <<server, timer, shown>>

\* handleGetMetrics for an administrator: the answer is the latest row; "no
\* data" leaves the window as it is.
GetMetrics(n) ==
    /\ server = "serving"
    /\ \E r \in rows : IsLatest(n, r) /\ shown' = [shown EXCEPT ![n] = r.age]
    /\ UNCHANGED <<rows, lastRowId, server, timer, newest>>

\* schedulePurge: the timer has expired, and the rows that are too old go.
PurgeOldMetrics ==
    /\ timer = 0
    /\ rows' = rows \ ToPurge
    /\ timer' = Period
    /\ UNCHANGED <<lastRowId, server, shown, newest>>

\* schedulePurge is called only when the purge went well.
BadPurgeFails ==
    /\ timer = 0
    /\ timer' = Off
    /\ UNCHANGED <<rows, lastRowId, server, shown, newest>>

\* schedulePurge: the purge throws, and is tried again at the next hour.
PurgeFails ==
    /\ timer = 0
    /\ timer' = Period
    /\ UNCHANGED <<rows, lastRowId, server, shown, newest>>

\* An hour goes by.  A timer that has expired is handled within the hour.
Tick ==
    /\ timer # 0
    /\ timer' = IF timer = Off THEN Off ELSE timer - 1
    /\ rows' = {[r EXCEPT !.age = Older(@)] : r \in rows}
    /\ shown' = [n \in Nodes |-> Older(shown[n])]
    /\ newest' = [n \in Nodes |-> Older(newest[n])]
    /\ UNCHANGED <<lastRowId, server>>

\* Server::run: the first purge is an hour after the start.
Run ==
    /\ server = "down"
    /\ server' = "serving"
    /\ timer' = Period
    /\ UNCHANGED <<rows, lastRowId, shown, newest>>

\* The process ends: the database stays.
Crash ==
    /\ server = "serving"
    /\ server' = "down"
    /\ timer' = Off
    /\ UNCHANGED <<rows, lastRowId, shown, newest>>

Next ==
    \/ \E n \in Nodes : GetMetrics(n) \/ \E a \in Ages : InsertSnapshot(n, a)
    \/ PurgeOldMetrics
    \/ PurgeFails
    \/ Tick
    \/ Run
    \/ Crash

Spec == Init /\ [][Next]_vars

\* Time goes on; a thread of the io_context runs the handler of an expired
\* timer, and the purge does not throw every time.
FairSpec ==
    /\ Spec
    /\ WF_vars(Tick)
    /\ WF_vars(PurgeOldMetrics \/ PurgeFails)
    /\ SF_vars(PurgeOldMetrics)

-----------------------------------------------------------------------------
(* Properties.                                                             *)

\* The type of the state; ids of rows are unique, and the purge timer is armed
\* exactly while the server runs.
TypeOK ==
    /\ rows \subseteq Row
    /\ lastRowId \in Nat /\ \A r \in rows : r.id \in 1 .. lastRowId
    /\ \A r, q \in rows : r.id = q.id => r = q
    /\ server \in {"down", "serving"}
    /\ timer \in {Off} \cup 0 .. Period
    /\ timer = Off <=> server = "down"
    /\ shown \in [Nodes -> Ages]
    /\ newest \in [Nodes -> Ages]

\* The newest snapshot ever stored for a node is what an administrator gets, as
\* long as it is within the retention: in whatever order copies and late
\* snapshots came, and whatever purges and restarts came between.
RecentIsShown ==
    \A n \in Nodes : newest[n] <= Retention =>
        /\ \E r \in rows : r.node = n /\ r.age = newest[n]
        /\ \A r \in rows : IsLatest(n, r) => r.age = newest[n]

\* A node never goes back in time before the administrator's eyes: what he would
\* get now is at least as new as what he was shown, until that is too old.
NeverBack ==
    \A n \in Nodes : shown[n] <= Retention =>
        /\ \E r \in rows : r.node = n
        /\ \A r \in rows : IsLatest(n, r) => r.age <= shown[n]

\* A row that is older than the retention is removed in the end, also when it was
\* old already when it came and when purges failed; only the end of the process
\* puts it off.
ExpiredIsPurged ==
    \A i \in 1 .. MaxRows :
        (server = "serving" /\ \E r \in rows : r.id = i /\ r.age > Retention)
            ~> (server = "down" \/ \A r \in rows : r.id # i)
=============================================================================
