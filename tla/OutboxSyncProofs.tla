-------------------------- MODULE OutboxSyncProofs --------------------------
(***************************************************************************)
(* Proofs about OutboxSync, for every number of snapshots and connections. *)
(*                                                                         *)
(* The inductive invariant says where the oldest row of the outbox stands: *)
(* whatever is on its way, in either direction, and whatever the server    *)
(* has dealt with, belongs to no later snapshot than that row.  An ACK can *)
(* then only erase the oldest row, and only after it was dealt with.       *)
(*                                                                         *)
(* For the number of rows a snapshot can get, CopiesInv counts what is     *)
(* stored together with what lines and ACKs on their way can still become: *)
(* every step but a new snapshot and a garbled ACK maps the copies after   *)
(* it one to one into the copies before it.                                *)
(***************************************************************************)
EXTENDS OutboxSync, SequenceTheorems, FiniteSetTheorems, FunctionTheorems,
        WellFoundedInduction, TLAPS

-----------------------------------------------------------------------------
(* The inductive invariant.                                                *)

\* Snapshot k is not after any snapshot still waiting in the table box.
NotAfter(k, box) == \A o \in box : k <= o.id

\* The rows of the table box are numbered as the first n snapshots are.
Numbered(box, n) == \A r \in box : r.id = r.snap /\ r.snap \in 1 .. n

\* Every row of a sequence is the oldest one of the table box.
AreOldest(rows, box) ==
    \A i \in 1 .. Len(rows) : rows[i] \in box /\ NotAfter(rows[i].id, box)

\* A line on its way to the server is of one of the first n snapshots, and of
\* none that is after a snapshot still waiting in the table box.
GoodLine(r, box, n) == r.id = r.snap /\ r.snap \in 1 .. n /\ NotAfter(r.id, box)

GoodLines(lines, box, n) ==
    \A c \in Connections : \A i \in 1 .. Len(lines[c]) : GoodLine(lines[c][i], box, n)

\* The lines of one connection are in the order of collection.
Ordered(lines) ==
    \A c \in Connections : \A i, j \in 1 .. Len(lines[c]) :
        i <= j => lines[c][i].snap <= lines[c][j].snap

\* No id was given twice: the outbox and the snapshots are numbered alike.
RowsNumbered == lastId = collected /\ Numbered(outbox, collected)

WireInv == GoodLines(toServer, outbox, collected)

OrderInv == Ordered(toServer)

\* An ACK on its way to the client is of a snapshot the server dealt with.
AckInv ==
    \A i \in 1 .. Len(toClient) :
        /\ toClient[i] \in 1 .. collected
        /\ Settled(toClient[i])
        /\ NotAfter(toClient[i], outbox)

\* The server dealt with no snapshot that is after one still waiting.
SettledInv ==
    \A s \in Snapshots : Settled(s) => s \in 1 .. collected /\ NotAfter(s, outbox)

\* No collected snapshot has vanished.
HeldInv == \A s \in 1 .. collected : Settled(s) \/ \E r \in outbox : r.snap = s

IInv ==
    /\ TypeOK
    /\ RowsNumbered
    /\ WireInv
    /\ AckInv
    /\ SettledInv
    /\ HeldInv
    /\ OrderInv

-----------------------------------------------------------------------------
(* The outbox table.                                                       *)

\* SELECT ... ORDER BY id ASC LIMIT 1 finds a row when there is one, and no
\* row of the table has a smaller id (LocalMetricsStore::peekOldest).
LEMMA PeekOldestIsOldest ==
    ASSUME NEW box \in SUBSET Row, box # {}
    PROVE  /\ PeekOldest(box) \in box
           /\ \A o \in box : PeekOldest(box).id <= o.id
<1> DEFINE ids == {r.id : r \in box}
<1>1. ids \subseteq Nat /\ ids # {}
  BY DEF Row
<1>2. PICK x \in ids : \A y \in ids : ~(<<y, x>> \in OpToRel(<, Nat))
  BY <1>1, NatLessThanWellFounded, WFMin
<1>3. ASSUME NEW y \in ids PROVE x <= y
  <2>1. x \in Nat /\ y \in Nat
    BY <1>1
  <2>2. ~(<<y, x>> \in {ss \in Nat \X Nat : ss[1] < ss[2]})
    BY <1>2 DEF OpToRel
  <2>3. ~(y < x)
    BY <2>1, <2>2
  <2> QED
    BY <2>1, <2>3
<1>4. PICK r \in box : r.id = x
  OBVIOUS
<1>5. \E p \in box : \A o \in box : p.id <= o.id
  BY <1>3, <1>4
<1> QED
  BY <1>5 DEF PeekOldest

\* flushOutbox writes the oldest row of the table, or nothing when it is empty.
LEMMA FlushWritesOldest ==
    ASSUME NEW box \in SUBSET Row
    PROVE  /\ FlushOutbox(box) \in Seq(Row)
           /\ AreOldest(FlushOutbox(box), box)
           /\ box # {} => FlushOutbox(box) # << >>
<1>1. CASE box = {}
  BY <1>1 DEF FlushOutbox, AreOldest
<1>2. CASE box # {}
  <2>1. PeekOldest(box) \in box /\ \A o \in box : PeekOldest(box).id <= o.id
    BY <1>2, PeekOldestIsOldest
  <2> QED
    BY <1>2, <2>1 DEF FlushOutbox, NotAfter, AreOldest
<1> QED
  BY <1>1, <1>2

\* Both runs of the slot onAckReceived leave the same table, and what they
\* write is the oldest row of it.
LEMMA AckReceivedProperties ==
    ASSUME outbox \in SUBSET Row, NEW id \in Nat
    PROVE  LET left == IF id > 0 THEN Erase(id, outbox) ELSE outbox
               s == AckReceived(id)
           IN  /\ s.box = left
               /\ s.sent \in Seq(Row)
               /\ AreOldest(s.sent, left)
               /\ left # {} => s.sent # << >>
<1> DEFINE left == IF id > 0 THEN Erase(id, outbox) ELSE outbox
           f == FlushOutbox(left)
<1>1. left \in SUBSET Row /\ Erase(id, left) = Erase(id, outbox)
  BY DEF Erase
<1>2. AckReceived(id) = [box |-> left, sent |-> (<< >> \o f) \o f]
  BY <1>1 DEF AckReceived, OnAckReceived, Erase
<1>3. /\ f \in Seq(Row)
      /\ AreOldest(f, left)
      /\ left # {} => f # << >>
  BY <1>1, FlushWritesOldest
<1> HIDE DEF f, left
<1>4. << >> \o f = f
  BY <1>3, ConcatEmptySeq
<1>5. /\ f \o f \in Seq(Row)
      /\ Len(f \o f) = Len(f) + Len(f)
      /\ \A i \in 1 .. Len(f) + Len(f) : (f \o f)[i] = IF i <= Len(f) THEN f[i] ELSE f[i - Len(f)]
  BY <1>3, ConcatProperties
<1>6. f # << >> => f \o f # << >>
  BY <1>3, ConcatEqualIffEmpty
<1>7. AreOldest(f \o f, left)
  <2> SUFFICES ASSUME NEW i \in 1 .. Len(f \o f)
               PROVE  \E j \in 1 .. Len(f) : (f \o f)[i] = f[j]
    BY <1>3 DEF AreOldest
  <2>1. Len(f) \in Nat
    BY <1>3
  <2>2. CASE i <= Len(f)
    BY <1>5, <2>1, <2>2
  <2>3. CASE ~(i <= Len(f))
    BY <1>5, <2>1, <2>3
  <2> QED
    BY <2>2, <2>3
<1> QED
  BY <1>2, <1>3, <1>4, <1>5, <1>6, <1>7 DEF left

\* A break leaves lines that were there, in the same places.
LEMMA PrefixProperties ==
    ASSUME NEW S, NEW q \in Seq(S), NEW p \in Prefixes(q)
    PROVE  /\ p \in Seq(S)
           /\ Len(p) <= Len(q)
           /\ \A i \in 1 .. Len(p) : p[i] = q[i]
<1>1. PICK n \in 0 .. Len(q) : p = SubSeq(q, 1, n)
  BY DEF Prefixes
<1>2. Len(q) \in Nat /\ \A i \in 1 .. Len(q) : q[i] \in S
  BY ElementOfSeq, LenProperties
<1>3. \A i \in 1 .. n : q[i] \in S
  BY <1>2
<1>4. /\ SubSeq(q, 1, n) \in Seq(S)
      /\ Len(SubSeq(q, 1, n)) = IF 1 <= n THEN n - 1 + 1 ELSE 0
      /\ \A i \in 1 .. n - 1 + 1 : SubSeq(q, 1, n)[i] = q[1 + i - 1]
  BY <1>2, <1>3, SubSeqProperties
<1> QED
  BY <1>1, <1>2, <1>4

-----------------------------------------------------------------------------
(* Writing to the socket keeps the lines of every connection good.         *)

\* Rows written to the newest connection join its lines in order, when each of
\* them is the oldest row of the table that is left.
LEMMA SentProperties ==
    ASSUME TypeOK, NEW box \in SUBSET Row, NEW n \in Nat, NEW rows \in Seq(Row),
           Numbered(box, n), AreOldest(rows, box), GoodLines(toServer, box, n),
           Ordered(toServer)
    PROVE  /\ Sent(rows) \in [Connections -> Seq(Row)]
           /\ GoodLines(Sent(rows), box, n)
           /\ Ordered(Sent(rows))
<1>1. CASE ~(socket = "connected" /\ peer)
  <2>1. Sent(rows) = toServer
    BY <1>1 DEF Sent
  <2> QED
    BY <2>1 DEF TypeOK
<1>2. CASE socket = "connected" /\ peer
  <2> DEFINE q == toServer[conn] \o rows
  <2>1. conn \in Connections /\ toServer[conn] \in Seq(Row)
    BY <1>2, ConnectionsAssumption DEF TypeOK, Connections
  <2>2. Sent(rows) = [toServer EXCEPT ![conn] = q]
    BY <1>2 DEF Sent
  <2>3. /\ q \in Seq(Row)
        /\ Len(q) = Len(toServer[conn]) + Len(rows)
        /\ \A i \in 1 .. Len(toServer[conn]) + Len(rows) :
              q[i] = IF i <= Len(toServer[conn]) THEN toServer[conn][i]
                     ELSE rows[i - Len(toServer[conn])]
    BY <2>1, ConcatProperties
  <2>4. Len(rows) \in Nat /\ Len(toServer[conn]) \in Nat
    BY <2>1
  <2> HIDE DEF q
  <2>5. ASSUME NEW i \in 1 .. Len(q)
        PROVE  \/ i <= Len(toServer[conn]) /\ q[i] = toServer[conn][i]
               \/ i > Len(toServer[conn]) /\ \E k \in 1 .. Len(rows) : q[i] = rows[k]
    <3>1. CASE i <= Len(toServer[conn])
      BY <2>3, <2>4, <3>1
    <3>2. CASE i > Len(toServer[conn])
      <4>1. i - Len(toServer[conn]) \in 1 .. Len(rows)
        BY <2>3, <2>4, <3>2
      <4>2. q[i] = rows[i - Len(toServer[conn])]
        BY <2>3, <2>4, <3>2
      <4> QED
        BY <3>2, <4>1, <4>2
    <3> QED
      BY <2>3, <2>4, <3>1, <3>2
  <2>6. ASSUME NEW i \in 1 .. Len(q)
        PROVE  GoodLine(q[i], box, n)
    <3>1. CASE i <= Len(toServer[conn]) /\ q[i] = toServer[conn][i]
      <4>1. i \in 1 .. Len(toServer[conn])
        BY <2>3, <2>4, <3>1
      <4> QED
        BY <2>1, <3>1, <4>1 DEF GoodLines
    <3>2. CASE \E k \in 1 .. Len(rows) : q[i] = rows[k]
      <4>1. q[i] \in box /\ NotAfter(q[i].id, box)
        BY <3>2 DEF AreOldest
      <4> QED
        BY <4>1 DEF GoodLine, Numbered
    <3> QED
      BY <2>5, <3>1, <3>2
  <2>7. ASSUME NEW i \in 1 .. Len(q), NEW j \in 1 .. Len(q), i <= j
        PROVE  q[i].snap <= q[j].snap
    <3>1. CASE j <= Len(toServer[conn])
      <4>1. i \in 1 .. Len(toServer[conn]) /\ j \in 1 .. Len(toServer[conn])
        BY <2>3, <2>4, <2>7, <3>1
      <4>2. q[i] = toServer[conn][i] /\ q[j] = toServer[conn][j]
        BY <2>4, <2>5, <2>7, <3>1, <4>1
      <4> QED
        BY <2>1, <2>7, <4>1, <4>2 DEF Ordered
    <3>2. CASE j > Len(toServer[conn])
      <4>1. q[j] \in box
        BY <3>2, <2>4, <2>5 DEF AreOldest
      <4>2. q[i].id <= q[j].id
        BY <4>1, <2>6 DEF GoodLine, NotAfter
      <4> QED
        BY <4>2, <2>6 DEF GoodLine
    <3> QED
      BY <2>4, <3>1, <3>2
  <2>8. Sent(rows) \in [Connections -> Seq(Row)]
    BY <2>2, <2>3 DEF TypeOK
  <2>9. \A c \in Connections : Sent(rows)[c] = IF c = conn THEN q ELSE toServer[c]
    BY <2>1, <2>2 DEF TypeOK
  <2>10. ASSUME NEW c \in Connections, NEW i \in 1 .. Len(Sent(rows)[c])
         PROVE  GoodLine(Sent(rows)[c][i], box, n)
    BY <2>6, <2>9, <2>10 DEF GoodLines
  <2>11. ASSUME NEW c \in Connections, NEW i \in 1 .. Len(Sent(rows)[c]),
                NEW j \in 1 .. Len(Sent(rows)[c]), i <= j
         PROVE  Sent(rows)[c][i].snap <= Sent(rows)[c][j].snap
    <3>1. CASE c = conn
      BY <2>7, <2>9, <2>11, <3>1
    <3>2. CASE c # conn
      BY <2>9, <2>11, <3>2 DEF Ordered
    <3> QED
      BY <3>1, <3>2
  <2> QED
    BY <2>8, <2>10, <2>11 DEF GoodLines, Ordered
<1> QED
  BY <1>1, <1>2

\* What a break leaves are lines that were there, in the same places.
LEMMA AfterBreakProperties ==
    ASSUME TypeOK, NEW after \in AfterBreak
    PROVE  /\ after \in [Connections -> Seq(Row)]
           /\ \A c \in Connections :
                 /\ Len(after[c]) <= Len(toServer[c])
                 /\ \A i \in 1 .. Len(after[c]) : after[c][i] = toServer[c][i]
<1>0. \A c \in Connections : Len(toServer[c]) \in Nat
  BY DEF TypeOK
<1>1. CASE socket = "unconnected"
  BY <1>0, <1>1 DEF AfterBreak, TypeOK
<1>2. CASE socket # "unconnected"
  <2>1. PICK p \in Prefixes(toServer[conn]) : after = [toServer EXCEPT ![conn] = p]
    BY <1>2 DEF AfterBreak
  <2>2. conn \in Connections /\ toServer[conn] \in Seq(Row)
    BY <1>2, ConnectionsAssumption DEF TypeOK, Connections
  <2>3. /\ p \in Seq(Row)
        /\ Len(p) <= Len(toServer[conn])
        /\ \A i \in 1 .. Len(p) : p[i] = toServer[conn][i]
    BY <2>2, PrefixProperties
  <2> QED
    BY <1>0, <2>1, <2>2, <2>3 DEF TypeOK
<1> QED
  BY <1>1, <1>2

-----------------------------------------------------------------------------
(* The initial state and the steps.                                        *)

LEMMA InitEstablishes == Init => IInv
<1> SUFFICES ASSUME Init PROVE IInv
  OBVIOUS
<1>0. << >> \in Seq(Row) /\ << >> \in Seq(Nat) /\ Len(<< >>) = 0
  OBVIOUS
<1>1. TypeOK
  <2>1. collected \in 0 .. MaxSnapshots /\ lastId \in Nat /\ conn \in 0 .. MaxConnections
    BY SnapshotsAssumption, ConnectionsAssumption DEF Init
  <2>2. metrics \in [Snapshots -> Nat] /\ toServer \in [Connections -> Seq(Row)]
    BY <1>0 DEF Init
  <2> QED
    BY <1>0, <2>1, <2>2 DEF TypeOK, Init
<1>2. RowsNumbered /\ WireInv /\ AckInv /\ OrderInv
  BY <1>0 DEF Init, RowsNumbered, Numbered, WireInv, GoodLines, AckInv, OrderInv, Ordered
<1>3. SettledInv /\ HeldInv
  BY DEF Init, SettledInv, HeldInv, Settled
<1> QED
  BY <1>1, <1>2, <1>3 DEF IInv

\* A step that leaves the tables alone and only loses lines.
LEMMA LossPreserves ==
    ASSUME IInv, TypeOK', UNCHANGED <<clientVars, serverVars>>,
           \A c \in Connections :
              /\ Len(toServer'[c]) <= Len(toServer[c])
              /\ \A i \in 1 .. Len(toServer'[c]) : toServer'[c][i] = toServer[c][i],
           Len(toClient') <= Len(toClient),
           \A i \in 1 .. Len(toClient') : toClient'[i] = toClient[i]
    PROVE  IInv'
<1> USE DEF IInv, clientVars, serverVars
<1>0. /\ \A c \in Connections : Len(toServer[c]) \in Nat /\ Len(toServer'[c]) \in Nat
      /\ Len(toClient) \in Nat /\ Len(toClient') \in Nat
  BY DEF TypeOK
<1>1. RowsNumbered'
  BY DEF RowsNumbered, Numbered
<1>2. WireInv'
  BY <1>0 DEF WireInv, GoodLines, GoodLine, NotAfter
<1>3. AckInv'
  BY <1>0 DEF AckInv, Settled, NotAfter
<1>4. SettledInv' /\ HeldInv'
  BY DEF SettledInv, HeldInv, Settled, NotAfter
<1>5. OrderInv'
  <2> SUFFICES ASSUME NEW c \in Connections, NEW i \in 1 .. Len(toServer'[c]),
                      NEW j \in 1 .. Len(toServer'[c]), i <= j
               PROVE  toServer'[c][i].snap <= toServer'[c][j].snap
    BY DEF OrderInv, Ordered
  <2>1. i \in 1 .. Len(toServer[c]) /\ j \in 1 .. Len(toServer[c])
    BY <1>0
  <2>2. toServer[c][i].snap <= toServer[c][j].snap
    BY <2>1 DEF OrderInv, Ordered
  <2> QED
    BY <2>2
<1> QED
  BY <1>1, <1>2, <1>3, <1>4, <1>5

LEMMA OnSnapshotPreserves ==
    ASSUME IInv, OnSnapshotFromWorker
    PROVE  IInv'
<1>0. TypeOK /\ RowsNumbered /\ WireInv /\ AckInv /\ SettledInv /\ HeldInv /\ OrderInv
  BY DEF IInv
<1> DEFINE n == collected + 1
           new == [id |-> n, snap |-> n]
<1>1. /\ collected \in Nat /\ n \in Snapshots /\ lastId = collected
      /\ collected' = n /\ lastId' = n
      /\ outbox' = outbox \cup {new}
      /\ toServer' = Sent(FlushOutbox(outbox'))
      /\ toClient' = toClient /\ metrics' = metrics /\ refused' = refused
  BY <1>0, SnapshotsAssumption
     DEF OnSnapshotFromWorker, TypeOK, RowsNumbered, NextRowId, Snapshots, serverVars
<1>2. outbox' \in SUBSET Row
  <2>1. new \in Row
    BY <1>1 DEF Row, Snapshots
  <2> QED
    BY <1>0, <1>1, <2>1 DEF TypeOK
<1>3. Numbered(outbox', n)
  BY <1>0, <1>1 DEF RowsNumbered, Numbered
<1>4. \A k \in 1 .. collected : NotAfter(k, outbox) => NotAfter(k, outbox')
  BY <1>1 DEF NotAfter
<1>5. /\ FlushOutbox(outbox') \in Seq(Row)
      /\ AreOldest(FlushOutbox(outbox'), outbox')
  BY <1>2, FlushWritesOldest
<1>6. GoodLines(toServer, outbox', n)
  <2>1. \A r : GoodLine(r, outbox, collected) => GoodLine(r, outbox', n)
    BY <1>1, <1>4 DEF GoodLine
  <2> QED
    BY <1>0, <2>1 DEF WireInv, GoodLines
<1>7. n \in Nat /\ new \in outbox' /\ new.snap = n
  BY <1>1
<1> HIDE DEF n, new
<1>8. /\ toServer' \in [Connections -> Seq(Row)]
      /\ GoodLines(toServer', outbox', n)
      /\ Ordered(toServer')
  BY <1>0, <1>1, <1>2, <1>3, <1>5, <1>6, <1>7, SentProperties DEF OrderInv
<1>9. TypeOK'
  <2>1. collected' \in 0 .. MaxSnapshots /\ lastId' \in Nat
    BY <1>1 DEF Snapshots
  <2>2. UNCHANGED linkVars
    BY DEF OnSnapshotFromWorker
  <2> QED
    BY <1>0, <1>1, <1>2, <1>8, <2>1, <2>2 DEF TypeOK, linkVars
<1>10. RowsNumbered'
  BY <1>1, <1>3 DEF RowsNumbered
<1>11. WireInv'
  BY <1>1, <1>8 DEF WireInv
<1>12. \A k \in 1 .. collected : k \in 1 .. n
  BY <1>1 DEF n
<1>13. AckInv'
  BY <1>0, <1>1, <1>4, <1>12 DEF AckInv, Settled
<1>14. SettledInv'
  BY <1>0, <1>1, <1>4, <1>12 DEF SettledInv, Settled
<1>15. HeldInv'
  <2> SUFFICES ASSUME NEW s \in 1 .. n, ~Settled(s)
               PROVE  \E r \in outbox' : r.snap = s
    BY <1>1 DEF HeldInv, Settled
  <2>1. CASE s = n
    BY <1>7, <2>1
  <2>2. CASE s \in 1 .. collected
    <3>1. PICK r \in outbox : r.snap = s
      BY <1>0, <2>2 DEF HeldInv
    <3> QED
      BY <1>1, <3>1
  <2> QED
    BY <1>1, <2>1, <2>2 DEF n
<1>16. OrderInv'
  BY <1>8 DEF OrderInv
<1> QED
  BY <1>9, <1>10, <1>11, <1>13, <1>14, <1>15, <1>16 DEF IInv

\* The slot onAckReceived runs for an ACK whose row the server dealt with, or
\* for localId 0.
LEMMA AckPreserves ==
    ASSUME IInv, NEW id \in Nat, id > 0 => id \in 1 .. collected /\ Settled(id),
           outbox' = AckReceived(id).box,
           toServer' = Sent(AckReceived(id).sent),
           UNCHANGED <<lastId, collected, metrics, refused>>,
           toClient' \in Seq(Nat),
           \A i \in 1 .. Len(toClient') : \E j \in 1 .. Len(toClient) : toClient'[i] = toClient[j]
    PROVE  /\ outbox' \in SUBSET Row
           /\ toServer' \in [Connections -> Seq(Row)]
           /\ RowsNumbered' /\ WireInv' /\ AckInv' /\ SettledInv' /\ HeldInv' /\ OrderInv'
<1>0. TypeOK /\ RowsNumbered /\ WireInv /\ AckInv /\ SettledInv /\ HeldInv /\ OrderInv
  BY DEF IInv
<1> DEFINE left == IF id > 0 THEN Erase(id, outbox) ELSE outbox
           rows == AckReceived(id).sent
<1>1. /\ outbox' = left /\ left \in SUBSET outbox /\ outbox \in SUBSET Row
      /\ collected \in Nat
      /\ \A r \in outbox : r \in left \/ (id > 0 /\ r.id = id)
  <2>1. outbox \in SUBSET Row /\ collected \in Nat
    BY <1>0, SnapshotsAssumption DEF TypeOK
  <2>2. outbox' = left
    BY <2>1, AckReceivedProperties
  <2>3. left \in SUBSET outbox /\ \A r \in outbox : r \in left \/ (id > 0 /\ r.id = id)
    BY DEF Erase
  <2> QED
    BY <2>1, <2>2, <2>3
<1>2. /\ rows \in Seq(Row)
      /\ AreOldest(rows, left)
  BY <1>1, AckReceivedProperties
<1> HIDE DEF left, rows
<1>3. \A k : NotAfter(k, outbox) => NotAfter(k, left)
  BY <1>1 DEF NotAfter
<1>4. Numbered(left, collected)
  BY <1>0, <1>1 DEF RowsNumbered, Numbered
<1>5. GoodLines(toServer, left, collected)
  BY <1>0, <1>3 DEF WireInv, GoodLines, GoodLine
<1>6. /\ toServer' \in [Connections -> Seq(Row)]
      /\ GoodLines(toServer', left, collected)
      /\ Ordered(toServer')
  <2>1. left \in SUBSET Row /\ toServer' = Sent(rows)
    BY <1>1 DEF rows
  <2> QED
    BY <1>0, <1>1, <1>2, <1>4, <1>5, <2>1, SentProperties DEF OrderInv
<1>7. RowsNumbered'
  BY <1>0, <1>1, <1>4 DEF RowsNumbered
<1>8. WireInv'
  BY <1>1, <1>6 DEF WireInv
<1>9. AckInv'
  BY <1>0, <1>1, <1>3 DEF AckInv, Settled
<1>10. SettledInv'
  BY <1>0, <1>1, <1>3 DEF SettledInv, Settled
<1>11. HeldInv'
  <2> SUFFICES ASSUME NEW s \in 1 .. collected, ~Settled(s)
               PROVE  \E r \in left : r.snap = s
    BY <1>1 DEF HeldInv, Settled
  <2>1. PICK r \in outbox : r.snap = s
    BY <1>0 DEF HeldInv
  <2>2. r.id = s
    BY <1>0, <2>1 DEF RowsNumbered, Numbered
  <2> QED
    BY <1>1, <2>1, <2>2
<1>12. OrderInv'
  BY <1>6 DEF OrderInv
<1> QED
  BY <1>1, <1>6, <1>7, <1>8, <1>9, <1>10, <1>11, <1>12

LEMMA ReadAckPreserves ==
    ASSUME IInv, ReadAck
    PROVE  IInv'
<1>0. TypeOK /\ AckInv
  BY DEF IInv
<1> DEFINE id == Head(toClient)
<1>1. /\ toClient \in Seq(Nat) /\ toClient # << >> /\ toClient' = Tail(toClient)
      /\ outbox' = AckReceived(id).box /\ toServer' = Sent(AckReceived(id).sent)
      /\ UNCHANGED <<lastId, collected, metrics, refused>>
      /\ UNCHANGED linkVars /\ socket # "unconnected"
  BY <1>0 DEF ReadAck, TypeOK, serverVars
<1>2. /\ id \in Nat /\ id = toClient[1] /\ 1 \in 1 .. Len(toClient)
      /\ toClient' \in Seq(Nat)
      /\ \A i \in 1 .. Len(toClient') :
             i + 1 \in 1 .. Len(toClient) /\ toClient'[i] = toClient[i + 1]
  <2>1. /\ Head(toClient) \in Nat /\ Tail(toClient) \in Seq(Nat)
        /\ Len(Tail(toClient)) = Len(toClient) - 1
        /\ \A i \in 1 .. Len(Tail(toClient)) : Tail(toClient)[i] = toClient[i + 1]
    BY <1>1, HeadTailProperties
  <2>2. Len(toClient) \in Nat \ {0} /\ Head(toClient) = toClient[1]
    BY <1>1, EmptySeq
  <2> QED
    BY <1>1, <2>1, <2>2
<1>3. id \in 1 .. collected /\ Settled(id)
  BY <1>0, <1>2 DEF AckInv
<1> HIDE DEF id
<1>4. /\ outbox' \in SUBSET Row
      /\ toServer' \in [Connections -> Seq(Row)]
      /\ RowsNumbered' /\ WireInv' /\ AckInv' /\ SettledInv' /\ HeldInv' /\ OrderInv'
  BY <1>1, <1>2, <1>3, AckPreserves
<1>5. TypeOK'
  BY <1>0, <1>1, <1>2, <1>4 DEF TypeOK, linkVars
<1> QED
  BY <1>4, <1>5 DEF IInv

LEMMA ReadGarbledPreserves ==
    ASSUME IInv, ReadGarbledLine
    PROVE  IInv'
<1>0. TypeOK
  BY DEF IInv
<1>1. /\ UNCHANGED <<lastId, collected, metrics, refused, worker, socket, conn, peer>>
      /\ fragment' = FALSE /\ socket # "unconnected"
  BY DEF ReadGarbledLine, serverVars
<1>2. /\ toClient' \in Seq(Nat)
      /\ Len(toClient') <= Len(toClient)
      /\ \A i \in 1 .. Len(toClient') : \E j \in 1 .. Len(toClient) : toClient'[i] = toClient[j]
  <2>0. toClient \in Seq(Nat) /\ Len(toClient) \in Nat
    BY <1>0 DEF TypeOK
  <2>1. CASE toClient # << >> /\ toClient' = Tail(toClient)
    <3>1. /\ Tail(toClient) \in Seq(Nat)
          /\ Len(Tail(toClient)) = Len(toClient) - 1
          /\ \A i \in 1 .. Len(Tail(toClient)) : Tail(toClient)[i] = toClient[i + 1]
      BY <2>0, <2>1, HeadTailProperties
    <3>2. \A i \in 1 .. Len(toClient') :
              i + 1 \in 1 .. Len(toClient) /\ toClient'[i] = toClient[i + 1]
      BY <2>0, <2>1, <3>1
    <3> QED
      BY <2>0, <2>1, <3>1, <3>2
  <2>2. CASE UNCHANGED toClient
    BY <2>0, <2>2
  <2> QED
    BY <2>1, <2>2 DEF ReadGarbledLine
<1>3. CASE outbox' = AckReceived(0).box /\ toServer' = Sent(AckReceived(0).sent)
  <2>1. /\ outbox' \in SUBSET Row
        /\ toServer' \in [Connections -> Seq(Row)]
        /\ RowsNumbered' /\ WireInv' /\ AckInv' /\ SettledInv' /\ HeldInv' /\ OrderInv'
    BY <1>1, <1>2, <1>3, AckPreserves
  <2>2. TypeOK'
    BY <1>0, <1>1, <1>2, <2>1 DEF TypeOK
  <2> QED
    BY <2>1, <2>2 DEF IInv
<1>4. CASE UNCHANGED <<outbox, toServer>>
  <2>1. RowsNumbered' /\ WireInv' /\ SettledInv' /\ HeldInv' /\ OrderInv'
    BY <1>1, <1>4 DEF IInv, RowsNumbered, WireInv, GoodLines, GoodLine, NotAfter,
                      SettledInv, Settled, HeldInv, OrderInv, Ordered
  <2>2. AckInv'
    BY <1>1, <1>2, <1>4 DEF IInv, AckInv, Settled, NotAfter
  <2>3. TypeOK'
    BY <1>0, <1>1, <1>2, <1>4 DEF TypeOK
  <2> QED
    BY <2>1, <2>2, <2>3 DEF IInv
<1> QED
  BY <1>3, <1>4 DEF ReadGarbledLine

\* Handling a line takes it off its connection, settles its snapshot and, when
\* the connection is still there, sends its ACK.
LEMMA HandleMetricsPreserves ==
    ASSUME IInv, NEW c \in Connections, HandleMetrics(c)
    PROVE  IInv'
<1>0. TypeOK /\ RowsNumbered /\ WireInv /\ AckInv /\ SettledInv /\ HeldInv /\ OrderInv
  BY DEF IInv
<1> DEFINE q == toServer[c]
           row == Head(q)
<1>1. /\ q \in Seq(Row) /\ q # << >>
      /\ toServer' = [toServer EXCEPT ![c] = Tail(q)]
      /\ UNCHANGED clientVars /\ UNCHANGED linkVars
  BY <1>0 DEF HandleMetrics, TypeOK
<1>2. /\ row = q[1] /\ Len(q) \in Nat /\ 1 \in 1 .. Len(q)
      /\ Tail(q) \in Seq(Row) /\ Len(Tail(q)) = Len(q) - 1
      /\ \A i \in 1 .. Len(Tail(q)) : Tail(q)[i] = q[i + 1]
  <2> HIDE DEF q
  <2>1. Len(q) \in Nat \ {0}
    BY <1>1, EmptySeq
  <2> QED
    BY <1>1, <2>1, HeadTailProperties
<1>3. GoodLine(row, outbox, collected) /\ row \in Row
  BY <1>0, <1>1, <1>2, ElementOfSeq DEF WireInv, GoodLines
<1>4. /\ row.id = row.snap /\ row.snap \in 1 .. collected /\ row.snap \in Snapshots
      /\ NotAfter(row.snap, outbox)
  BY <1>3 DEF GoodLine, Row
<1>5. /\ \/ metrics' = [metrics EXCEPT ![row.snap] = @ + 1] /\ refused' = refused
         \/ refused' = refused \cup {row.snap} /\ metrics' = metrics
      /\ toClient' = toClient \/ (toClient' = Append(toClient, row.id) /\ peer)
  BY DEF HandleMetrics
<1> HIDE DEF q, row
<1> DEFINE SettledNow(s) == metrics'[s] > 0 \/ s \in refused'
<1>6. /\ metrics' \in [Snapshots -> Nat] /\ refused' \in SUBSET Snapshots
      /\ \A s \in Snapshots : Settled(s) \/ s = row.snap => SettledNow(s)
      /\ \A s \in Snapshots : SettledNow(s) => Settled(s) \/ s = row.snap
  <2>0. metrics \in [Snapshots -> Nat] /\ refused \in SUBSET Snapshots
    BY <1>0 DEF TypeOK
  <2>1. CASE metrics' = [metrics EXCEPT ![row.snap] = @ + 1] /\ refused' = refused
    <3>1. metrics[row.snap] + 1 \in Nat /\ metrics[row.snap] + 1 > 0
      BY <1>4, <2>0
    <3> QED
      BY <1>4, <2>0, <2>1, <3>1 DEF Settled
  <2>2. CASE refused' = refused \cup {row.snap} /\ metrics' = metrics
    BY <1>4, <2>0, <2>2 DEF Settled
  <2> QED
    BY <1>5, <2>1, <2>2
<1>7. /\ toServer' \in [Connections -> Seq(Row)]
      /\ \A d \in Connections : toServer'[d] = IF d = c THEN Tail(q) ELSE toServer[d]
  BY <1>0, <1>1, <1>2 DEF TypeOK, q
<1>8. row.id \in Nat /\ toClient \in Seq(Nat) /\ collected \in 0 .. MaxSnapshots
  BY <1>0, <1>4 DEF TypeOK
<1>9. /\ toClient' \in Seq(Nat)
      /\ \A i \in 1 .. Len(toClient') :
            toClient'[i] = row.id \/ (i \in 1 .. Len(toClient) /\ toClient'[i] = toClient[i])
  <2>1. CASE toClient' = toClient
    BY <1>8, <2>1
  <2>2. CASE toClient' = Append(toClient, row.id)
    BY <1>8, <2>2, AppendProperties
  <2> QED
    BY <1>5, <2>1, <2>2
<1>10. TypeOK'
  <2>1. socket' = "unconnected" => toClient' = << >>
    BY <1>0, <1>1, <1>5 DEF TypeOK, linkVars
  <2> QED
    BY <1>0, <1>1, <1>6, <1>7, <1>9, <2>1 DEF TypeOK, linkVars, clientVars
<1>11. RowsNumbered'
  BY <1>0, <1>1 DEF RowsNumbered, Numbered, clientVars
<1>12. \A s \in 1 .. collected : s \in Snapshots
  BY <1>8, SnapshotsAssumption DEF Snapshots
<1>13. WireInv'
  <2> SUFFICES ASSUME NEW d \in Connections, NEW i \in 1 .. Len(toServer'[d])
               PROVE  GoodLine(toServer'[d][i], outbox, collected)
    BY <1>1 DEF WireInv, GoodLines, GoodLine, NotAfter, clientVars
  <2>1. CASE d = c
    <3>0. toServer'[d] = Tail(q)
      BY <1>7, <2>1
    <3>1. i + 1 \in 1 .. Len(q) /\ toServer'[d][i] = q[i + 1]
      BY <1>2, <3>0
    <3> QED
      BY <1>0, <3>1 DEF WireInv, GoodLines, q
  <2>2. CASE d # c
    BY <1>0, <1>7, <2>2 DEF WireInv, GoodLines
  <2> QED
    BY <2>1, <2>2
<1>14. AckInv'
  <2> SUFFICES ASSUME NEW i \in 1 .. Len(toClient')
               PROVE  /\ toClient'[i] \in 1 .. collected
                      /\ SettledNow(toClient'[i])
                      /\ NotAfter(toClient'[i], outbox)
    BY <1>1 DEF AckInv, NotAfter, clientVars, Settled
  <2>1. CASE toClient'[i] = row.id
    BY <1>4, <1>6, <2>1
  <2>2. CASE i \in 1 .. Len(toClient) /\ toClient'[i] = toClient[i]
    <3>1. toClient[i] \in 1 .. collected /\ Settled(toClient[i]) /\ NotAfter(toClient[i], outbox)
      BY <1>0, <2>2 DEF AckInv
    <3> QED
      BY <1>6, <1>12, <2>2, <3>1
  <2> QED
    BY <1>9, <2>1, <2>2
<1>15. SettledInv'
  BY <1>0, <1>1, <1>4, <1>6 DEF SettledInv, Settled, NotAfter, clientVars
<1>16. HeldInv'
  BY <1>0, <1>1, <1>6, <1>12 DEF HeldInv, Settled, clientVars
<1>17. OrderInv'
  <2> SUFFICES ASSUME NEW d \in Connections, NEW i \in 1 .. Len(toServer'[d]),
                      NEW j \in 1 .. Len(toServer'[d]), i <= j
               PROVE  toServer'[d][i].snap <= toServer'[d][j].snap
    BY DEF OrderInv, Ordered
  <2>1. CASE d = c
    <3>1. /\ i + 1 \in 1 .. Len(q) /\ toServer'[d][i] = q[i + 1]
          /\ j + 1 \in 1 .. Len(q) /\ toServer'[d][j] = q[j + 1]
          /\ i + 1 <= j + 1
      <4>1. toServer'[d] = Tail(q)
        BY <1>7, <2>1
      <4>2. /\ i + 1 \in 1 .. Len(q) /\ Tail(q)[i] = q[i + 1]
            /\ j + 1 \in 1 .. Len(q) /\ Tail(q)[j] = q[j + 1]
        BY <1>2, <4>1
      <4> QED
        BY <4>1, <4>2
    <3> QED
      BY <1>0, <3>1 DEF OrderInv, Ordered, q
  <2>2. CASE d # c
    BY <1>0, <1>7, <2>2 DEF OrderInv, Ordered
  <2> QED
    BY <2>1, <2>2
<1> QED
  BY <1>10, <1>11, <1>13, <1>14, <1>15, <1>16, <1>17 DEF IInv

\* The steps of the connections and of the processes change no table, and
\* leave of what was on its way what was there, in the same places.
LEMMA LinkStepsLose ==
    ASSUME TypeOK,
           \/ OnLoginResponse \/ Connect \/ DisconnectFromServer \/ SessionStops
           \/ ServerCrash \/ OnDisconnected \/ ClientRestart
    PROVE  /\ toServer' \in [Connections -> Seq(Row)]
           /\ \A c \in Connections :
                 /\ Len(toServer'[c]) <= Len(toServer[c])
                 /\ \A i \in 1 .. Len(toServer'[c]) : toServer'[c][i] = toServer[c][i]
           /\ toClient' \in Seq(Nat)
           /\ Len(toClient') <= Len(toClient)
           /\ \A i \in 1 .. Len(toClient') : toClient'[i] = toClient[i]
           /\ UNCHANGED clientVars /\ UNCHANGED serverVars
<1> DEFINE Kept(after) ==
             /\ after \in [Connections -> Seq(Row)]
             /\ \A c \in Connections :
                   /\ Len(after[c]) <= Len(toServer[c])
                   /\ \A i \in 1 .. Len(after[c]) : after[c][i] = toServer[c][i]
           AcksKept(acks) ==
             /\ acks \in Seq(Nat)
             /\ Len(acks) <= Len(toClient)
             /\ \A i \in 1 .. Len(acks) : acks[i] = toClient[i]
<1>1. /\ toClient \in Seq(Nat) /\ Len(toClient) \in Nat
      /\ toServer \in [Connections -> Seq(Row)]
      /\ \A c \in Connections : Len(toServer[c]) \in Nat
  BY DEF TypeOK
<1>2. /\ Kept(toServer) /\ Kept([c \in Connections |-> << >>])
      /\ \A after \in AfterBreak : Kept(after)
  <2>1. Kept([c \in Connections |-> << >>])
    BY <1>1
  <2>2. \A after \in AfterBreak : Kept(after)
    BY AfterBreakProperties
  <2> QED
    BY <1>1, <2>1, <2>2
<1>3. /\ AcksKept(toClient) /\ AcksKept(<< >>)
      /\ \A acks \in Prefixes(toClient) : AcksKept(acks)
  <2>1. AcksKept(<< >>)
    BY <1>1
  <2>2. \A acks \in Prefixes(toClient) : AcksKept(acks)
    BY <1>1, PrefixProperties
  <2> QED
    BY <1>1, <2>1, <2>2
<1> HIDE DEF Kept, AcksKept
<1>4. /\ Kept(toServer') /\ AcksKept(toClient')
      /\ UNCHANGED clientVars /\ UNCHANGED serverVars
  BY <1>2, <1>3
     DEF OnLoginResponse, Connect, DisconnectFromServer, SessionStops, ServerCrash,
         OnDisconnected, ClientRestart
<1> QED
  BY <1>4 DEF Kept, AcksKept

\* Connecting, and every way a connection can end, only lose lines.
LEMMA LinkStepsPreserve ==
    ASSUME IInv,
           \/ OnLoginResponse \/ Connect \/ DisconnectFromServer \/ SessionStops
           \/ ServerCrash \/ OnDisconnected \/ ClientRestart
    PROVE  IInv'
<1>0. TypeOK
  BY DEF IInv
<1>1. /\ toServer' \in [Connections -> Seq(Row)]
      /\ \A c \in Connections :
            /\ Len(toServer'[c]) <= Len(toServer[c])
            /\ \A i \in 1 .. Len(toServer'[c]) : toServer'[c][i] = toServer[c][i]
      /\ toClient' \in Seq(Nat)
      /\ Len(toClient') <= Len(toClient)
      /\ \A i \in 1 .. Len(toClient') : toClient'[i] = toClient[i]
      /\ UNCHANGED clientVars /\ UNCHANGED serverVars
  BY <1>0, LinkStepsLose
<1>2. \A acks \in Prefixes(<< >>) : acks = << >>
  <2> SUFFICES ASSUME NEW acks \in Prefixes(<< >>) PROVE acks = << >>
    OBVIOUS
  <2>1. acks \in Seq(Nat) /\ Len(acks) <= 0
    BY PrefixProperties, EmptySeq
  <2> QED
    BY <2>1, EmptySeq
<1>3. /\ socket' \in {"unconnected", "connected", "closing"}
      /\ conn' \in 0 .. MaxConnections
      /\ worker' \in BOOLEAN /\ peer' \in BOOLEAN /\ fragment' \in BOOLEAN
      /\ socket' # "unconnected" => conn' # 0
  <2>1. conn \in 0 .. MaxConnections /\ MaxConnections \in Nat
    BY <1>0, ConnectionsAssumption DEF TypeOK
  <2>2. CASE Connect
    <3>1. conn' \in 0 .. MaxConnections /\ conn' # 0
      BY <2>1, <2>2 DEF Connect
    <3> QED
      BY <1>0, <2>2, <3>1 DEF TypeOK, Connect
  <2>3. CASE OnLoginResponse \/ DisconnectFromServer \/ SessionStops
             \/ ServerCrash \/ OnDisconnected \/ ClientRestart
    BY <1>0, <2>3
       DEF TypeOK, OnLoginResponse, DisconnectFromServer, SessionStops, ServerCrash,
           OnDisconnected, ClientRestart
  <2> QED
    BY <2>2, <2>3
<1>4. /\ peer' => socket' # "unconnected"
      /\ socket' = "unconnected" => toClient' = << >>
  BY <1>0, <1>2
     DEF TypeOK, OnLoginResponse, Connect, DisconnectFromServer, SessionStops, ServerCrash,
         OnDisconnected, ClientRestart
<1>5. TypeOK'
  BY <1>0, <1>1, <1>3, <1>4 DEF TypeOK, clientVars, serverVars
<1> QED
  BY <1>1, <1>5, LossPreserves

LEMMA NextPreserves == IInv /\ [Next]_vars => IInv'
<1> SUFFICES ASSUME IInv, [Next]_vars PROVE IInv'
  OBVIOUS
<1>1. CASE OnSnapshotFromWorker
  BY <1>1, OnSnapshotPreserves
<1>2. CASE ReadAck
  BY <1>2, ReadAckPreserves
<1>3. CASE ReadGarbledLine
  BY <1>3, ReadGarbledPreserves
<1>4. CASE \E c \in Connections : HandleMetrics(c)
  BY <1>4, HandleMetricsPreserves
<1>5. CASE OnLoginResponse \/ Connect \/ DisconnectFromServer \/ SessionStops
           \/ ServerCrash \/ OnDisconnected \/ ClientRestart
  BY <1>5, LinkStepsPreserve
<1>6. CASE UNCHANGED vars
  <2>1. TypeOK'
    BY <1>6 DEF IInv, TypeOK, vars
  <2>2. RowsNumbered' /\ WireInv' /\ SettledInv' /\ HeldInv' /\ OrderInv'
    BY <1>6 DEF IInv, vars, RowsNumbered, WireInv, GoodLines, GoodLine, NotAfter,
                SettledInv, Settled, HeldInv, OrderInv, Ordered
  <2>3. AckInv'
    BY <1>6 DEF IInv, vars, AckInv, Settled, NotAfter
  <2> QED
    BY <2>1, <2>2, <2>3 DEF IInv
<1> QED
  BY <1>1, <1>2, <1>3, <1>4, <1>5, <1>6 DEF Next

-----------------------------------------------------------------------------
(* Theorems.                                                               *)

\* IInv holds in every reachable state.
THEOREM Invariance == Spec => []IInv
  BY InitEstablishes, NextPreserves, PTL DEF Spec

\* The state has its type, and the two ends of a connection go together.
THEOREM TypeCorrect == Spec => []TypeOK
<1>1. IInv => TypeOK
  BY DEF IInv
<1> QED
  BY <1>1, Invariance, PTL

\* No snapshot leaves the outbox before the server dealt with it, whatever is
\* lost, late, repeated or restarted.
THEOREM NothingLost == Spec => []NoSnapshotLost
<1>1. IInv => NoSnapshotLost
  BY DEF IInv, HeldInv, NoSnapshotLost
<1> QED
  BY <1>1, Invariance, PTL

\* The server deals with snapshots in the order of their collection, over any
\* number of connections.
THEOREM OrderKept == Spec => []SettledInOrder
<1>1. IInv => SettledInOrder
  <2> SUFFICES ASSUME IInv, NEW s \in 1 .. collected, Settled(s), NEW t \in 1 .. s, ~Settled(t)
               PROVE  FALSE
    BY DEF SettledInOrder
  <2>1. collected \in 0 .. MaxSnapshots /\ s \in Snapshots /\ t \in 1 .. collected
    BY SnapshotsAssumption DEF IInv, TypeOK, Snapshots
  <2>2. PICK r \in outbox : r.snap = t
    BY <2>1 DEF IInv, HeldInv
  <2>3. r.id = t /\ s <= r.id
    BY <2>1, <2>2 DEF IInv, RowsNumbered, Numbered, SettledInv, NotAfter
  <2>4. s = t
    BY <2>1, <2>3
  <2> QED
    BY <2>4
<1> QED
  BY <1>1, Invariance, PTL

\* The lines of one connection never go back to an earlier snapshot.
THEOREM ConnectionInOrder == Spec => []SentInOrder
<1>1. IInv => SentInOrder
  <2> SUFFICES ASSUME IInv, NEW c \in Connections,
                      NEW i \in DOMAIN toServer[c], NEW j \in DOMAIN toServer[c], i <= j
               PROVE  toServer[c][i].snap <= toServer[c][j].snap
    BY DEF SentInOrder
  <2>1. DOMAIN toServer[c] = 1 .. Len(toServer[c])
    BY DEF IInv, TypeOK
  <2> QED
    BY <2>1 DEF IInv, OrderInv, Ordered
<1> QED
  BY <1>1, Invariance, PTL

-----------------------------------------------------------------------------
(* The exchange on a connection.                                           *)

\* A row written while the connection is up is on its way.
LEMMA SentIsInFlight ==
    ASSUME TypeOK, ConnectionUp, NEW rows \in Seq(Row),
           rows # << >> \/ toServer[conn] # << >>
    PROVE  Sent(rows)[conn] # << >>
<1>1. conn \in Connections /\ toServer[conn] \in Seq(Row) /\ toServer \in [Connections -> Seq(Row)]
  BY ConnectionsAssumption DEF TypeOK, ConnectionUp, Connections
<1>2. Sent(rows)[conn] = toServer[conn] \o rows
  BY <1>1 DEF Sent, ConnectionUp
<1> QED
  BY <1>1, <1>2, ConcatEqualIffEmpty

\* No step of either side ends an exchange while rows remain, on a connection
\* that stays up.
THEOREM ExchangeGoesOn == Spec => ExchangeContinues
<1>1. ASSUME IInv, [Next]_vars, ConnectionUp, InFlight, socket' = "connected", peer'
      PROVE  InFlight' \/ outbox' = {}
  <2>0. /\ TypeOK /\ conn \in Connections /\ conn # 0
        /\ socket = "connected" /\ peer /\ ~fragment
        /\ toServer \in [Connections -> Seq(Row)] /\ toClient \in Seq(Nat)
        /\ outbox \in SUBSET Row
    BY <1>1, ConnectionsAssumption DEF IInv, TypeOK, ConnectionUp, Connections
  <2>1. CASE OnSnapshotFromWorker
    <3>1. outbox' \in SUBSET Row /\ outbox' # {}
      BY <1>1, <2>1, OnSnapshotPreserves DEF IInv, TypeOK, OnSnapshotFromWorker
    <3>2. FlushOutbox(outbox') \in Seq(Row) /\ FlushOutbox(outbox') # << >>
      BY <3>1, FlushWritesOldest
    <3>3. toServer' = Sent(FlushOutbox(outbox')) /\ conn' = conn
      BY <2>1 DEF OnSnapshotFromWorker, linkVars
    <3>4. toServer'[conn'] # << >>
      BY <1>1, <2>0, <3>2, <3>3, SentIsInFlight
    <3> QED
      BY <2>0, <3>3, <3>4 DEF InFlight
  <2>2. CASE ReadAck
    <3> DEFINE id == Head(toClient)
    <3>1. id \in Nat /\ outbox' = AckReceived(id).box /\ toServer' = Sent(AckReceived(id).sent)
          /\ conn' = conn
      BY <2>0, <2>2, HeadTailProperties DEF ReadAck, linkVars
    <3> HIDE DEF id
    <3>2. AckReceived(id).sent \in Seq(Row) /\ (outbox' # {} => AckReceived(id).sent # << >>)
      BY <2>0, <3>1, AckReceivedProperties
    <3>3. outbox' # {} => toServer'[conn'] # << >>
      BY <1>1, <2>0, <3>1, <3>2, SentIsInFlight
    <3> QED
      BY <2>0, <3>1, <3>3 DEF InFlight
  <2>3. CASE ReadGarbledLine
    BY <2>0, <2>3 DEF ReadGarbledLine
  <2>4. CASE \E c \in Connections : HandleMetrics(c)
    <3>1. PICK c \in Connections : HandleMetrics(c)
      BY <2>4
    <3>2. conn' = conn
      BY <3>1 DEF HandleMetrics, linkVars
    <3>3. CASE c = conn
      <4>1. toClient' = Append(toClient, Head(toServer[c]).id)
        BY <2>0, <3>1, <3>3 DEF HandleMetrics
      <4>2. Head(toServer[c]) \in Row
        BY <2>0, <3>1, HeadTailProperties DEF HandleMetrics
      <4>3. Head(toServer[c]).id \in Nat
        BY <4>2 DEF Row
      <4>4. toClient' # << >>
        BY <2>0, <4>1, <4>3, AppendProperties
      <4> QED
        BY <2>0, <3>2, <4>4 DEF InFlight
    <3>4. CASE c # conn
      <4>1. toServer'[conn] = toServer[conn] /\ toClient' = toClient
        BY <2>0, <3>1, <3>4 DEF HandleMetrics
      <4> QED
        BY <1>1, <3>2, <4>1 DEF InFlight
    <3> QED
      BY <3>3, <3>4
  <2>5. CASE OnLoginResponse \/ Connect \/ DisconnectFromServer \/ SessionStops
             \/ ServerCrash \/ OnDisconnected \/ ClientRestart
    BY <1>1, <2>0, <2>5
       DEF OnLoginResponse, Connect, DisconnectFromServer, SessionStops, ServerCrash,
           OnDisconnected, ClientRestart, InFlight
  <2>6. CASE UNCHANGED vars
    BY <1>1, <2>6 DEF InFlight, vars
  <2> QED
    BY <1>1, <2>1, <2>2, <2>3, <2>4, <2>5, <2>6 DEF Next
<1>2. IInv /\ [Next]_vars =>
         [ConnectionUp /\ InFlight /\ socket' = "connected" /\ peer'
             => InFlight' \/ outbox' = {}]_vars
  BY <1>1
<1> QED
  BY <1>2, Invariance, PTL DEF Spec, ExchangeContinues

-----------------------------------------------------------------------------
(* Refinement.                                                             *)

\* The snapshots still held, as SnapshotDelivery sees the outbox.
Held == {r.snap : r \in outbox}
Stored == {s \in Snapshots : metrics[s] > 0}

LEMMA InitRefines == Init => Delivery!Init
  BY DEF Init, Delivery!Init, Snapshots

\* Collecting a snapshot is accepting it.
LEMMA OnSnapshotRefines ==
    ASSUME IInv, OnSnapshotFromWorker
    PROVE  Delivery!Accept
<1> DEFINE new == [id |-> lastId + 1, snap |-> collected + 1]
<1>1. /\ collected' = collected + 1 /\ new.snap = collected + 1
      /\ outbox' = outbox \cup {new}
      /\ metrics' = metrics /\ refused' = refused
  BY DEF OnSnapshotFromWorker, NextRowId, serverVars
<1> HIDE DEF new
<1>2. Held' = Held \cup {collected + 1}
  BY <1>1 DEF Held
<1>3. Stored' = Stored
  BY <1>1 DEF Stored
<1> QED
  BY <1>1, <1>2, <1>3 DEF Delivery!Accept, Held, Stored

\* An ACK releases the oldest snapshot, or finds nothing to erase.
LEMMA AckRefines ==
    ASSUME IInv, NEW id \in Nat,
           id > 0 => id \in 1 .. collected /\ Settled(id) /\ NotAfter(id, outbox),
           outbox' = AckReceived(id).box, UNCHANGED <<collected, metrics, refused>>
    PROVE  Delivery!Next \/ UNCHANGED Delivery!vars
<1>0. outbox \in SUBSET Row /\ collected \in 0 .. MaxSnapshots /\ Numbered(outbox, collected)
  BY DEF IInv, TypeOK, RowsNumbered
<1>1. outbox' = IF id > 0 THEN Erase(id, outbox) ELSE outbox
  BY <1>0, AckReceivedProperties
<1>2. Stored' = Stored
  BY DEF Stored
<1>3. CASE id > 0 /\ \E r \in outbox : r.id = id
  <2>1. outbox' = {r \in outbox : r.snap # id}
    BY <1>0, <1>1, <1>3 DEF Erase, Numbered
  <2>2. Held' = Held \ {id}
    BY <2>1 DEF Held
  <2>3. id \in Held /\ \A t \in Held : id <= t
    BY <1>0, <1>3 DEF Held, Numbered, NotAfter
  <2>4. id \in Stored \cup refused
    BY <1>0, <1>3, SnapshotsAssumption DEF Stored, Settled, Snapshots
  <2>5. Delivery!Release(id)
    BY <1>2, <2>2, <2>3, <2>4 DEF Delivery!Release, Held, Stored
  <2> QED
    BY <1>3, <2>5 DEF Delivery!Next
<1>4. CASE ~(id > 0 /\ \E r \in outbox : r.id = id)
  <2>1. outbox' = outbox
    BY <1>1, <1>4 DEF Erase
  <2> QED
    BY <2>1 DEF Delivery!vars
<1> QED
  BY <1>3, <1>4

\* Handling a METRICS line stores its snapshot or refuses it.
LEMMA HandleMetricsRefines ==
    ASSUME IInv, NEW c \in Connections, HandleMetrics(c)
    PROVE  Delivery!Next
<1> DEFINE row == Head(toServer[c])
<1>1. /\ toServer[c] \in Seq(Row) /\ toServer[c] # << >> /\ row = toServer[c][1]
      /\ 1 \in 1 .. Len(toServer[c])
      /\ metrics \in [Snapshots -> Nat] /\ collected \in 0 .. MaxSnapshots
      /\ outbox' = outbox /\ collected' = collected
  BY EmptySeq DEF IInv, TypeOK, HandleMetrics, clientVars
<1>2. row.snap \in 1 .. collected /\ row.snap \in Snapshots
  BY <1>1, SnapshotsAssumption DEF IInv, WireInv, GoodLines, GoodLine, Snapshots
<1>3. Held' = Held
  BY <1>1 DEF Held
<1>4. \/ metrics' = [metrics EXCEPT ![row.snap] = @ + 1] /\ refused' = refused
      \/ refused' = refused \cup {row.snap} /\ metrics' = metrics
  BY DEF HandleMetrics
<1> HIDE DEF row
<1>5. CASE metrics' = [metrics EXCEPT ![row.snap] = @ + 1] /\ refused' = refused
  <2>1. metrics'[row.snap] > 0 /\ \A s \in Snapshots : s # row.snap => metrics'[s] = metrics[s]
    BY <1>1, <1>2, <1>5
  <2>2. PICK s \in 1 .. collected : s = row.snap
    BY <1>2
  <2>3. Stored' = Stored \cup {s}
    BY <1>2, <2>1, <2>2 DEF Stored
  <2>4. Delivery!Store(s)
    BY <1>1, <1>3, <1>5, <2>3 DEF Delivery!Store, Held, Stored
  <2> QED
    BY <2>4 DEF Delivery!Next
<1>6. CASE refused' = refused \cup {row.snap} /\ metrics' = metrics
  <2>1. Stored' = Stored
    BY <1>6 DEF Stored
  <2>2. Delivery!Refuse(row.snap)
    BY <1>1, <1>3, <1>6, <2>1 DEF Delivery!Refuse, Held, Stored
  <2> QED
    BY <1>2, <2>2 DEF Delivery!Next
<1> QED
  BY <1>4, <1>5, <1>6

\* Outbox, wire protocol and session implement the delivery SnapshotDelivery
\* promises: every step is a step of it, or leaves its state alone.
THEOREM Refinement == Spec => ImplementsDelivery
<1>1. IInv /\ [Next]_vars => [Delivery!Next]_(Delivery!vars)
  <2> SUFFICES ASSUME IInv, [Next]_vars
               PROVE  Delivery!Next \/ UNCHANGED Delivery!vars
    OBVIOUS
  <2>1. CASE OnSnapshotFromWorker
    BY <2>1, OnSnapshotRefines DEF Delivery!Next
  <2>2. CASE ReadAck
    <3>1. /\ toClient \in Seq(Nat) /\ toClient # << >>
          /\ outbox' = AckReceived(Head(toClient)).box
          /\ UNCHANGED <<collected, metrics, refused>>
      BY <2>2 DEF IInv, TypeOK, ReadAck, serverVars
    <3>2. Head(toClient) \in Nat /\ Head(toClient) = toClient[1] /\ 1 \in 1 .. Len(toClient)
      BY <3>1, EmptySeq, HeadTailProperties
    <3>3. /\ Head(toClient) \in 1 .. collected
          /\ Settled(Head(toClient))
          /\ NotAfter(Head(toClient), outbox)
      BY <3>2 DEF IInv, AckInv
    <3> QED
      BY <3>1, <3>2, <3>3, AckRefines
  <2>3. CASE ReadGarbledLine
    <3>1. UNCHANGED <<collected, metrics, refused>>
      BY <2>3 DEF ReadGarbledLine, serverVars
    <3>2. CASE outbox' = AckReceived(0).box
      BY <3>1, <3>2, AckRefines
    <3>3. CASE outbox' = outbox
      BY <3>1, <3>3 DEF Delivery!vars
    <3> QED
      BY <2>3, <3>2, <3>3 DEF ReadGarbledLine
  <2>4. CASE \E c \in Connections : HandleMetrics(c)
    BY <2>4, HandleMetricsRefines
  <2>5. CASE OnLoginResponse \/ Connect \/ DisconnectFromServer \/ SessionStops
             \/ ServerCrash \/ OnDisconnected \/ ClientRestart
    <3>1. UNCHANGED <<outbox, collected, metrics, refused>>
      BY <2>5 DEF OnLoginResponse, Connect, DisconnectFromServer, SessionStops, ServerCrash,
                  OnDisconnected, ClientRestart, clientVars, serverVars
    <3> QED
      BY <3>1 DEF Delivery!vars
  <2>6. CASE UNCHANGED vars
    BY <2>6 DEF vars, Delivery!vars
  <2> QED
    BY <2>1, <2>2, <2>3, <2>4, <2>5, <2>6 DEF Next
<1> QED
  BY <1>1, InitRefines, Invariance, PTL DEF Spec, ImplementsDelivery, Delivery!Spec

-----------------------------------------------------------------------------
(* The duplicates.                                                         *)
(*                                                                         *)
(* What is on its way can still become rows of snapshot s: a line of       *)
(* snapshot t one for each subset of t+1 .. s, for its ACK lets two lines  *)
(* of a later snapshot be sent, and the ACK as many.  No step adds to      *)
(* these copies, but for the lines of a new snapshot or of a garbled ACK.  *)

Token == [kind : {"row", "line", "ack"}, conn : Nat, place : Nat, later : SUBSET Nat]

IsRow(x, stored) == x.kind = "row" /\ x.conn = 0 /\ x.place \in 1 .. stored /\ x.later = {}

IsLine(x, s, lines) ==
    /\ x.kind = "line" /\ x.conn \in Connections /\ x.place \in DOMAIN lines[x.conn]
    /\ lines[x.conn][x.place].snap <= s
    /\ x.later \subseteq (lines[x.conn][x.place].snap + 1) .. s

IsAck(x, s, acks) ==
    /\ x.kind = "ack" /\ x.conn = 0 /\ x.place \in DOMAIN acks
    /\ acks[x.place] < s
    /\ x.later \subseteq (acks[x.place] + 1) .. s

\* The copies of s: the rows stored, and what lines and ACKs can still become.
Copies(s, stored, lines, acks) ==
    {x \in Token : IsRow(x, stored) \/ IsLine(x, s, lines) \/ IsAck(x, s, acks)}

\* S is finite, and no larger than T, or than T and k more.
NoMore(S, T) == IsFiniteSet(S) /\ Cardinality(S) <= Cardinality(T)

MoreBy(S, T, k) == IsFiniteSet(S) /\ Cardinality(S) <= Cardinality(T) + k

\* Copies are told apart by what they are, where they are and what comes later.
LEMMA SameToken ==
    ASSUME NEW x \in Token, NEW y \in Token,
           x.kind = y.kind, x.conn = y.conn, x.place = y.place, x.later = y.later
    PROVE  x = y
  BY DEF Token

\* A one-to-one map into a finite set.
LEMMA ByInjection ==
    ASSUME NEW S, NEW T, IsFiniteSet(T), NEW f \in [S -> T],
           \A x, y \in S : f[x] = f[y] => x = y
    PROVE  NoMore(S, T)
<1>1. f \in Injection(S, T)
  BY Fun_IsInj
<1> QED
  BY <1>1, FS_Injection DEF NoMore

\* HandleMetrics: the line becomes a row of its snapshot, and an ACK.
LEMMA HandledCopies ==
    ASSUME NEW s \in Nat, NEW lines \in [Connections -> Seq(Row)], NEW acks \in Seq(Nat),
           NEW c \in Connections, lines[c] # << >>,
           NEW old \in Nat, NEW new \in Nat,
           new = old \/ (new = old + 1 /\ Head(lines[c]).snap = s),
           NEW after \in Seq(Nat),
           after = acks \/ after = Append(acks, Head(lines[c]).snap),
           IsFiniteSet(Copies(s, old, lines, acks))
    PROVE  NoMore(Copies(s, new, [lines EXCEPT ![c] = Tail(@)], after),
                  Copies(s, old, lines, acks))
<1> DEFINE t == Head(lines[c]).snap
           left == [lines EXCEPT ![c] = Tail(@)]
           S == Copies(s, new, left, after)
           T == Copies(s, old, lines, acks)
           first(X) == [kind |-> "line", conn |-> c, place |-> 1, later |-> X]
           next(x) == [kind |-> "line", conn |-> c, place |-> x.place + 1, later |-> x.later]
           f == [x \in S |-> CASE x.kind = "row" /\ x.place > old -> first({})
                               [] x.kind = "ack" /\ x.place > Len(acks) -> first(x.later)
                               [] x.kind = "line" /\ x.conn = c -> next(x)
                               [] OTHER -> x]
<1>1. /\ lines[c] \in Seq(Row) /\ c \in Nat /\ 1 \in DOMAIN lines[c] /\ t = lines[c][1].snap
      /\ t \in Nat
      /\ left[c] = Tail(lines[c]) /\ \A d \in Connections : d # c => left[d] = lines[d]
      /\ \A i \in DOMAIN left[c] : /\ i \in Nat /\ i >= 1 /\ i + 1 \in DOMAIN lines[c]
                                   /\ left[c][i] = lines[c][i + 1]
  <2>1. lines[c] \in Seq(Row) /\ Head(lines[c]) \in Row
    OBVIOUS
  <2>2. t \in Nat
    BY <2>1 DEF Row, Snapshots
  <2> QED
    BY <2>1, <2>2 DEF Connections
<1>2. /\ Len(acks) \in Nat
      /\ \A i \in DOMAIN acks : i \in Nat /\ i <= Len(acks) /\ i \in DOMAIN after /\ after[i] = acks[i]
      /\ \A i \in DOMAIN after : i \notin DOMAIN acks =>
              after = Append(acks, t) /\ i = Len(acks) + 1 /\ after[i] = t
  <2>1. t \in Nat
    BY <1>1
  <2> HIDE DEF t
  <2>2. /\ DOMAIN acks = 1 .. Len(acks) /\ DOMAIN Append(acks, t) = 1 .. Len(acks) + 1
        /\ Len(acks) \in Nat /\ Append(acks, t)[Len(acks) + 1] = t
        /\ \A i \in 1 .. Len(acks) : Append(acks, t)[i] = acks[i]
    BY <2>1
  <2>3. \A i \in 1 .. Len(acks) + 1 : i \notin 1 .. Len(acks) => i = Len(acks) + 1
    BY <2>2
  <2>4. \A i \in 1 .. Len(acks) : i \in Nat /\ i <= Len(acks) /\ i \in 1 .. Len(acks) + 1
    BY <2>2
  <2>5. after = acks \/ after = Append(acks, t)
    BY DEF t
  <2> QED
    BY <2>2, <2>3, <2>4, <2>5
<1> HIDE DEF t, left
<1>3. ASSUME NEW X, X \subseteq (t + 1) .. s, t <= s PROVE first(X) \in T
  <2>1. first(X) \in Token
    BY <1>1, <1>3 DEF Token
  <2>2. IsLine(first(X), s, lines)
    BY <1>1, <1>3 DEF IsLine
  <2> QED
    BY <2>1, <2>2 DEF Copies
<1>4. ASSUME NEW x \in S
      PROVE  /\ x \in Token
             /\ x.kind = "row" /\ x.place > old =>
                    x.conn = 0 /\ x.place = new /\ x.later = {} /\ t = s /\ new = old + 1
             /\ x.kind = "ack" /\ x.place > Len(acks) =>
                    /\ x.conn = 0 /\ x.place = Len(acks) + 1 /\ t < s
                    /\ x.later \subseteq (t + 1) .. s
             /\ x.kind = "line" /\ x.conn = c => x.place \in DOMAIN left[c] /\ IsLine(next(x), s, lines)
             /\ x.kind = "row" /\ ~(x.place > old) => IsRow(x, old)
             /\ x.kind = "ack" /\ ~(x.place > Len(acks)) => IsAck(x, s, acks)
             /\ x.kind = "line" /\ x.conn # c => IsLine(x, s, lines)
             /\ x.kind \in {"row", "line", "ack"}
  <2>1. x \in Token /\ (IsRow(x, new) \/ IsLine(x, s, left) \/ IsAck(x, s, after))
    BY <1>4 DEF Copies
  <2>2. x.kind \in {"row", "line", "ack"} /\ x.place \in Nat
    BY <2>1 DEF Token
  <2>3. CASE IsRow(x, new)
    BY <2>1, <2>2, <2>3 DEF IsRow, t
  <2>4. CASE IsLine(x, s, left)
    <3>1. x.kind = "line" /\ x.conn \in Connections /\ x.place \in DOMAIN left[x.conn]
      BY <2>4 DEF IsLine
    <3>2. CASE x.conn = c
      BY <1>1, <2>1, <2>4, <3>1, <3>2 DEF IsLine
    <3>3. CASE x.conn # c
      BY <1>1, <2>1, <2>4, <3>1, <3>3 DEF IsLine
    <3> QED
      BY <3>2, <3>3
  <2>5. CASE IsAck(x, s, after)
    <3>1. x.kind = "ack" /\ x.conn = 0 /\ x.place \in DOMAIN after
      BY <2>5 DEF IsAck
    <3>2. CASE x.place \in DOMAIN acks
      <4>1. after[x.place] = acks[x.place] /\ ~(x.place > Len(acks))
        BY <1>2, <2>2, <3>2
      <4>2. IsAck(x, s, acks)
        BY <2>5, <3>2, <4>1 DEF IsAck
      <4> QED
        BY <2>1, <3>1, <4>1, <4>2
    <3>3. CASE x.place \notin DOMAIN acks
      <4>1. x.place = Len(acks) + 1 /\ x.place > Len(acks) /\ after[x.place] = t
        BY <1>2, <3>1, <3>3
      <4>2. t < s /\ x.later \subseteq (t + 1) .. s
        BY <2>5, <4>1 DEF IsAck
      <4> QED
        BY <2>1, <3>1, <4>1, <4>2
    <3> QED
      BY <3>2, <3>3
  <2> QED
    BY <2>1, <2>3, <2>4, <2>5
<1>5. ASSUME NEW x \in S PROVE f[x] \in T
  <2>1. CASE x.kind = "row" /\ x.place > old
    <3>1. f[x] = first({})
      BY <2>1
    <3>2. t = s
      BY <1>4, <2>1
    <3>3. t <= s /\ {} \subseteq (t + 1) .. s
      BY <1>1, <3>2
    <3>4. first({}) \in T
      BY <1>3, <3>3
    <3> QED
      BY <3>1, <3>4
  <2>2. CASE x.kind = "ack" /\ x.place > Len(acks)
    <3>1. f[x] = first(x.later)
      BY <2>2
    <3>2. t < s /\ x.later \subseteq (t + 1) .. s
      BY <1>4, <2>2
    <3>3. t <= s
      BY <1>1, <3>2
    <3> HIDE DEF f, first, T
    <3> QED
      BY <1>3, <3>1, <3>2, <3>3
  <2>3. CASE x.kind = "line" /\ x.conn = c
    <3>1. f[x] = next(x)
      BY <2>3
    <3>2. next(x) \in Token /\ IsLine(next(x), s, lines)
      BY <1>1, <1>4, <2>3 DEF Token
    <3> QED
      BY <3>1, <3>2 DEF Copies
  <2>4. CASE /\ ~(x.kind = "row" /\ x.place > old) /\ ~(x.kind = "ack" /\ x.place > Len(acks))
             /\ ~(x.kind = "line" /\ x.conn = c)
    <3>1. f[x] = x
      BY <2>4
    <3> QED
      BY <1>4, <2>4, <3>1 DEF Copies
  <2> QED
    BY <2>1, <2>2, <2>3, <2>4
<1> DEFINE newRow(x) == x.kind = "row" /\ x.place > old
           newAck(x) == x.kind = "ack" /\ x.place > Len(acks)
           moved(x) == x.kind = "line" /\ x.conn = c
<1>6. ASSUME NEW x \in S
      PROVE  /\ newRow(x) \/ newAck(x) => moved(f[x]) /\ f[x].place = 1
             /\ newAck(x) => f[x].later = x.later
             /\ moved(x) => /\ moved(f[x]) /\ f[x].place = x.place + 1 /\ f[x].place # 1
                            /\ f[x].later = x.later /\ x.place \in Nat
             /\ ~newRow(x) /\ ~newAck(x) /\ ~moved(x) => f[x] = x /\ ~moved(f[x])
  <2>1. moved(x) => x.place \in Nat /\ x.place >= 1
    BY <1>1, <1>4
  <2> QED
    BY <2>1
<1> HIDE DEF f, S, T, first, next
<1>7. ASSUME NEW x \in S, NEW y \in S
      PROVE  /\ newRow(x) /\ newRow(y) => x = y
             /\ newRow(x) => ~newAck(y)
             /\ newAck(x) /\ newAck(y) /\ f[x] = f[y] => x = y
             /\ moved(x) /\ moved(y) /\ f[x] = f[y] => x = y
  <2>1. x \in Token /\ y \in Token
    BY <1>4
  <2>2. newRow(x) /\ newRow(y) => x = y
    BY <1>4, <2>1, SameToken
  <2>3. newRow(x) => ~newAck(y)
    <3>1. newRow(x) => t = s
      BY <1>4
    <3>2. newAck(y) => t < s
      BY <1>4
    <3> QED
      BY <1>1, <3>1, <3>2
  <2>4. newAck(x) /\ newAck(y) /\ f[x] = f[y] => x = y
    <3> SUFFICES ASSUME newAck(x), newAck(y), f[x] = f[y] PROVE x = y
      OBVIOUS
    <3>1. x.later = y.later
      BY <1>6
    <3>2. x.place = y.place /\ x.conn = y.conn /\ x.kind = y.kind
      BY <1>4
    <3> QED
      BY <2>1, <3>1, <3>2, SameToken
  <2>5. moved(x) /\ moved(y) /\ f[x] = f[y] => x = y
    <3> SUFFICES ASSUME moved(x), moved(y), f[x] = f[y] PROVE x = y
      OBVIOUS
    <3>1. x.later = y.later /\ x.place + 1 = y.place + 1 /\ x.place \in Nat /\ y.place \in Nat
      BY <1>6
    <3>2. x.place = y.place
      BY <3>1
    <3> QED
      BY <2>1, <3>1, <3>2, SameToken
  <2> QED
    BY <2>2, <2>3, <2>4, <2>5
<1> HIDE DEF newRow, newAck, moved
<1>8. \A x, y \in S : f[x] = f[y] => x = y
  BY <1>6, <1>7
<1>9. f \in [S -> T]
  BY <1>5 DEF f
<1>10. IsFiniteSet(T)
  BY DEF T
<1>11. NoMore(S, T)
  BY <1>8, <1>9, <1>10, ByInjection
<1> QED
  BY <1>11 DEF S, T, left

\* A break, and a step that leaves lines and ACKs alone, make no copies.
LEMMA LostCopies ==
    ASSUME NEW s \in Nat, NEW stored,
           NEW lines \in [Connections -> Seq(Row)], NEW left \in [Connections -> Seq(Row)],
           NEW acks \in Seq(Nat), NEW after \in Seq(Nat),
           \A c \in Connections :
              /\ Len(left[c]) <= Len(lines[c])
              /\ \A i \in 1 .. Len(left[c]) : left[c][i] = lines[c][i],
           Len(after) <= Len(acks), \A i \in 1 .. Len(after) : after[i] = acks[i],
           IsFiniteSet(Copies(s, stored, lines, acks))
    PROVE  NoMore(Copies(s, stored, left, after), Copies(s, stored, lines, acks))
<1>1. ASSUME NEW c \in Connections, NEW i \in DOMAIN left[c]
      PROVE  i \in DOMAIN lines[c] /\ left[c][i] = lines[c][i]
  <2>1. /\ DOMAIN left[c] = 1 .. Len(left[c]) /\ DOMAIN lines[c] = 1 .. Len(lines[c])
        /\ Len(left[c]) \in Nat /\ Len(lines[c]) \in Nat
    BY LenProperties
  <2> QED
    BY <1>1, <2>1
<1>2. ASSUME NEW i \in DOMAIN after
      PROVE  i \in DOMAIN acks /\ after[i] = acks[i]
  <2>1. /\ DOMAIN after = 1 .. Len(after) /\ DOMAIN acks = 1 .. Len(acks)
        /\ Len(after) \in Nat /\ Len(acks) \in Nat
    BY LenProperties
  <2> QED
    BY <1>2, <2>1
<1>3. Copies(s, stored, left, after) \subseteq Copies(s, stored, lines, acks)
  <2> SUFFICES ASSUME NEW x \in Copies(s, stored, left, after)
               PROVE  x \in Copies(s, stored, lines, acks)
    OBVIOUS
  <2>1. x \in Token /\ (IsRow(x, stored) \/ IsLine(x, s, left) \/ IsAck(x, s, after))
    BY DEF Copies
  <2>2. IsLine(x, s, left) => IsLine(x, s, lines)
    BY <1>1 DEF IsLine
  <2>3. IsAck(x, s, after) => IsAck(x, s, acks)
    BY <1>2 DEF IsAck
  <2> QED
    BY <2>1, <2>2, <2>3 DEF Copies
<1> QED
  BY <1>3, FS_Subset, FS_CardinalityType DEF NoMore

\* ReadAck: the ACK becomes two lines of a later snapshot, or none.
LEMMA AckedCopies ==
    ASSUME NEW s \in Nat, NEW stored,
           NEW lines \in [Connections -> Seq(Row)], NEW acks \in Seq(Nat), acks # << >>,
           NEW c \in Connections, NEW r \in Row, NEW sent,
           \/ sent = lines
           \/ sent = [lines EXCEPT ![c] = @ \o <<r, r>>] /\ Head(acks) < r.snap,
           IsFiniteSet(Copies(s, stored, lines, acks))
    PROVE  NoMore(Copies(s, stored, sent, Tail(acks)), Copies(s, stored, lines, acks))
<1> DEFINE t == Head(acks)
           n == Len(lines[c])
           rest == Tail(acks)
           S == Copies(s, stored, sent, rest)
           T == Copies(s, stored, lines, acks)
           first(X) == [kind |-> "ack", conn |-> 0, place |-> 1, later |-> X]
           next(x) == [kind |-> "ack", conn |-> 0, place |-> x.place + 1, later |-> x.later]
           one(x) == x.kind = "line" /\ x.conn = c /\ x.place = n + 1
           two(x) == x.kind = "line" /\ x.conn = c /\ x.place = n + 2
           moved(x) == x.kind = "ack"
           f == [x \in S |-> CASE one(x) -> first(x.later)
                               [] two(x) -> first(x.later \cup {r.snap})
                               [] moved(x) -> next(x)
                               [] OTHER -> x]
<1>1. /\ n \in Nat /\ DOMAIN lines[c] = 1 .. n
      /\ \A d \in Connections : d # c => sent[d] = lines[d]
      /\ \A i \in DOMAIN sent[c] :
            \/ i \in 1 .. n /\ sent[c][i] = lines[c][i]
            \/ (i = n + 1 \/ i = n + 2) /\ sent[c][i] = r /\ t < r.snap
  <2>1. n \in Nat /\ DOMAIN lines[c] = 1 .. n /\ lines[c] \in Seq(Row)
    OBVIOUS
  <2>2. CASE sent = lines
    BY <2>1, <2>2
  <2>3. CASE sent = [lines EXCEPT ![c] = @ \o <<r, r>>] /\ t < r.snap
    <3> DEFINE q == lines[c] \o <<r, r>>
    <3>1. <<r, r>> \in Seq(Row) /\ Len(<<r, r>>) = 2
      OBVIOUS
    <3>2. /\ q \in Seq(Row) /\ Len(q) = n + 2
          /\ \A i \in 1 .. n + 2 : q[i] = IF i <= n THEN lines[c][i] ELSE <<r, r>>[i - n]
      BY <2>1, <3>1, ConcatProperties
    <3>3. sent[c] = q /\ \A d \in Connections : d # c => sent[d] = lines[d]
      BY <2>3
    <3> HIDE DEF q, n
    <3>4. DOMAIN q = 1 .. n + 2
      BY <3>2
    <3>5. ASSUME NEW i \in 1 .. n + 2
          PROVE  \/ i \in 1 .. n /\ q[i] = lines[c][i]
                 \/ (i = n + 1 \/ i = n + 2) /\ q[i] = r
      <4>1. CASE i <= n
        BY <2>1, <3>2, <4>1
      <4>2. CASE ~(i <= n)
        <5>1. i - n = 1 \/ i - n = 2
          BY <2>1, <4>2
        <5>2. q[i] = <<r, r>>[i - n]
          BY <3>2, <4>2
        <5>3. q[i] = r
          BY <5>1, <5>2
        <5> QED
          BY <2>1, <5>1, <5>3
      <4> QED
        BY <4>1, <4>2
    <3> QED
      BY <2>1, <2>3, <3>3, <3>4, <3>5
  <2> QED
    BY <2>2, <2>3
<1>2. /\ t \in Nat /\ 1 \in DOMAIN acks /\ acks[1] = t
      /\ \A i \in DOMAIN rest : i \in Nat /\ i >= 1 /\ i + 1 \in DOMAIN acks /\ rest[i] = acks[i + 1]
  BY HeadTailProperties, EmptySeq
<1>3. r.snap \in Nat
  BY DEF Row, Snapshots
<1> HIDE DEF t, n, rest
<1>4. ASSUME NEW x \in S
      PROVE  /\ x \in Token
             /\ one(x) \/ two(x) =>
                   /\ t < r.snap /\ r.snap <= s
                   /\ x.later \subseteq (r.snap + 1) .. s
             /\ moved(x) => x.conn = 0 /\ x.place \in DOMAIN rest /\ IsAck(next(x), s, acks)
             /\ ~one(x) /\ ~two(x) /\ ~moved(x) => IsRow(x, stored) \/ IsLine(x, s, lines)
  <2>1. x \in Token /\ (IsRow(x, stored) \/ IsLine(x, s, sent) \/ IsAck(x, s, rest))
    BY <1>4 DEF Copies
  <2>2. x.kind \in {"row", "line", "ack"} /\ x.place \in Nat
    BY <2>1 DEF Token
  <2>3. CASE IsRow(x, stored)
    BY <2>1, <2>2, <2>3 DEF IsRow
  <2>4. CASE IsLine(x, s, sent)
    <3>1. x.kind = "line" /\ x.conn \in Connections /\ x.place \in DOMAIN sent[x.conn]
      BY <2>4 DEF IsLine
    <3>2. CASE x.conn = c
      <4>1. CASE x.place \in 1 .. n /\ sent[c][x.place] = lines[c][x.place]
        <5>1. x.place # n + 1 /\ x.place # n + 2
          BY <1>1, <4>1
        <5>2. IsLine(x, s, lines)
          BY <1>1, <2>4, <3>2, <4>1 DEF IsLine
        <5> QED
          BY <2>1, <3>1, <5>1, <5>2
      <4>2. CASE (x.place = n + 1 \/ x.place = n + 2) /\ sent[c][x.place] = r /\ t < r.snap
        <5>1. r.snap <= s /\ x.later \subseteq (r.snap + 1) .. s
          BY <2>4, <3>2, <4>2 DEF IsLine
        <5> QED
          BY <2>1, <3>1, <3>2, <4>2, <5>1
      <4> QED
        BY <1>1, <3>1, <3>2, <4>1, <4>2
    <3>3. CASE x.conn # c
      <4>1. IsLine(x, s, lines)
        BY <1>1, <2>4, <3>1, <3>3 DEF IsLine
      <4> QED
        BY <2>1, <3>1, <3>3, <4>1
    <3> QED
      BY <3>2, <3>3
  <2>5. CASE IsAck(x, s, rest)
    <3>1. x.kind = "ack" /\ x.conn = 0 /\ x.place \in DOMAIN rest
      BY <2>5 DEF IsAck
    <3>2. IsAck(next(x), s, acks)
      BY <1>2, <2>5, <3>1 DEF IsAck
    <3> QED
      BY <2>1, <3>1, <3>2
  <2> QED
    BY <2>1, <2>3, <2>4, <2>5
<1>5. ASSUME NEW X, X \subseteq (t + 1) .. s, t < s PROVE first(X) \in T
  <2>1. first(X) \in Token
    BY <1>2, <1>5 DEF Token
  <2>2. IsAck(first(X), s, acks)
    BY <1>2, <1>5 DEF IsAck
  <2> QED
    BY <2>1, <2>2 DEF Copies
<1>6. ASSUME NEW x \in S PROVE f[x] \in T
  <2>0. ASSUME t < r.snap, r.snap <= s, x.later \subseteq (r.snap + 1) .. s
        PROVE  /\ t < s /\ x.later \subseteq (t + 1) .. s
               /\ x.later \cup {r.snap} \subseteq (t + 1) .. s
    <3>1. (r.snap + 1) .. s \subseteq (t + 1) .. s /\ r.snap \in (t + 1) .. s /\ t < s
      BY <1>2, <1>3, <2>0
    <3> QED
      BY <2>0, <3>1
  <2>1. CASE one(x)
    <3>0. ~two(x) /\ ~moved(x)
      BY <1>1, <2>1
    <3>1. f[x] = first(x.later)
      BY <2>1, <3>0
    <3>2. t < s /\ x.later \subseteq (t + 1) .. s
      BY <1>4, <2>0, <2>1
    <3> QED
      BY <1>5, <3>1, <3>2
  <2>2. CASE two(x)
    <3>1. ~one(x)
      BY <1>1, <2>2
    <3>2. f[x] = first(x.later \cup {r.snap})
      BY <2>2, <3>1
    <3>3. t < s /\ x.later \cup {r.snap} \subseteq (t + 1) .. s
      BY <1>4, <2>0, <2>2
    <3> HIDE DEF f, first, T
    <3> QED
      BY <1>5, <3>2, <3>3
  <2>3. CASE moved(x)
    <3>1. f[x] = next(x)
      BY <2>3
    <3>2. next(x) \in Token /\ IsAck(next(x), s, acks)
      BY <1>2, <1>4, <2>3 DEF Token
    <3> QED
      BY <3>1, <3>2 DEF Copies
  <2>4. CASE ~one(x) /\ ~two(x) /\ ~moved(x)
    <3>1. f[x] = x
      BY <2>4
    <3> QED
      BY <1>4, <2>4, <3>1 DEF Copies
  <2> QED
    BY <2>1, <2>2, <2>3, <2>4
<1>7. ASSUME NEW x \in S
      PROVE  /\ one(x) => /\ moved(f[x]) /\ f[x].place = 1 /\ f[x].later = x.later
                          /\ r.snap \notin f[x].later
             /\ two(x) => /\ ~one(x) /\ moved(f[x]) /\ f[x].place = 1
                          /\ f[x].later = x.later \cup {r.snap} /\ r.snap \notin x.later
             /\ moved(x) => /\ moved(f[x]) /\ f[x].place = x.place + 1 /\ f[x].place # 1
                            /\ f[x].later = x.later /\ x.place \in Nat
             /\ ~one(x) /\ ~two(x) /\ ~moved(x) => f[x] = x
  <2>1. moved(x) => x.place \in Nat /\ x.place >= 1
    BY <1>2, <1>4
  <2>2. one(x) \/ two(x) => r.snap \notin x.later
    <3>1. r.snap \notin (r.snap + 1) .. s
      BY <1>3
    <3> QED
      BY <1>4, <3>1
  <2>3. two(x) => ~one(x)
    <3>1. n + 1 # n + 2
      BY <1>1
    <3> QED
      BY <3>1
  <2>4. one(x) => f[x] = first(x.later)
    <3>1. one(x) => ~two(x) /\ ~moved(x)
      BY <2>3
    <3> QED
      BY <3>1
  <2>5. two(x) => f[x] = first(x.later \cup {r.snap})
    BY <2>3
  <2>6. moved(x) => f[x] = next(x)
    OBVIOUS
  <2>7. ~one(x) /\ ~two(x) /\ ~moved(x) => f[x] = x
    OBVIOUS
  <2> HIDE DEF f, S
  <2> QED
    BY <2>1, <2>2, <2>3, <2>4, <2>5, <2>6, <2>7
<1> HIDE DEF f, S, T, first, next
<1>8. ASSUME NEW x \in S, NEW y \in S, f[x] = f[y]
      PROVE  /\ one(x) /\ one(y) => x = y
             /\ one(x) => ~two(y)
             /\ two(x) /\ two(y) => x = y
             /\ moved(x) /\ moved(y) => x = y
  <2>1. x \in Token /\ y \in Token
    BY <1>4
  <2>2. one(x) /\ one(y) => x = y
    BY <1>7, <1>8, <2>1, SameToken
  <2>3. one(x) => ~two(y)
    BY <1>7, <1>8
  <2>4. two(x) /\ two(y) => x = y
    <3> SUFFICES ASSUME two(x), two(y) PROVE x = y
      OBVIOUS
    <3>1. x.later = f[x].later \ {r.snap} /\ y.later = f[y].later \ {r.snap}
      BY <1>7
    <3> QED
      BY <1>8, <2>1, <3>1, SameToken
  <2>5. moved(x) /\ moved(y) => x = y
    <3> SUFFICES ASSUME moved(x), moved(y) PROVE x = y
      OBVIOUS
    <3>0. /\ f[x].later = x.later /\ f[x].place = x.place + 1 /\ x.place \in Nat
          /\ f[y].later = y.later /\ f[y].place = y.place + 1 /\ y.place \in Nat
      BY <1>7
    <3>1. x.later = y.later /\ x.place + 1 = y.place + 1 /\ x.place \in Nat /\ y.place \in Nat
      BY <1>8, <3>0
    <3>2. x.place = y.place
      BY <3>1
    <3>3. x.conn = y.conn
      BY <1>4
    <3> QED
      BY <2>1, <3>1, <3>2, <3>3, SameToken
  <2> QED
    BY <2>2, <2>3, <2>4, <2>5
<1>9. ASSUME NEW x \in S, ~one(x), ~two(x), ~moved(x) PROVE ~moved(f[x])
  BY <1>7, <1>9
<1> HIDE DEF one, two, moved
<1>10. \A x, y \in S : f[x] = f[y] => x = y
  <2> SUFFICES ASSUME NEW x \in S, NEW y \in S, f[x] = f[y] PROVE x = y
    OBVIOUS
  <2>1. CASE one(x) \/ two(x)
    <3>1. moved(f[x]) /\ f[x].place = 1
      BY <1>7, <2>1
    <3>2. one(y) \/ two(y)
      BY <1>7, <1>9, <3>1
    <3> QED
      BY <1>8, <2>1, <3>2
  <2>2. CASE moved(x)
    <3>1. moved(f[x]) /\ f[x].place # 1
      BY <1>7, <2>2
    <3>2. moved(y)
      BY <1>7, <1>9, <3>1
    <3> QED
      BY <1>8, <2>2, <3>2
  <2>3. CASE ~one(x) /\ ~two(x) /\ ~moved(x)
    <3>1. f[x] = x /\ ~moved(f[x])
      BY <1>7, <1>9, <2>3
    <3>2. ~one(y) /\ ~two(y) /\ ~moved(y)
      BY <1>7, <3>1
    <3> QED
      BY <1>7, <3>1, <3>2
  <2> QED
    BY <2>1, <2>2, <2>3
<1>11. f \in [S -> T]
  BY <1>6 DEF f
<1>12. IsFiniteSet(T)
  BY DEF T
<1>13. NoMore(S, T)
  BY <1>10, <1>11, <1>12, ByInjection
<1> QED
  BY <1>13 DEF S, T, rest

\* The copies of s that one line can still become, at most: a line is of
\* snapshot 1 or a later one.
Room(s) == Cardinality(SUBSET (2 .. s))

\* The room of s is the number of subsets of 2 .. s.
LEMMA RoomIsPower ==
    ASSUME NEW s \in Snapshots
    PROVE  Room(s) \in Nat /\ Room(s) = 2 ^ (s - 1)
<1>1. s \in Int /\ s >= 1
  BY SnapshotsAssumption DEF Snapshots
<1>2. IsFiniteSet(2 .. s) /\ Cardinality(2 .. s) = IF 2 > s THEN 0 ELSE s - 2 + 1
  BY <1>1, FS_Interval
<1>3. Cardinality(2 .. s) = s - 1
  BY <1>1, <1>2
<1>4. IsFiniteSet(SUBSET (2 .. s)) /\ Cardinality(SUBSET (2 .. s)) = 2 ^ Cardinality(2 .. s)
  BY <1>2, FS_SUBSET
<1>5. Cardinality(SUBSET (2 .. s)) \in Nat
  BY <1>4, FS_CardinalityType
<1> QED
  BY <1>3, <1>4, <1>5 DEF Room

\* One line more.
LEMMA AddedCopies ==
    ASSUME NEW s \in Snapshots, NEW stored,
           NEW lines \in [Connections -> Seq(Row)], NEW acks \in Seq(Nat),
           NEW c \in Connections, NEW r \in Row,
           IsFiniteSet(Copies(s, stored, lines, acks))
    PROVE  MoreBy(Copies(s, stored, [lines EXCEPT ![c] = Append(@, r)], acks),
                  Copies(s, stored, lines, acks), Room(s))
<1> DEFINE n == Len(lines[c])
           q == Append(lines[c], r)
           more == [lines EXCEPT ![c] = Append(@, r)]
           S == Copies(s, stored, more, acks)
           T == Copies(s, stored, lines, acks)
           A == {x \in S : x.kind = "line" /\ x.conn = c /\ x.place = n + 1}
           f == [x \in A |-> x.later]
<1>1. /\ n \in Nat /\ DOMAIN lines[c] = 1 .. n /\ DOMAIN q = 1 .. n + 1
      /\ q[n + 1] = r /\ \A i \in 1 .. n : q[i] = lines[c][i]
      /\ more[c] = q /\ \A d \in Connections : d # c => more[d] = lines[d]
  <2>1. n \in Nat /\ DOMAIN lines[c] = 1 .. n /\ lines[c] \in Seq(Row)
    OBVIOUS
  <2>2. /\ q \in Seq(Row) /\ Len(q) = n + 1 /\ q[n + 1] = r
        /\ \A i \in 1 .. n : q[i] = lines[c][i]
    BY <2>1, AppendProperties
  <2>3. DOMAIN q = 1 .. n + 1
    BY <2>2, LenProperties
  <2>4. more[c] = q /\ \A d \in Connections : d # c => more[d] = lines[d]
    OBVIOUS
  <2> QED
    BY <2>1, <2>2, <2>3, <2>4
<1>2. /\ s \in Nat /\ r.snap \in Nat /\ r.snap >= 1
  BY SnapshotsAssumption DEF Row, Snapshots
<1> HIDE DEF n, q, more
<1>3. ASSUME NEW x \in S
      PROVE  \/ x \in T
             \/ /\ x \in Token /\ x.kind = "line" /\ x.conn = c /\ x.place = n + 1
                /\ x.later \in SUBSET (2 .. s)
  <2>1. x \in Token /\ (IsRow(x, stored) \/ IsLine(x, s, more) \/ IsAck(x, s, acks))
    BY <1>3 DEF Copies
  <2>2. CASE IsRow(x, stored) \/ IsAck(x, s, acks)
    BY <2>1, <2>2 DEF Copies
  <2>3. CASE IsLine(x, s, more)
    <3>1. x.kind = "line" /\ x.conn \in Connections /\ x.place \in DOMAIN more[x.conn]
      BY <2>3 DEF IsLine
    <3>2. CASE x.conn = c /\ x.place = n + 1
      <4>1. more[x.conn][x.place] = r
        BY <1>1, <3>2
      <4>2. x.later \subseteq (r.snap + 1) .. s
        BY <2>3, <4>1 DEF IsLine
      <4>3. (r.snap + 1) .. s \subseteq 2 .. s
        BY <1>2
      <4> QED
        BY <2>1, <3>1, <3>2, <4>2, <4>3
    <3>3. CASE x.conn = c /\ x.place # n + 1
      <4>1. x.place \in 1 .. n + 1
        BY <1>1, <3>1, <3>3
      <4>2. x.place \in 1 .. n
        BY <1>1, <3>3, <4>1
      <4>3. x.place \in DOMAIN lines[x.conn] /\ lines[x.conn][x.place] = more[x.conn][x.place]
        BY <1>1, <3>3, <4>2
      <4>4. IsLine(x, s, lines)
        BY <2>3, <4>3 DEF IsLine
      <4> QED
        BY <2>1, <4>4 DEF Copies
    <3>4. CASE x.conn # c
      <4>1. more[x.conn] = lines[x.conn]
        BY <1>1, <3>1, <3>4
      <4>2. IsLine(x, s, lines)
        BY <2>3, <4>1 DEF IsLine
      <4> QED
        BY <2>1, <4>2 DEF Copies
    <3> QED
      BY <3>2, <3>3, <3>4
  <2> QED
    BY <2>1, <2>2, <2>3
<1>4. IsFiniteSet(T)
  BY DEF T
<1>5. IsFiniteSet(SUBSET (2 .. s)) /\ Cardinality(SUBSET (2 .. s)) = Room(s)
  <2>1. IsFiniteSet(2 .. s)
    BY <1>2, FS_Interval
  <2> QED
    BY <2>1, FS_SUBSET DEF Room
<1>6. \A x \in A : x \in T \/ (x \in Token /\ x.later \in SUBSET (2 .. s))
  BY <1>3
<1> DEFINE B == A \ T
           g == [x \in B |-> x.later]
<1>7. g \in [B -> SUBSET (2 .. s)]
  BY <1>6
<1>8. \A x, y \in B : g[x] = g[y] => x = y
  <2> SUFFICES ASSUME NEW x \in B, NEW y \in B, g[x] = g[y] PROVE x = y
    OBVIOUS
  <2>1. x \in Token /\ y \in Token
    BY <1>6
  <2>2. x.kind = y.kind /\ x.conn = y.conn /\ x.place = y.place /\ x.later = y.later
    OBVIOUS
  <2> QED
    BY <2>1, <2>2, SameToken
<1>9. S \subseteq T \cup B
  BY <1>3
<1> HIDE DEF S, T, A, B, g
<1>10. NoMore(B, SUBSET (2 .. s))
  BY <1>5, <1>7, <1>8, ByInjection
<1>11. /\ IsFiniteSet(T \cup B)
       /\ Cardinality(T \cup B) = Cardinality(T) + Cardinality(B) - Cardinality(T \cap B)
  BY <1>4, <1>10, FS_Union DEF NoMore
<1>12. IsFiniteSet(T \cap B)
  <2>1. T \cap B \in SUBSET T
    OBVIOUS
  <2> QED
    BY <1>4, <2>1, FS_Subset
<1>13. /\ Cardinality(T) \in Nat /\ Cardinality(B) \in Nat /\ Cardinality(T \cap B) \in Nat
       /\ Cardinality(T \cup B) \in Nat
  BY <1>4, <1>10, <1>11, <1>12, FS_CardinalityType DEF NoMore
<1>14. IsFiniteSet(S) /\ Cardinality(S) <= Cardinality(T \cup B)
  BY <1>9, <1>11, FS_Subset
<1>15. Cardinality(S) \in Nat /\ Room(s) \in Nat
  BY <1>5, <1>14, FS_CardinalityType
<1>16. Cardinality(S) <= Cardinality(T) + Room(s)
  BY <1>5, <1>10, <1>11, <1>13, <1>14, <1>15 DEF NoMore
<1> QED
  BY <1>14, <1>16 DEF MoreBy, S, T, more

\* Copies within the budget of m lines, k lines more, and a budget of m + k.
LEMMA Budget ==
    ASSUME NEW a \in Nat, NEW b \in Nat, NEW m \in Nat, NEW k \in Nat, NEW p \in Nat,
           NEW room \in Nat,
           a <= m * room, b <= a + k * room, m + k <= p
    PROVE  b <= p * room
<1>1. (m + k) * room = m * room + k * room
  OBVIOUS
<1>2. PICK d \in Nat : p = (m + k) + d
  <2>1. p - (m + k) \in Nat /\ p = (m + k) + (p - (m + k))
    OBVIOUS
  <2> QED
    BY <2>1
<1>3. p * room = (m + k) * room + d * room
  BY <1>2
<1>4. d * room \in Nat /\ p * room \in Nat /\ m * room \in Nat /\ k * room \in Nat
  OBVIOUS
<1> QED
  BY <1>1, <1>3, <1>4

\* How many of the first n connections can have garbled a line: each that
\* broke, but for the last one as long as its fragment waits to be garbled.
Garbled(n, waiting) == IF n = 0 THEN 0 ELSE IF waiting THEN n - 2 ELSE n - 1

Garbles == Garbled(conn, fragment /\ socket # "unconnected")

\* A fragment is of a connection that broke before this one.
FragmentInv ==
    /\ fragment => conn # 0
    /\ fragment /\ socket # "unconnected" => conn > 1

\* The copies of s in this state.
CopiesNow(s) == Copies(s, metrics[s], toServer, toClient)

\* A new snapshot adds a line, a garbled line adds two, and nothing else does.
CopiesInv ==
    \A s \in Snapshots :
        /\ IsFiniteSet(CopiesNow(s))
        /\ Cardinality(CopiesNow(s)) <= (collected + 2 * Garbles) * Room(s)

CInv == IInv /\ FragmentInv /\ CopiesInv

LEMMA GarbledType ==
    ASSUME NEW n \in 0 .. MaxConnections, NEW waiting \in BOOLEAN, waiting => n > 1
    PROVE  Garbled(n, waiting) \in Nat /\ Garbled(n, waiting) <= MaxConnections - 1
<1>1. n \in Nat /\ n <= MaxConnections /\ MaxConnections \in Nat /\ MaxConnections >= 1
  BY ConnectionsAssumption
<1>2. CASE n = 0
  BY <1>1, <1>2 DEF Garbled
<1>3. CASE n # 0 /\ waiting
  <2>1. Garbled(n, waiting) = n - 2 /\ n > 1
    BY <1>3 DEF Garbled
  <2> QED
    BY <1>1, <2>1
<1>4. CASE n # 0 /\ ~waiting
  <2>1. Garbled(n, waiting) = n - 1
    BY <1>4 DEF Garbled
  <2> QED
    BY <1>1, <1>4, <2>1
<1> QED
  BY <1>2, <1>3, <1>4

LEMMA GarblesType ==
    ASSUME TypeOK, FragmentInv
    PROVE  Garbles \in Nat /\ Garbles <= MaxConnections - 1
<1>1. /\ conn \in 0 .. MaxConnections
      /\ fragment /\ socket # "unconnected" => conn > 1
  BY DEF TypeOK, FragmentInv
<1> QED
  BY <1>1, GarbledType DEF Garbles

\* A step that adds at most k lines, for k more snapshots or lines of an ACK.
LEMMA CopiesStep ==
    ASSUME CInv, IInv', FragmentInv', NEW k \in Nat,
           collected + 2 * Garbles + k <= collected' + 2 * Garbles',
           \A s \in Snapshots : MoreBy(CopiesNow(s)', CopiesNow(s), k * Room(s))
    PROVE  CInv'
<1>1. collected \in Nat /\ collected' \in Nat
  BY SnapshotsAssumption DEF CInv, IInv, TypeOK
<1>2. Garbles \in Nat
  BY GarblesType DEF CInv, IInv
<1>3. Garbles' \in Nat
  <2>1. /\ conn' \in 0 .. MaxConnections
        /\ fragment' /\ socket' # "unconnected" => conn' > 1
    BY DEF IInv, TypeOK, FragmentInv
  <2> QED
    BY <2>1, GarbledType DEF Garbles
<1> DEFINE m == collected + 2 * Garbles
           p == collected' + 2 * Garbles'
<1>4. m \in Nat /\ p \in Nat /\ m + k <= p
  <2>1. \A a, b \in Nat : a + 2 * b \in Nat
    OBVIOUS
  <2>2. m \in Nat
    BY <1>1, <1>2, <2>1
  <2>3. p \in Nat
    BY <1>1, <1>3, <2>1
  <2> QED
    BY <2>2, <2>3
<1> HIDE DEF m, p
<1>5. ASSUME NEW s \in Snapshots
      PROVE  IsFiniteSet(CopiesNow(s)') /\ Cardinality(CopiesNow(s)') <= p * Room(s)
  <2> DEFINE T == CopiesNow(s)
             S == CopiesNow(s)'
  <2>1. IsFiniteSet(T) /\ Cardinality(T) <= m * Room(s)
    BY DEF CInv, CopiesInv, m
  <2>2. IsFiniteSet(S) /\ Cardinality(S) <= Cardinality(T) + k * Room(s)
    BY DEF MoreBy
  <2> HIDE DEF S, T
  <2>3. Cardinality(T) \in Nat /\ Cardinality(S) \in Nat /\ Room(s) \in Nat
    BY <2>1, <2>2, FS_CardinalityType, RoomIsPower
  <2>4. Cardinality(S) <= p * Room(s)
    BY <1>4, <2>1, <2>2, <2>3, Budget
  <2> QED
    BY <2>2, <2>4 DEF S
<1>6. CopiesInv'
  BY <1>5 DEF CopiesInv, p
<1> QED
  BY <1>6 DEF CInv

\* NoMore is MoreBy nothing.
LEMMA NoMoreCopies ==
    ASSUME NEW S, NEW T, IsFiniteSet(T), NoMore(S, T)
    PROVE  MoreBy(S, T, 0)
  BY FS_CardinalityType DEF NoMore, MoreBy

\* An ACK makes onAckReceived write the oldest row of what is left twice.
LEMMA AckWritesTwice ==
    ASSUME outbox \in SUBSET Row, NEW id \in Nat
    PROVE  LET left == IF id > 0 THEN Erase(id, outbox) ELSE outbox
           IN  \/ AckReceived(id).sent = << >>
               \/ \E r \in left : AckReceived(id).sent = <<r, r>>
<1> DEFINE left == IF id > 0 THEN Erase(id, outbox) ELSE outbox
           f == FlushOutbox(left)
<1>1. left \in SUBSET Row /\ Erase(id, left) = Erase(id, outbox)
  BY DEF Erase
<1>2. AckReceived(id).sent = (<< >> \o f) \o f
  BY <1>1 DEF AckReceived, OnAckReceived, Erase
<1>3. f \in Seq(Row)
  BY <1>1, FlushWritesOldest
<1>4. f = << >> \/ \E r \in left : f = <<r>>
  BY <1>1, PeekOldestIsOldest DEF FlushOutbox
<1> HIDE DEF f, left
<1>5. AckReceived(id).sent = f \o f
  BY <1>2, <1>3, ConcatEmptySeq
<1>6. ASSUME f = << >> PROVE AckReceived(id).sent = << >>
  BY <1>3, <1>5, <1>6, ConcatEmptySeq
<1>7. ASSUME NEW r \in left, f = <<r>> PROVE AckReceived(id).sent = <<r, r>>
  <2>1. r \in Row
    BY <1>1 DEF left
  <2>2. <<r>> \in Seq(Row) /\ Len(<<r>>) = 1 /\ <<r>>[1] = r
    BY <2>1
  <2>3. <<r, r>> \in Seq(Row) /\ Len(<<r, r>>) = 2 /\ <<r, r>>[1] = r /\ <<r, r>>[2] = r
    BY <2>1
  <2> DEFINE two == <<r>> \o <<r>>
  <2>4. two \in Seq(Row) /\ Len(two) = 2 /\ two[1] = r /\ two[2] = r
    BY <2>2
  <2> HIDE DEF two
  <2>5. two = <<r, r>>
    <3>1. \A i \in 1 .. 2 : i = 1 \/ i = 2
      OBVIOUS
    <3> QED
      BY <2>3, <2>4, <3>1, SeqEqual
  <2> QED
    BY <1>5, <1>7, <2>5 DEF two
<1>8. \/ AckReceived(id).sent = << >>
      \/ \E r \in left : AckReceived(id).sent = <<r, r>>
  BY <1>4, <1>6, <1>7
<1> QED
  BY <1>8 DEF left

\* What is written joins the lines of the newest connection, or is lost.
LEMMA SentLines ==
    ASSUME TypeOK, NEW rows
    PROVE  \/ Sent(rows) = toServer
           \/ conn \in Connections /\ Sent(rows) = [toServer EXCEPT ![conn] = @ \o rows]
  BY ConnectionsAssumption DEF TypeOK, Sent, Connections

\* Two lines of one row more.
LEMMA TwiceAddedCopies ==
    ASSUME NEW s \in Snapshots, NEW stored,
           NEW lines \in [Connections -> Seq(Row)], NEW acks \in Seq(Nat),
           NEW c \in Connections, NEW r \in Row,
           IsFiniteSet(Copies(s, stored, lines, acks))
    PROVE  MoreBy(Copies(s, stored, [lines EXCEPT ![c] = @ \o <<r, r>>], acks),
                  Copies(s, stored, lines, acks), 2 * Room(s))
<1> DEFINE once == [lines EXCEPT ![c] = Append(@, r)]
           twice == [lines EXCEPT ![c] = @ \o <<r, r>>]
<1>1. lines[c] \in Seq(Row)
  OBVIOUS
<1>2. once \in [Connections -> Seq(Row)]
  BY <1>1, AppendProperties
<1>3. twice = [once EXCEPT ![c] = Append(@, r)]
  <2>1. lines[c] \o <<r, r>> = Append(Append(lines[c], r), r)
    BY <1>1
  <2> QED
    BY <2>1
<1> HIDE DEF once, twice
<1>4. MoreBy(Copies(s, stored, once, acks), Copies(s, stored, lines, acks), Room(s))
  BY AddedCopies DEF once
<1>5. MoreBy(Copies(s, stored, twice, acks), Copies(s, stored, once, acks), Room(s))
  <2>1. IsFiniteSet(Copies(s, stored, once, acks))
    BY <1>4 DEF MoreBy
  <2> QED
    BY <1>2, <1>3, <2>1, AddedCopies
<1>6. /\ Room(s) \in Nat /\ Cardinality(Copies(s, stored, lines, acks)) \in Nat
      /\ Cardinality(Copies(s, stored, once, acks)) \in Nat
      /\ Cardinality(Copies(s, stored, twice, acks)) \in Nat
  BY <1>4, <1>5, FS_CardinalityType, RoomIsPower DEF MoreBy
<1>7. MoreBy(Copies(s, stored, twice, acks), Copies(s, stored, lines, acks), 2 * Room(s))
  BY <1>4, <1>5, <1>6 DEF MoreBy
<1> QED
  BY <1>7 DEF twice

\* A new snapshot puts one line more on its way.
LEMMA OnSnapshotCopies ==
    ASSUME CInv, IInv', FragmentInv', OnSnapshotFromWorker
    PROVE  CInv'
<1>0. TypeOK /\ TypeOK'
  BY DEF CInv, IInv
<1>1. /\ collected' = collected + 1 /\ toClient' = toClient /\ metrics' = metrics
      /\ conn' = conn /\ fragment' = fragment /\ socket' = socket
      /\ toServer' = Sent(FlushOutbox(outbox')) /\ outbox' # {}
  BY DEF OnSnapshotFromWorker, linkVars, serverVars
<1>2. PICK r \in Row : FlushOutbox(outbox') = <<r>>
  <2>1. outbox' \in SUBSET Row
    BY <1>0 DEF TypeOK
  <2>2. PeekOldest(outbox') \in Row
    BY <1>1, <2>1, PeekOldestIsOldest
  <2> QED
    BY <1>1, <2>2 DEF FlushOutbox
<1>3. \/ toServer' = toServer
      \/ conn \in Connections /\ toServer' = [toServer EXCEPT ![conn] = @ \o <<r>>]
  BY <1>0, <1>1, <1>2, SentLines
<1>4. ASSUME NEW s \in Snapshots
      PROVE  MoreBy(CopiesNow(s)', CopiesNow(s), 1 * Room(s))
  <2>1. /\ CopiesNow(s)' = Copies(s, metrics[s], toServer', toClient)
        /\ CopiesNow(s) = Copies(s, metrics[s], toServer, toClient)
    BY <1>1 DEF CopiesNow
  <2>2. IsFiniteSet(CopiesNow(s)) /\ Room(s) \in Nat /\ Cardinality(CopiesNow(s)) \in Nat
    BY RoomIsPower, FS_CardinalityType DEF CInv, CopiesInv
  <2>3. CASE toServer' = toServer
    BY <2>1, <2>2, <2>3 DEF MoreBy
  <2>4. CASE conn \in Connections /\ toServer' = [toServer EXCEPT ![conn] = @ \o <<r>>]
    <3>1. toServer \in [Connections -> Seq(Row)] /\ toClient \in Seq(Nat)
      BY <1>0 DEF TypeOK
    <3>2. toServer[conn] \o <<r>> = Append(toServer[conn], r)
      BY <2>4, <3>1
    <3>3. toServer' = [toServer EXCEPT ![conn] = Append(@, r)]
      BY <2>4, <3>2
    <3>4. MoreBy(CopiesNow(s)', CopiesNow(s), Room(s))
      <4>1. MoreBy(Copies(s, metrics[s], [toServer EXCEPT ![conn] = Append(@, r)], toClient),
                   Copies(s, metrics[s], toServer, toClient), Room(s))
        BY <2>1, <2>2, <2>4, <3>1, AddedCopies
      <4> QED
        BY <2>1, <3>3, <4>1
    <3> QED
      BY <2>2, <3>4
  <2> QED
    BY <1>3, <2>3, <2>4
<1>5. collected + 2 * Garbles + 1 <= collected' + 2 * Garbles'
  <2>1. Garbles' = Garbles
    BY <1>1 DEF Garbles
  <2>2. collected \in Nat
    BY <1>0, SnapshotsAssumption DEF TypeOK
  <2>3. Garbles \in Nat
    BY GarblesType DEF CInv, IInv
  <2>4. \A a, b \in Nat : a + 2 * b + 1 <= (a + 1) + 2 * b
    OBVIOUS
  <2> QED
    BY <1>1, <2>1, <2>2, <2>3, <2>4
<1> QED
  BY <1>4, <1>5, CopiesStep

\* A line handled is a row and an ACK instead.
LEMMA HandleMetricsCopies ==
    ASSUME CInv, IInv', FragmentInv', NEW c \in Connections, HandleMetrics(c)
    PROVE  CInv'
<1>0. TypeOK /\ TypeOK'
  BY DEF CInv, IInv
<1> DEFINE row == Head(toServer[c])
<1>1. /\ toServer \in [Connections -> Seq(Row)] /\ toClient \in Seq(Nat) /\ toClient' \in Seq(Nat)
      /\ metrics \in [Snapshots -> Nat] /\ metrics' \in [Snapshots -> Nat]
      /\ toServer[c] # << >> /\ toServer' = [toServer EXCEPT ![c] = Tail(@)]
      /\ collected' = collected /\ conn' = conn /\ fragment' = fragment /\ socket' = socket
  BY <1>0 DEF TypeOK, HandleMetrics, clientVars, linkVars
<1>2. row.id = row.snap /\ row.snap \in Snapshots
  <2>1. row = toServer[c][1] /\ 1 \in 1 .. Len(toServer[c]) /\ row \in Row
    BY <1>1, EmptySeq
  <2> QED
    BY <2>1 DEF CInv, IInv, WireInv, GoodLines, GoodLine, Row
<1>3. /\ metrics' = metrics \/ metrics' = [metrics EXCEPT ![row.snap] = @ + 1]
      /\ toClient' = toClient \/ toClient' = Append(toClient, row.snap)
  BY <1>2 DEF HandleMetrics
<1>4. ASSUME NEW s \in Snapshots
      PROVE  MoreBy(CopiesNow(s)', CopiesNow(s), 0 * Room(s))
  <2>1. /\ s \in Nat /\ metrics[s] \in Nat /\ metrics'[s] \in Nat
        /\ metrics'[s] = metrics[s] \/ (metrics'[s] = metrics[s] + 1 /\ row.snap = s)
    BY <1>1, <1>2, <1>3 DEF Snapshots
  <2>2. IsFiniteSet(CopiesNow(s)) /\ Room(s) \in Nat
    BY RoomIsPower DEF CInv, CopiesInv
  <2>3. NoMore(CopiesNow(s)', CopiesNow(s))
    BY <1>1, <1>3, <2>1, <2>2, HandledCopies DEF CopiesNow
  <2>4. 0 * Room(s) = 0
    BY <2>2
  <2> QED
    BY <2>2, <2>3, <2>4, NoMoreCopies
<1>5. Garbles' = Garbles
  BY <1>1 DEF Garbles
<1>6. collected \in Nat /\ Garbles \in Nat
  BY <1>0, SnapshotsAssumption, GarblesType DEF TypeOK, CInv
<1>7. collected + 2 * Garbles + 0 <= collected' + 2 * Garbles'
  <2>1. \A a, b \in Nat : a + 2 * b + 0 <= a + 2 * b
    OBVIOUS
  <2> QED
    BY <1>1, <1>5, <1>6, <2>1
<1> QED
  BY <1>4, <1>7, CopiesStep

\* An ACK read is two lines of a later snapshot instead.
LEMMA ReadAckCopies ==
    ASSUME CInv, IInv', FragmentInv', ReadAck
    PROVE  CInv'
<1>0. TypeOK /\ toServer \in [Connections -> Seq(Row)] /\ toClient \in Seq(Nat)
  BY DEF CInv, IInv, TypeOK
<1> DEFINE id == Head(toClient)
<1>1. /\ toClient # << >> /\ toClient' = Tail(toClient)
      /\ toServer' = Sent(AckReceived(id).sent)
      /\ collected' = collected /\ metrics' = metrics
      /\ conn' = conn /\ fragment' = fragment /\ socket' = socket
  BY DEF ReadAck, linkVars, serverVars
<1>2. id \in 1 .. collected /\ NotAfter(id, outbox) /\ collected \in Nat
  <2>1. id = toClient[1] /\ 1 \in 1 .. Len(toClient)
    BY <1>0, <1>1, EmptySeq
  <2> QED
    BY <1>0, <2>1, SnapshotsAssumption DEF CInv, IInv, AckInv, TypeOK
<1>3. id \in Nat /\ id > 0 /\ outbox \in SUBSET Row
  BY <1>0, <1>2 DEF TypeOK
<1> HIDE DEF id
<1>4. \/ AckReceived(id).sent = << >>
      \/ \E r \in Row : AckReceived(id).sent = <<r, r>> /\ id < r.snap
  <2>1. \/ AckReceived(id).sent = << >>
        \/ \E r \in Erase(id, outbox) : AckReceived(id).sent = <<r, r>>
    BY <1>3, AckWritesTwice
  <2>2. ASSUME NEW r \in Erase(id, outbox) PROVE r \in Row /\ id < r.snap
    <3>1. r \in outbox /\ r.id # id
      BY DEF Erase
    <3>2. r \in Row /\ r.id = r.snap /\ id <= r.id
      BY <1>2, <1>3, <3>1 DEF CInv, IInv, RowsNumbered, Numbered, NotAfter
    <3>3. r.snap \in Nat
      BY <3>2 DEF Row
    <3> QED
      BY <1>3, <3>1, <3>2, <3>3
  <2> QED
    BY <2>1, <2>2
<1>5. \/ toServer' = toServer
      \/ \E r \in Row : /\ id < r.snap /\ conn \in Connections
                        /\ toServer' = [toServer EXCEPT ![conn] = @ \o <<r, r>>]
  <2>1. CASE AckReceived(id).sent = << >>
    <3>1. \/ toServer' = toServer
          \/ conn \in Connections /\ toServer' = [toServer EXCEPT ![conn] = @ \o << >>]
      BY <1>0, <1>1, <2>1, SentLines DEF id
    <3>2. \A c \in Connections : toServer[c] \o << >> = toServer[c]
      BY <1>0, ConcatEmptySeq
    <3> QED
      BY <1>0, <3>1, <3>2
  <2>2. ASSUME NEW r \in Row, AckReceived(id).sent = <<r, r>>, id < r.snap
        PROVE  \/ toServer' = toServer
               \/ conn \in Connections /\ toServer' = [toServer EXCEPT ![conn] = @ \o <<r, r>>]
    BY <1>0, <1>1, <2>2, SentLines DEF id
  <2> QED
    BY <1>4, <2>1, <2>2
<1>6. ASSUME NEW s \in Snapshots
      PROVE  MoreBy(CopiesNow(s)', CopiesNow(s), 0 * Room(s))
  <2>1. /\ CopiesNow(s)' = Copies(s, metrics[s], toServer', Tail(toClient))
        /\ CopiesNow(s) = Copies(s, metrics[s], toServer, toClient)
    BY <1>1 DEF CopiesNow
  <2>2. IsFiniteSet(CopiesNow(s)) /\ Room(s) \in Nat /\ s \in Nat
    BY RoomIsPower DEF CInv, CopiesInv, Snapshots
  <2>3. CASE toServer' = toServer
    <3>1. [id |-> 0, snap |-> s] \in Row /\ 1 \in Connections
      BY ConnectionsAssumption DEF Row, Connections
    <3>2. NoMore(Copies(s, metrics[s], toServer, Tail(toClient)),
                 Copies(s, metrics[s], toServer, toClient))
      BY <1>0, <1>1, <2>1, <2>2, <3>1, AckedCopies
    <3>3. NoMore(CopiesNow(s)', CopiesNow(s))
      BY <2>1, <2>3, <3>2
    <3>4. 0 * Room(s) = 0
      BY <2>2
    <3> QED
      BY <2>2, <3>3, <3>4, NoMoreCopies
  <2>4. ASSUME NEW r \in Row, id < r.snap, conn \in Connections,
               toServer' = [toServer EXCEPT ![conn] = @ \o <<r, r>>]
        PROVE  MoreBy(CopiesNow(s)', CopiesNow(s), 0 * Room(s))
    <3>1. NoMore(Copies(s, metrics[s], [toServer EXCEPT ![conn] = @ \o <<r, r>>], Tail(toClient)),
                 Copies(s, metrics[s], toServer, toClient))
      BY <1>0, <1>1, <2>1, <2>2, <2>4, AckedCopies DEF id
    <3>2. NoMore(CopiesNow(s)', CopiesNow(s))
      BY <2>1, <2>4, <3>1
    <3>3. 0 * Room(s) = 0
      BY <2>2
    <3> QED
      BY <2>2, <3>2, <3>3, NoMoreCopies
  <2> QED
    BY <1>5, <2>3, <2>4
<1>7. Garbles' = Garbles
  BY <1>1 DEF Garbles
<1>8. collected \in Nat /\ Garbles \in Nat
  BY <1>0, <1>2, GarblesType DEF CInv
<1>9. collected + 2 * Garbles + 0 <= collected' + 2 * Garbles'
  <2>1. \A a, b \in Nat : a + 2 * b + 0 <= a + 2 * b
    OBVIOUS
  <2> QED
    BY <1>1, <1>7, <1>8, <2>1
<1> QED
  BY <1>6, <1>9, CopiesStep

\* A garbled ACK puts two lines of the oldest row on their way, for a connection
\* that broke.
LEMMA ReadGarbledCopies ==
    ASSUME CInv, IInv', FragmentInv', ReadGarbledLine
    PROVE  CInv'
<1>0. TypeOK /\ toServer \in [Connections -> Seq(Row)] /\ toClient \in Seq(Nat)
  BY DEF CInv, IInv, TypeOK
<1>1. /\ toClient' = toClient \/ (toClient # << >> /\ toClient' = Tail(toClient))
      /\ toServer' = toServer \/ toServer' = Sent(AckReceived(0).sent)
      /\ collected' = collected /\ metrics' = metrics
      /\ conn' = conn /\ fragment /\ ~fragment' /\ socket # "unconnected" /\ socket' = socket
  BY DEF ReadGarbledLine, serverVars
<1>2. \/ AckReceived(0).sent = << >>
      \/ \E r \in Row : AckReceived(0).sent = <<r, r>>
  <2>1. outbox \in SUBSET Row
    BY <1>0 DEF TypeOK
  <2>2. \/ AckReceived(0).sent = << >>
        \/ \E r \in outbox : AckReceived(0).sent = <<r, r>>
    BY <2>1, AckWritesTwice
  <2> QED
    BY <2>1, <2>2
<1>3. \/ toServer' = toServer
      \/ \E r \in Row : /\ conn \in Connections
                        /\ toServer' = [toServer EXCEPT ![conn] = @ \o <<r, r>>]
  <2>1. ASSUME AckReceived(0).sent = << >>, toServer' = Sent(AckReceived(0).sent)
        PROVE  toServer' = toServer
    <3>1. \/ toServer' = toServer
          \/ conn \in Connections /\ toServer' = [toServer EXCEPT ![conn] = @ \o << >>]
      BY <1>0, <2>1, SentLines
    <3>2. \A c \in Connections : toServer[c] \o << >> = toServer[c]
      BY <1>0, ConcatEmptySeq
    <3> QED
      BY <1>0, <3>1, <3>2
  <2>2. ASSUME NEW r \in Row, AckReceived(0).sent = <<r, r>>, toServer' = Sent(AckReceived(0).sent)
        PROVE  \/ toServer' = toServer
               \/ conn \in Connections /\ toServer' = [toServer EXCEPT ![conn] = @ \o <<r, r>>]
    BY <1>0, <2>2, SentLines
  <2> QED
    BY <1>1, <1>2, <2>1, <2>2
<1>4. ASSUME NEW s \in Snapshots
      PROVE  MoreBy(CopiesNow(s)', CopiesNow(s), 2 * Room(s))
  <2> DEFINE T == Copies(s, metrics[s], toServer, toClient)
             U == Copies(s, metrics[s], toServer, toClient')
             S == Copies(s, metrics[s], toServer', toClient')
  <2>1. CopiesNow(s)' = S /\ CopiesNow(s) = T
    BY <1>1 DEF CopiesNow
  <2>2. IsFiniteSet(T) /\ Room(s) \in Nat /\ s \in Nat /\ Cardinality(T) \in Nat
    <3>1. IsFiniteSet(T)
      BY <2>1 DEF CInv, CopiesInv
    <3> QED
      BY <3>1, RoomIsPower, FS_CardinalityType DEF Snapshots
  <2>3. NoMore(U, T)
    <3>1. CASE toClient' = toClient
      BY <2>2, <3>1 DEF NoMore
    <3>2. CASE toClient # << >> /\ toClient' = Tail(toClient)
      <4>1. [id |-> 0, snap |-> s] \in Row /\ 1 \in Connections
        BY ConnectionsAssumption DEF Row, Connections
      <4>2. NoMore(Copies(s, metrics[s], toServer, Tail(toClient)), T)
        BY <1>0, <2>2, <3>2, <4>1, AckedCopies
      <4> QED
        BY <3>2, <4>2
    <3> QED
      BY <1>1, <3>1, <3>2
  <2>4. IsFiniteSet(U) /\ Cardinality(U) \in Nat /\ Cardinality(U) <= Cardinality(T)
    BY <2>3, FS_CardinalityType DEF NoMore
  <2>5. MoreBy(S, U, 2 * Room(s))
    <3>1. CASE toServer' = toServer
      <4>1. S = U
        BY <3>1
      <4> HIDE DEF S, U
      <4> QED
        BY <2>2, <2>4, <4>1 DEF MoreBy
    <3>2. ASSUME NEW r \in Row, conn \in Connections,
                 toServer' = [toServer EXCEPT ![conn] = @ \o <<r, r>>]
          PROVE  MoreBy(S, U, 2 * Room(s))
      <4>1. toClient' \in Seq(Nat)
        BY DEF IInv, TypeOK
      <4>2. MoreBy(Copies(s, metrics[s], [toServer EXCEPT ![conn] = @ \o <<r, r>>], toClient'),
                   U, 2 * Room(s))
        BY <1>0, <2>4, <3>2, <4>1, TwiceAddedCopies
      <4> QED
        BY <3>2, <4>2
    <3> QED
      BY <1>3, <3>1, <3>2
  <2> HIDE DEF S, U, T
  <2>6. Cardinality(S) \in Nat
    BY <2>5, FS_CardinalityType DEF MoreBy
  <2>7. MoreBy(S, T, 2 * Room(s))
    BY <2>2, <2>4, <2>5, <2>6 DEF MoreBy
  <2> QED
    BY <2>1, <2>7
<1>5. /\ conn \in Nat /\ conn > 1 /\ Garbles = conn - 2 /\ Garbles' = conn - 1
      /\ collected \in Nat
  <2>1. conn \in Nat /\ conn > 1 /\ collected \in Nat
    BY <1>0, <1>1, SnapshotsAssumption, ConnectionsAssumption DEF TypeOK, CInv, FragmentInv
  <2>2. Garbles = conn - 2 /\ Garbles' = conn - 1
    BY <1>1, <2>1 DEF Garbles, Garbled
  <2> QED
    BY <2>1, <2>2
<1>6. collected + 2 * Garbles + 2 <= collected' + 2 * Garbles'
  <2>1. \A a, b \in Nat : b > 1 => a + 2 * (b - 2) + 2 <= a + 2 * (b - 1)
    OBVIOUS
  <2> QED
    BY <1>1, <1>5, <2>1
<1> QED
  BY <1>4, <1>6, CopiesStep

\* Connections come and go without a copy more.
LEMMA LinkStepsCopies ==
    ASSUME CInv, IInv', FragmentInv',
           \/ OnLoginResponse \/ Connect \/ DisconnectFromServer \/ SessionStops
           \/ ServerCrash \/ OnDisconnected \/ ClientRestart
    PROVE  CInv'
<1>0. TypeOK /\ toServer \in [Connections -> Seq(Row)] /\ toClient \in Seq(Nat)
  BY DEF CInv, IInv, TypeOK
<1>1. /\ toServer' \in [Connections -> Seq(Row)]
      /\ \A c \in Connections :
            /\ Len(toServer'[c]) <= Len(toServer[c])
            /\ \A i \in 1 .. Len(toServer'[c]) : toServer'[c][i] = toServer[c][i]
      /\ toClient' \in Seq(Nat)
      /\ Len(toClient') <= Len(toClient)
      /\ \A i \in 1 .. Len(toClient') : toClient'[i] = toClient[i]
      /\ UNCHANGED clientVars /\ UNCHANGED serverVars
  BY <1>0, LinkStepsLose
<1>2. collected' = collected /\ metrics' = metrics
  BY <1>1 DEF clientVars, serverVars
<1>3. ASSUME NEW s \in Snapshots
      PROVE  MoreBy(CopiesNow(s)', CopiesNow(s), 0 * Room(s))
  <2>1. IsFiniteSet(CopiesNow(s)) /\ Room(s) \in Nat /\ s \in Nat
    BY RoomIsPower DEF CInv, CopiesInv, Snapshots
  <2>2. NoMore(CopiesNow(s)', CopiesNow(s))
    BY <1>0, <1>1, <1>2, <2>1, LostCopies DEF CopiesNow
  <2>3. 0 * Room(s) = 0
    BY <2>1
  <2> QED
    BY <2>1, <2>2, <2>3, NoMoreCopies
<1>4. Garbles' \in Nat /\ Garbles \in Nat /\ collected \in Nat /\ Garbles <= Garbles'
  <2>1. conn \in Nat /\ collected \in Nat /\ (fragment => conn # 0)
        /\ (fragment /\ socket # "unconnected" => conn > 1)
    BY <1>0, SnapshotsAssumption, ConnectionsAssumption DEF TypeOK, CInv, FragmentInv
  <2>2. CASE Connect
    <3>1. conn' = conn + 1 /\ fragment' = fragment /\ socket = "unconnected"
          /\ socket' # "unconnected"
      BY <2>2 DEF Connect
    <3>2. Garbles = IF conn = 0 THEN 0 ELSE conn - 1
      BY <3>1 DEF Garbles, Garbled
    <3>3. Garbles' = IF fragment THEN conn - 1 ELSE conn
      BY <2>1, <3>1 DEF Garbles, Garbled
    <3> QED
      BY <2>1, <3>2, <3>3
  <2>3. CASE OnLoginResponse \/ DisconnectFromServer \/ SessionStops \/ ServerCrash
    <3>1. conn' = conn /\ fragment' = fragment
          /\ (socket' = "unconnected" <=> socket = "unconnected")
      BY <2>3 DEF OnLoginResponse, DisconnectFromServer, SessionStops, ServerCrash
    <3>2. Garbles' = Garbles
      BY <3>1 DEF Garbles
    <3>3. Garbles \in Nat
      BY <1>0, GarblesType DEF CInv
    <3> QED
      BY <2>1, <3>2, <3>3
  <2>4. CASE OnDisconnected \/ ClientRestart
    <3>1. conn' = conn /\ socket' = "unconnected"
      BY <2>4 DEF OnDisconnected, ClientRestart
    <3>2. Garbles' = IF conn = 0 THEN 0 ELSE conn - 1
      BY <3>1 DEF Garbles, Garbled
    <3>3. Garbles \in {IF conn = 0 THEN 0 ELSE conn - 1, IF conn = 0 THEN 0 ELSE conn - 2}
      BY DEF Garbles, Garbled
    <3>4. Garbles \in Nat
      BY <1>0, GarblesType DEF CInv
    <3> QED
      BY <2>1, <3>2, <3>3, <3>4
  <2> QED
    BY <2>2, <2>3, <2>4
<1>5. collected + 2 * Garbles + 0 <= collected' + 2 * Garbles'
  <2>1. \A a, b, d \in Nat : b <= d => a + 2 * b + 0 <= a + 2 * d
    OBVIOUS
  <2> QED
    BY <1>2, <1>4, <2>1
<1> QED
  BY <1>3, <1>5, CopiesStep

LEMMA FragmentStep ==
    ASSUME TypeOK, FragmentInv, [Next]_vars
    PROVE  FragmentInv'
<1>0. conn \in Nat
      /\ (socket # "unconnected" => conn # 0)
      /\ (fragment => conn # 0) /\ (fragment /\ socket # "unconnected" => conn > 1)
  BY ConnectionsAssumption DEF TypeOK, FragmentInv
<1>1. CASE Connect
  <2>1. conn' = conn + 1 /\ fragment' = fragment
    BY <1>1 DEF Connect
  <2> QED
    BY <1>0, <2>1 DEF FragmentInv
<1>2. CASE OnDisconnected
  BY <1>0, <1>2 DEF OnDisconnected, FragmentInv
<1>3. CASE ClientRestart
  BY <1>3 DEF ClientRestart, FragmentInv
<1>4. CASE ReadGarbledLine
  BY <1>4 DEF ReadGarbledLine, FragmentInv
<1>5. CASE DisconnectFromServer
  BY <1>0, <1>5 DEF DisconnectFromServer, FragmentInv
<1>6. CASE \/ OnLoginResponse \/ OnSnapshotFromWorker \/ ReadAck \/ SessionStops
           \/ ServerCrash \/ (\E c \in Connections : HandleMetrics(c)) \/ UNCHANGED vars
  <2>1. conn' = conn /\ fragment' = fragment /\ socket' = socket
    BY <1>6 DEF OnLoginResponse, OnSnapshotFromWorker, ReadAck, SessionStops, ServerCrash,
                HandleMetrics, linkVars, vars
  <2> QED
    BY <1>0, <2>1 DEF FragmentInv
<1> QED
  BY <1>1, <1>2, <1>3, <1>4, <1>5, <1>6 DEF Next

LEMMA InitCopies == Init => CInv
<1> SUFFICES ASSUME Init PROVE CInv
  OBVIOUS
<1>1. IInv
  BY InitEstablishes
<1>2. FragmentInv
  BY DEF Init, FragmentInv
<1>3. ASSUME NEW s \in Snapshots
      PROVE  /\ IsFiniteSet(CopiesNow(s))
             /\ Cardinality(CopiesNow(s)) <= (collected + 2 * Garbles) * Room(s)
  <2>1. /\ metrics[s] = 0 /\ \A c \in Connections : DOMAIN toServer[c] = {}
        /\ DOMAIN toClient = {}
    BY <1>3 DEF Init
  <2>2. \A x : ~IsRow(x, 0)
    BY DEF IsRow
  <2>3. CopiesNow(s) = {}
    BY <2>1, <2>2 DEF CopiesNow, Copies, IsLine, IsAck
  <2>4. collected = 0 /\ Garbles = 0
    BY DEF Init, Garbles, Garbled
  <2>5. (0 + 2 * 0) * Room(s) = 0
    BY RoomIsPower
  <2> QED
    BY <2>3, <2>4, <2>5, FS_EmptySet
<1> QED
  BY <1>1, <1>2, <1>3 DEF CInv, CopiesInv

LEMMA NextCopies == CInv /\ [Next]_vars => CInv'
<1> SUFFICES ASSUME CInv, [Next]_vars PROVE CInv'
  OBVIOUS
<1>1. IInv' /\ FragmentInv'
  BY NextPreserves, FragmentStep DEF CInv, IInv
<1>2. CASE OnSnapshotFromWorker
  BY <1>1, <1>2, OnSnapshotCopies
<1>3. CASE ReadAck
  BY <1>1, <1>3, ReadAckCopies
<1>4. CASE ReadGarbledLine
  BY <1>1, <1>4, ReadGarbledCopies
<1>5. CASE \E c \in Connections : HandleMetrics(c)
  BY <1>1, <1>5, HandleMetricsCopies
<1>6. CASE OnLoginResponse \/ Connect \/ DisconnectFromServer \/ SessionStops
           \/ ServerCrash \/ OnDisconnected \/ ClientRestart
  BY <1>1, <1>6, LinkStepsCopies
<1>7. CASE UNCHANGED vars
  <2>1. CopiesInv'
    BY <1>7 DEF vars, CInv, CopiesInv, CopiesNow, Garbles
  <2> QED
    BY <1>1, <2>1 DEF CInv
<1> QED
  BY <1>2, <1>3, <1>4, <1>5, <1>6, <1>7 DEF Next

\* Rows stored are copies.
LEMMA StoredAreCopies ==
    ASSUME NEW s, NEW stored \in Nat, NEW lines, NEW acks, IsFiniteSet(Copies(s, stored, lines, acks))
    PROVE  stored <= Cardinality(Copies(s, stored, lines, acks))
<1> DEFINE T == Copies(s, stored, lines, acks)
           row(k) == [kind |-> "row", conn |-> 0, place |-> k, later |-> {}]
           f == [k \in 1 .. stored |-> row(k)]
<1>1. ASSUME NEW k \in 1 .. stored PROVE row(k) \in T
  <2>1. row(k) \in Token
    BY DEF Token
  <2>2. IsRow(row(k), stored)
    BY DEF IsRow
  <2> QED
    BY <2>1, <2>2 DEF Copies
<1>2. f \in [1 .. stored -> T]
  BY <1>1
<1>3. \A i, j \in 1 .. stored : f[i] = f[j] => i = j
  OBVIOUS
<1> HIDE DEF f, T
<1>4. IsFiniteSet(T)
  BY DEF T
<1>5. NoMore(1 .. stored, T)
  BY <1>2, <1>3, <1>4, ByInjection
<1>6. Cardinality(1 .. stored) = stored
  <2>1. Cardinality(1 .. stored) = IF 1 > stored THEN 0 ELSE stored - 1 + 1
    BY FS_Interval
  <2> QED
    BY <2>1
<1> QED
  BY <1>5, <1>6 DEF NoMore, T

\* CInv holds in every reachable state: the copies of a snapshot stay within
\* the budget.
THEOREM CopiesInvariance == Spec => []CInv
  BY InitCopies, NextCopies, PTL DEF Spec

\* However connections break, ACKs get lost or garbled and rows are sent again,
\* and with the slot onAckReceived connected twice, the metrics table gets no
\* more rows of snapshot s than a budget of one line for each snapshot and two
\* for each connection that broke, doubled for each earlier snapshot.
THEOREM CopiesBounded == Spec => []DuplicatesBounded
<1>1. CInv => DuplicatesBounded
  <2> SUFFICES ASSUME CInv, NEW s \in Snapshots
               PROVE  metrics[s] <= (MaxSnapshots + 2 * (MaxConnections - 1)) * 2 ^ (s - 1)
    BY DEF DuplicatesBounded
  <2> DEFINE T == CopiesNow(s)
             m == collected + 2 * Garbles
             p == MaxSnapshots + 2 * (MaxConnections - 1)
  <2>1. /\ metrics[s] \in Nat /\ collected \in Nat /\ collected <= MaxSnapshots
        /\ MaxSnapshots \in Nat /\ MaxConnections - 1 \in Nat
        /\ Garbles \in Nat /\ Garbles <= MaxConnections - 1
    BY SnapshotsAssumption, ConnectionsAssumption, GarblesType DEF CInv, IInv, TypeOK
  <2>2. m \in Nat /\ p \in Nat /\ m + 0 <= p
    <3>1. \A a, b, d, e \in Nat : a <= d /\ b <= e =>
             a + 2 * b \in Nat /\ d + 2 * e \in Nat /\ (a + 2 * b) + 0 <= d + 2 * e
      OBVIOUS
    <3> QED
      BY <2>1, <3>1
  <2>3. IsFiniteSet(T) /\ Cardinality(T) <= m * Room(s)
    BY DEF CInv, CopiesInv
  <2>4. metrics[s] <= Cardinality(T)
    BY <2>1, <2>3, StoredAreCopies DEF CopiesNow
  <2> HIDE DEF T, m, p
  <2>5. Cardinality(T) \in Nat /\ Room(s) \in Nat /\ Room(s) = 2 ^ (s - 1)
    BY <2>3, FS_CardinalityType, RoomIsPower
  <2>6. Cardinality(T) <= Cardinality(T) + 0 * Room(s)
    BY <2>5
  <2>7. Cardinality(T) <= p * Room(s)
    BY <2>2, <2>3, <2>5, <2>6, Budget
  <2>8. metrics[s] <= p * Room(s)
    <3>1. p * Room(s) \in Nat
      BY <2>2, <2>5
    <3> QED
      BY <2>1, <2>4, <2>5, <2>7, <3>1
  <2> QED
    BY <2>5, <2>8 DEF p
<1> QED
  BY <1>1, CopiesInvariance, PTL
=============================================================================
