-------------------------- MODULE SharedOutboxProofs --------------------------
(***************************************************************************)
(* Proofs about SharedOutbox, for any number of client processes and of    *)
(* snapshots.                                                              *)
(***************************************************************************)
EXTENDS SharedOutbox, TLAPS

Settled == stored \cup refused

\* The type invariant, but for what relates its parts.
Typed ==
    /\ lastId \in Nat
    /\ outbox \subseteq 1 .. lastId
    /\ state \in [Processes -> {"ended", "started", "collecting"}]
    /\ link \in [Processes -> {"unconnected", "connected", "closing"}]
    /\ todo \in [Processes -> Seq(Statement)]
    /\ sent \in [Processes -> SUBSET Ids]
    /\ acks \in [Processes -> SUBSET Ids]
    /\ stored \subseteq Ids /\ refused \subseteq Ids

\* A slot runs only in a process that is there, and an ACK comes only on a
\* connection.
EndedInv ==
    \A p \in Processes :
        /\ state[p] = "ended" => todo[p] = << >> /\ link[p] = "unconnected"
        /\ link[p] = "unconnected" => acks[p] = {}

\* The id was given, and no row before it is in the table.
InFront(id) == id \in 1 .. lastId /\ \A o \in outbox : id <= o

\* No snapshot on its way to the server, or dealt with, is behind a row.
WireInv == \A p \in Processes : \A id \in sent[p] : InFront(id)
SettledInv == \A id \in Settled : InFront(id)

\* Nothing has vanished.
HeldInv == \A id \in 1 .. lastId : id \in outbox \cup Settled

\* What an ACK names, or a slot is about to erase, was dealt with.
AckInv == \A p \in Processes : acks[p] \subseteq Settled
EraseInv ==
    \A p \in Processes : \A i \in DOMAIN todo[p] :
        todo[p][i].op = "erase" => todo[p][i].id \in Settled

IInv ==
    /\ Typed
    /\ EndedInv
    /\ WireInv
    /\ SettledInv
    /\ HeldInv
    /\ AckInv
    /\ EraseInv

LEMMA InitEstablishes == Init => IInv
  BY DEF Init, IInv, Typed, EndedInv, WireInv, SettledInv, HeldInv, AckInv, EraseInv, Settled

\* A step that leaves table and server alone keeps what is said of them.
LEMMA TablesKept ==
    ASSUME IInv, UNCHANGED <<outbox, lastId, stored, refused>>
    PROVE  SettledInv' /\ HeldInv'
  BY DEF IInv, SettledInv, HeldInv, InFront, Settled

LEMMA AckSlotTyped ==
    ASSUME NEW id \in Ids \cup {0}
    PROVE  /\ AckSlot(id) \in Seq(Statement)
           /\ AckSlot(id) # << >>
           /\ \A i \in DOMAIN AckSlot(id) :
                 AckSlot(id)[i].op = "erase" => AckSlot(id)[i].id = id /\ id # 0
<1>1. Flush \in Statement /\ (id # 0 => Erase(id) \in Statement)
  BY DEF Flush, Erase, Statement
<1>2. CASE id = 0
  <2>1. AckSlot(id) = <<Flush, Flush>>
    BY <1>2 DEF AckSlot
  <2> QED
    BY <1>1, <2>1 DEF Flush
<1>3. CASE id # 0
  <2>1. AckSlot(id) = <<Erase(id), Flush, Erase(id), Flush>>
    BY <1>3 DEF AckSlot
  <2> QED
    BY <1>1, <1>3, <2>1 DEF Flush, Erase
<1> QED
  BY <1>2, <1>3

\* A statement is done: the rest of the slot is as before.
LEMMA ContinuesTyped ==
    ASSUME IInv, NEW p \in Processes, todo[p] # << >>, Continues(p)
    PROVE  /\ todo' \in [Processes -> Seq(Statement)]
           /\ \A q \in Processes : todo[q] = << >> => todo'[q] = << >>
           /\ \A q \in Processes : \A i \in DOMAIN todo'[q] :
                 todo'[q][i].op = "erase" => todo'[q][i].id \in Settled
<1>1. todo \in [Processes -> Seq(Statement)] /\ EraseInv
  BY DEF IInv, Typed
<1>2. /\ Tail(todo[p]) \in Seq(Statement)
      /\ \A i \in DOMAIN Tail(todo[p]) : i + 1 \in DOMAIN todo[p] /\ Tail(todo[p])[i] = todo[p][i + 1]
  BY <1>1
<1>3. \A q \in Processes : todo'[q] = IF q = p THEN Tail(todo[p]) ELSE todo[q]
  BY <1>1 DEF Continues
<1>4. todo' \in [Processes -> Seq(Statement)]
  BY <1>1, <1>2 DEF Continues
<1>5. ASSUME NEW q \in Processes, NEW i \in DOMAIN todo'[q], todo'[q][i].op = "erase"
      PROVE  todo'[q][i].id \in Settled
  BY <1>1, <1>2, <1>3, <1>5 DEF EraseInv
<1> QED
  BY <1>3, <1>4, <1>5

-----------------------------------------------------------------------------
(* Every action keeps the invariant.                                       *)

\* The slots begin.
LEMMA SlotBegins ==
    ASSUME IInv, NEW p \in Processes, OnSnapshotFromWorker(p) \/ ReadAck(p)
    PROVE  IInv'
<1>0. /\ Typed /\ EndedInv /\ WireInv /\ AckInv /\ EraseInv
      /\ UNCHANGED <<outbox, lastId, state, link, sent, acks, stored, refused>>
  BY DEF IInv, OnSnapshotFromWorker, ReadAck, tableVars, serverVars
<1>1. PICK slot \in Seq(Statement) :
          /\ todo' = [todo EXCEPT ![p] = slot]
          /\ \A i \in DOMAIN slot : slot[i].op = "erase" => slot[i].id \in Settled
  <2>1. CASE OnSnapshotFromWorker(p)
    <3> DEFINE slot == <<Enqueue, Flush>>
    <3>1. slot \in Seq(Statement)
      BY DEF Enqueue, Flush, Statement
    <3>2. \A i \in DOMAIN slot : slot[i].op # "erase"
      BY DEF Enqueue, Flush
    <3>3. todo' = [todo EXCEPT ![p] = slot]
      BY <2>1 DEF OnSnapshotFromWorker
    <3> HIDE DEF slot
    <3> QED
      BY <3>1, <3>2, <3>3
  <2>2. CASE ReadAck(p)
    <3>1. PICK id \in acks[p] \cup {0} : todo' = [todo EXCEPT ![p] = AckSlot(id)]
      BY <2>2 DEF ReadAck
    <3>2. id \in Ids \cup {0} /\ (id # 0 => id \in Settled)
      BY <1>0, <3>1 DEF Typed, AckInv
    <3> QED
      BY <3>1, <3>2, AckSlotTyped
  <2> QED
    BY <2>1, <2>2
<1>2. state[p] # "ended"
  BY DEF OnSnapshotFromWorker, ReadAck, Idle
<1>3. Typed'
  BY <1>0, <1>1 DEF Typed
<1>4. EndedInv'
  BY <1>0, <1>1, <1>2 DEF EndedInv, Typed
<1>5. WireInv' /\ AckInv'
  BY <1>0 DEF WireInv, AckInv, InFront, Settled
<1>6. EraseInv'
  <2> SUFFICES ASSUME NEW q \in Processes, NEW i \in DOMAIN todo'[q], todo'[q][i].op = "erase"
               PROVE  todo'[q][i].id \in Settled
    BY <1>0 DEF EraseInv, Settled
  <2>1. todo'[q] = IF q = p THEN slot ELSE todo[q]
    BY <1>0, <1>1 DEF Typed
  <2> QED
    BY <1>0, <1>1, <2>1 DEF EraseInv
<1> QED
  BY <1>0, <1>3, <1>4, <1>5, <1>6, TablesKept DEF IInv

\* enqueue adds a row behind all that are there or have ever been.
LEMMA DoEnqueuePreserves ==
    ASSUME IInv, NEW p \in Processes, DoEnqueue(p)
    PROVE  IInv'
<1>0. Typed /\ EndedInv /\ WireInv /\ SettledInv /\ HeldInv /\ AckInv /\ EraseInv
  BY DEF IInv
<1>1. /\ lastId' = lastId + 1 /\ outbox' = outbox \cup {lastId + 1}
      /\ UNCHANGED <<state, link, sent, acks, stored, refused>>
      /\ todo[p] # << >> /\ Continues(p)
  BY DEF DoEnqueue, NextRowId, Begins, serverVars
<1>2. /\ todo' \in [Processes -> Seq(Statement)]
      /\ \A q \in Processes : todo[q] = << >> => todo'[q] = << >>
      /\ \A q \in Processes : \A i \in DOMAIN todo'[q] :
            todo'[q][i].op = "erase" => todo'[q][i].id \in Settled
  BY <1>1, ContinuesTyped
<1>3. lastId \in Nat /\ \A i : i \in 1 .. lastId => i \in 1 .. lastId' /\ i <= lastId + 1
  BY <1>0, <1>1 DEF Typed
<1>4. outbox' \subseteq 1 .. lastId'
  BY <1>0, <1>1, <1>3 DEF Typed
<1>5. Typed'
  BY <1>0, <1>1, <1>2, <1>3, <1>4 DEF Typed
<1>6. EndedInv'
  BY <1>0, <1>1, <1>2 DEF EndedInv
<1>7. ASSUME NEW id, InFront(id) PROVE InFront(id)'
  BY <1>1, <1>3, <1>7 DEF InFront
<1>8. WireInv' /\ SettledInv'
  BY <1>0, <1>1, <1>7 DEF WireInv, SettledInv, Settled
<1>9. HeldInv'
  BY <1>0, <1>1, <1>3 DEF HeldInv, Settled
<1>10. AckInv' /\ EraseInv'
  BY <1>0, <1>1, <1>2 DEF AckInv, EraseInv, Settled
<1> QED
  BY <1>5, <1>6, <1>8, <1>9, <1>10 DEF IInv

\* flushOutbox sends the oldest row, which is in front of all others.
LEMMA DoFlushPreserves ==
    ASSUME IInv, NEW p \in Processes, DoFlush(p)
    PROVE  IInv'
<1>0. Typed /\ EndedInv /\ WireInv /\ AckInv
  BY DEF IInv
<1>1. /\ UNCHANGED <<outbox, lastId, state, link, acks, stored, refused>>
      /\ todo[p] # << >> /\ Continues(p)
  BY DEF DoFlush, Begins, tableVars, serverVars
<1>2. /\ todo' \in [Processes -> Seq(Statement)]
      /\ \A q \in Processes : todo[q] = << >> => todo'[q] = << >>
      /\ \A q \in Processes : \A i \in DOMAIN todo'[q] :
            todo'[q][i].op = "erase" => todo'[q][i].id \in Settled
  BY <1>1, ContinuesTyped
<1>3. sent' \in [Processes -> SUBSET Ids] /\ WireInv'
  <2>1. CASE UNCHANGED sent
    BY <1>0, <1>1, <2>1 DEF Typed, WireInv, InFront
  <2>2. CASE \E id \in outbox : Oldest(id) /\ sent' = [sent EXCEPT ![p] = @ \cup {id}]
    <3>1. PICK id \in outbox : Oldest(id) /\ sent' = [sent EXCEPT ![p] = @ \cup {id}]
      BY <2>2
    <3>2. id \in Ids /\ InFront(id)
      BY <1>0, <3>1 DEF Typed, Ids, InFront, Oldest
    <3>3. \A q \in Processes : sent'[q] \subseteq sent[q] \cup {id}
      BY <1>0, <3>1 DEF Typed
    <3>4. sent' \in [Processes -> SUBSET Ids]
      BY <1>0, <3>1, <3>2 DEF Typed
    <3> QED
      BY <1>0, <1>1, <3>2, <3>3, <3>4 DEF WireInv, InFront
  <2> QED
    BY <2>1, <2>2 DEF DoFlush
<1>4. Typed'
  BY <1>0, <1>1, <1>2, <1>3 DEF Typed
<1>5. EndedInv' /\ AckInv' /\ EraseInv'
  BY <1>0, <1>1, <1>2 DEF EndedInv, AckInv, EraseInv, Settled
<1> QED
  BY <1>1, <1>3, <1>4, <1>5, TablesKept DEF IInv

\* erase takes off a row that was dealt with.
LEMMA DoErasePreserves ==
    ASSUME IInv, NEW p \in Processes, DoErase(p)
    PROVE  IInv'
<1>0. Typed /\ EndedInv /\ WireInv /\ SettledInv /\ HeldInv /\ AckInv /\ EraseInv
  BY DEF IInv
<1>1. /\ outbox' = outbox \ {Head(todo[p]).id}
      /\ UNCHANGED <<lastId, state, link, sent, acks, stored, refused>>
      /\ todo[p] # << >> /\ Head(todo[p]).op = "erase" /\ Continues(p)
  BY DEF DoErase, Begins, serverVars
<1>2. /\ todo' \in [Processes -> Seq(Statement)]
      /\ \A q \in Processes : todo[q] = << >> => todo'[q] = << >>
      /\ \A q \in Processes : \A i \in DOMAIN todo'[q] :
            todo'[q][i].op = "erase" => todo'[q][i].id \in Settled
  BY <1>1, ContinuesTyped
<1>3. Head(todo[p]).id \in Settled
  <2>1. todo[p] \in Seq(Statement)
    BY <1>0 DEF Typed
  <2>2. 1 \in DOMAIN todo[p] /\ Head(todo[p]) = todo[p][1]
    BY <1>1, <2>1
  <2> QED
    BY <1>0, <1>1, <2>2 DEF EraseInv
<1>4. Typed' /\ EndedInv'
  BY <1>0, <1>1, <1>2 DEF Typed, EndedInv
<1>5. WireInv' /\ SettledInv'
  BY <1>0, <1>1 DEF WireInv, SettledInv, InFront, Settled
<1>6. HeldInv'
  BY <1>0, <1>1, <1>3 DEF HeldInv, Settled
<1>7. AckInv' /\ EraseInv'
  BY <1>0, <1>1, <1>2 DEF AckInv, EraseInv, Settled
<1> QED
  BY <1>4, <1>5, <1>6, <1>7 DEF IInv

\* The server deals with a snapshot that is in front of every row.
LEMMA HandleMetricsPreserves ==
    ASSUME IInv, NEW p \in Processes, HandleMetrics(p)
    PROVE  IInv'
<1>0. Typed /\ EndedInv /\ WireInv /\ SettledInv /\ HeldInv /\ AckInv /\ EraseInv
  BY DEF IInv
<1>1. PICK id \in sent[p] :
          /\ \/ stored' = stored \cup {id} /\ UNCHANGED refused
             \/ refused' = refused \cup {id} /\ UNCHANGED stored
          /\ \/ UNCHANGED acks
             \/ link[p] # "unconnected" /\ acks' = [acks EXCEPT ![p] = @ \cup {id}]
  BY DEF HandleMetrics
<1>2. UNCHANGED <<outbox, lastId, state, link, todo, sent>>
  BY DEF HandleMetrics, tableVars
<1>3. id \in Ids /\ InFront(id)
  BY <1>0 DEF Typed, WireInv
<1>4. Settled' = Settled \cup {id}
  BY <1>1 DEF Settled
<1>5. /\ acks' \in [Processes -> SUBSET Ids]
      /\ \A q \in Processes : acks'[q] \subseteq acks[q] \cup {id}
      /\ \A q \in Processes : link[q] = "unconnected" => acks'[q] = acks[q]
  <2>1. acks \in [Processes -> SUBSET Ids]
    BY <1>0 DEF Typed
  <2>2. CASE acks' = acks
    BY <2>1, <2>2
  <2>3. CASE link[p] # "unconnected" /\ acks' = [acks EXCEPT ![p] = @ \cup {id}]
    BY <1>3, <2>1, <2>3
  <2> QED
    BY <1>1, <2>2, <2>3
<1>6. Typed'
  BY <1>0, <1>1, <1>2, <1>3, <1>5 DEF Typed
<1>7. EndedInv'
  BY <1>0, <1>2, <1>5 DEF EndedInv
<1>8. WireInv' /\ SettledInv'
  BY <1>0, <1>2, <1>3, <1>4 DEF WireInv, SettledInv, InFront
<1>9. HeldInv' /\ AckInv' /\ EraseInv'
  BY <1>0, <1>2, <1>4, <1>5 DEF HeldInv, AckInv, EraseInv
<1> QED
  BY <1>6, <1>7, <1>8, <1>9 DEF IInv

\* What connects, disconnects and logs in leaves the outbox, the slots and the
\* server alone.
LEMMA ConnectionPreserves ==
    ASSUME IInv, NEW p \in Processes,
           \/ Connect(p) \/ DisconnectFromServer(p) \/ OnDisconnected(p)
           \/ OnLoginResponse(p) \/ Start(p)
    PROVE  IInv'
<1>0. Typed /\ EndedInv /\ WireInv /\ AckInv /\ EraseInv
  BY DEF IInv
<1>1. UNCHANGED <<outbox, lastId, todo, sent, stored, refused>>
  BY DEF Connect, DisconnectFromServer, OnDisconnected, OnLoginResponse, Start, tableVars,
         serverVars
<1>2. /\ acks' \in [Processes -> SUBSET Ids]
      /\ \A q \in Processes : acks'[q] \subseteq acks[q]
  BY <1>0 DEF Typed, Connect, DisconnectFromServer, OnDisconnected, OnLoginResponse, Start
<1>3. Typed' /\ EndedInv'
  <2>1. CASE Connect(p)
    BY <1>0, <1>1, <2>1 DEF Typed, EndedInv, Connect, Idle
  <2>2. CASE DisconnectFromServer(p)
    BY <1>0, <1>1, <2>2 DEF Typed, EndedInv, DisconnectFromServer, Idle
  <2>3. CASE OnDisconnected(p)
    BY <1>0, <1>1, <2>3 DEF Typed, EndedInv, OnDisconnected, Idle
  <2>4. CASE OnLoginResponse(p)
    BY <1>0, <1>1, <2>4 DEF Typed, EndedInv, OnLoginResponse, Idle
  <2>5. CASE Start(p)
    BY <1>0, <1>1, <2>5 DEF Typed, EndedInv, Start
  <2> QED
    BY <2>1, <2>2, <2>3, <2>4, <2>5
<1>4. WireInv' /\ AckInv' /\ EraseInv'
  BY <1>0, <1>1, <1>2 DEF WireInv, AckInv, EraseInv, InFront, Settled
<1> QED
  BY <1>1, <1>3, <1>4, TablesKept DEF IInv

\* A process ends, or ends and is started twice.
LEMMA EndPreserves ==
    ASSUME IInv, NEW p \in Processes, End(p) \/ OnRestartCommand(p)
    PROVE  IInv'
<1>0. Typed /\ EndedInv /\ WireInv /\ AckInv /\ EraseInv
  BY DEF IInv
<1>1. /\ UNCHANGED <<outbox, lastId, sent, stored, refused>>
      /\ link' = [link EXCEPT ![p] = "unconnected"]
      /\ todo' = [todo EXCEPT ![p] = << >>]
      /\ acks' = [acks EXCEPT ![p] = {}]
  BY DEF End, OnRestartCommand, Gone, tableVars, serverVars
<1>2. PICK q \in Processes :
          /\ state' \in {[state EXCEPT ![p] = "ended"],
                         [state EXCEPT ![p] = "started", ![q] = "started"]}
  BY DEF End, OnRestartCommand
<1>3. << >> \in Seq(Statement) /\ DOMAIN << >> = {}
  OBVIOUS
<1>4. /\ state' \in [Processes -> {"ended", "started", "collecting"}]
      /\ \A r \in Processes : r # p /\ state'[r] = "ended" => state[r] = "ended"
  BY <1>0, <1>2 DEF Typed
<1>5. \A r \in Processes : /\ todo'[r] = IF r = p THEN << >> ELSE todo[r]
                           /\ link'[r] = IF r = p THEN "unconnected" ELSE link[r]
                           /\ acks'[r] = IF r = p THEN {} ELSE acks[r]
  BY <1>0, <1>1 DEF Typed
<1>6. Typed'
  BY <1>0, <1>1, <1>3, <1>4 DEF Typed
<1>7. EndedInv'
  BY <1>0, <1>4, <1>5 DEF EndedInv
<1>8. EraseInv'
  BY <1>0, <1>1, <1>3, <1>5 DEF EraseInv, Settled
<1>9. WireInv' /\ AckInv'
  BY <1>0, <1>1, <1>5 DEF WireInv, AckInv, InFront, Settled
<1> QED
  BY <1>1, <1>6, <1>7, <1>8, <1>9, TablesKept DEF IInv

LEMMA StepPreserves == IInv /\ [Next]_vars => IInv'
<1> SUFFICES ASSUME IInv, [Next]_vars PROVE IInv'
  OBVIOUS
<1>1. CASE UNCHANGED vars
  BY <1>1 DEF vars, IInv, Typed, EndedInv, WireInv, SettledInv, HeldInv, AckInv, EraseInv,
              InFront, Settled
<1>2. CASE Next
  <2>1. PICK p \in Processes :
            \/ OnSnapshotFromWorker(p) \/ ReadAck(p)
            \/ DoEnqueue(p) \/ DoFlush(p) \/ DoErase(p) \/ HandleMetrics(p)
            \/ Connect(p) \/ DisconnectFromServer(p) \/ OnDisconnected(p)
            \/ OnLoginResponse(p) \/ Start(p)
            \/ End(p) \/ OnRestartCommand(p)
    BY <1>2 DEF Next
  <2> QED
    BY <2>1, SlotBegins, DoEnqueuePreserves, DoFlushPreserves, DoErasePreserves,
       HandleMetricsPreserves, ConnectionPreserves, EndPreserves
<1> QED
  BY <1>1, <1>2

-----------------------------------------------------------------------------
(* What follows.                                                           *)

\* The inductive invariant: rows that were sent or dealt with are in front of
\* all others, and what an ACK or an erase names was dealt with.
THEOREM Invariance == Spec => []IInv
  BY InitEstablishes, StepPreserves, PTL DEF Spec

\* A slot of SyncService runs only in a process that is there, and ACKs come
\* only on a connection, for any number of processes.
THEOREM TypeCorrect == Spec => []TypeOK
<1>1. IInv => TypeOK
  BY DEF IInv, Typed, EndedInv, TypeOK
<1> QED
  BY <1>1, Invariance, PTL

\* The sessions deal with no snapshot before an earlier one, however many
\* processes flush and erase the same table.
THEOREM OrderKept == Spec => []SettledInOrder
<1>1. ASSUME IInv PROVE SettledInOrder
  <2>0. Typed /\ SettledInv /\ HeldInv
    BY <1>1 DEF IInv
  <2> SUFFICES ASSUME NEW s \in Settled, NEW t \in 1 .. s, t \notin Settled PROVE FALSE
    BY DEF SettledInOrder, Settled
  <2>1. s \in 1 .. lastId /\ \A o \in outbox : s <= o
    BY <2>0 DEF SettledInv, InFront
  <2>2. t \in outbox /\ t # s
    BY <2>0, <2>1 DEF Typed, HeldInv
  <2> QED
    BY <2>0, <2>1, <2>2 DEF Typed
<1> QED
  BY <1>1, Invariance, PTL

\* A step of the processes and the server is a step of SnapshotDelivery, or none.
LEMMA StepRefines == IInv /\ [Next]_vars => [Delivery!Next]_(Delivery!vars)
<1> SUFFICES ASSUME IInv, [Next]_vars
             PROVE  Delivery!Next \/ UNCHANGED <<lastId, outbox, stored, refused>>
  BY DEF Delivery!vars
<1>0. Typed /\ WireInv /\ SettledInv /\ EraseInv
  BY DEF IInv
<1>1. CASE UNCHANGED vars
  BY <1>1 DEF vars
<1>2. ASSUME NEW p \in Processes, DoEnqueue(p) PROVE Delivery!Accept
  BY <1>2 DEF DoEnqueue, NextRowId, serverVars, Delivery!Accept
<1>3. ASSUME NEW p \in Processes, DoErase(p)
      PROVE  Delivery!Next \/ UNCHANGED <<lastId, outbox, stored, refused>>
  <2> DEFINE id == Head(todo[p]).id
  <2>1. /\ outbox' = outbox \ {id} /\ UNCHANGED <<lastId, stored, refused>>
        /\ todo[p] # << >> /\ Head(todo[p]).op = "erase"
    BY <1>3 DEF DoErase, Begins, serverVars
  <2>2. id \in Settled
    <3>1. todo[p] \in Seq(Statement)
      BY <1>0 DEF Typed
    <3>2. 1 \in DOMAIN todo[p] /\ Head(todo[p]) = todo[p][1]
      BY <2>1, <3>1
    <3> QED
      BY <1>0, <2>1, <3>2 DEF EraseInv
  <2> HIDE DEF id
  <2>3. id \in 1 .. lastId /\ \A o \in outbox : id <= o
    BY <1>0, <2>2 DEF SettledInv, InFront
  <2>4. CASE id \in outbox
    <3>1. Delivery!Release(id)
      BY <2>1, <2>2, <2>3, <2>4 DEF Delivery!Release, Settled
    <3> QED
      BY <2>3, <3>1 DEF Delivery!Next
  <2>5. CASE id \notin outbox
    BY <2>1, <2>5
  <2> QED
    BY <2>4, <2>5
<1>4. ASSUME NEW p \in Processes, HandleMetrics(p) PROVE Delivery!Next
  <2>1. PICK id \in sent[p] : \/ stored' = stored \cup {id} /\ UNCHANGED refused
                              \/ refused' = refused \cup {id} /\ UNCHANGED stored
    BY <1>4 DEF HandleMetrics
  <2>2. id \in 1 .. lastId /\ UNCHANGED <<lastId, outbox>>
    BY <1>0, <1>4 DEF WireInv, InFront, HandleMetrics, tableVars
  <2>3. Delivery!Store(id) \/ Delivery!Refuse(id)
    BY <2>1, <2>2 DEF Delivery!Store, Delivery!Refuse
  <2> QED
    BY <2>2, <2>3 DEF Delivery!Next
<1>5. ASSUME NEW p \in Processes,
             \/ OnSnapshotFromWorker(p) \/ ReadAck(p) \/ DoFlush(p)
             \/ Connect(p) \/ DisconnectFromServer(p) \/ OnDisconnected(p)
             \/ OnLoginResponse(p) \/ Start(p) \/ End(p) \/ OnRestartCommand(p)
      PROVE  UNCHANGED <<lastId, outbox, stored, refused>>
  BY <1>5 DEF OnSnapshotFromWorker, ReadAck, DoFlush, Connect, DisconnectFromServer,
              OnDisconnected, OnLoginResponse, Start, End, OnRestartCommand, tableVars,
              serverVars
<1> QED
  BY <1>1, <1>2, <1>3, <1>4, <1>5 DEF Next, Delivery!Next

\* Any number of client processes with one outbox file, which end and start at
\* any statement, implement the delivery of snapshots.
THEOREM Refinement == Spec => ImplementsDelivery
<1>1. Init => Delivery!Init
  BY DEF Init, Delivery!Init
<1> QED
  BY <1>1, Invariance, StepRefines, PTL DEF Spec, ImplementsDelivery, Delivery!Spec
=============================================================================
