------------------------- MODULE SessionStrandProofs -------------------------
(***************************************************************************)
(* Proofs about SessionStrand, for any number of sessions and of lines.    *)
(***************************************************************************)
EXTENDS SessionStrand, FiniteSetTheorems, FunctionTheorems, TLAPS

-----------------------------------------------------------------------------
(* Handlers of some kinds in a strand.                                     *)

Positions(q, ops) == {i \in DOMAIN q : q[i].op \in ops}
Count(q, ops) == Cardinality(Positions(q, ops))

LEMMA CountIsNat ==
    ASSUME NEW q \in Seq(Handler), NEW ops
    PROVE  IsFiniteSet(Positions(q, ops)) /\ Count(q, ops) \in Nat
<1>1. IsFiniteSet(1 .. Len(q))
  BY FS_Interval
<1>2. Positions(q, ops) \subseteq 1 .. Len(q)
  BY DEF Positions
<1>3. IsFiniteSet(Positions(q, ops))
  BY <1>1, <1>2, FS_Subset
<1> QED
  BY <1>3, FS_CardinalityType DEF Count

LEMMA CountEmpty == \A ops : Count(<< >>, ops) = 0
<1>1. \A ops : Positions(<< >>, ops) = {}
  BY DEF Positions
<1> QED
  BY <1>1, FS_EmptySet DEF Count

\* A handler is posted.
LEMMA CountAppend ==
    ASSUME NEW q \in Seq(Handler), NEW h \in Handler, NEW ops
    PROVE  Count(Append(q, h), ops) = Count(q, ops) + (IF h.op \in ops THEN 1 ELSE 0)
<1>1. /\ Len(q) \in Nat
      /\ DOMAIN Append(q, h) = DOMAIN q \cup {Len(q) + 1}
      /\ \A i \in DOMAIN q : Append(q, h)[i] = q[i]
      /\ Append(q, h)[Len(q) + 1] = h
      /\ Len(q) + 1 \notin DOMAIN q
  OBVIOUS
<1>2. Positions(Append(q, h), ops) =
          Positions(q, ops) \cup (IF h.op \in ops THEN {Len(q) + 1} ELSE {})
  BY <1>1 DEF Positions
<1>3. Len(q) + 1 \notin Positions(q, ops)
  BY <1>1 DEF Positions
<1>4. IsFiniteSet(Positions(q, ops)) /\ Count(q, ops) \in Nat
  BY CountIsNat
<1>5. CASE h.op \in ops
  <2>1. Positions(Append(q, h), ops) = Positions(q, ops) \cup {Len(q) + 1}
    BY <1>2, <1>5
  <2> QED
    BY <1>3, <1>4, <1>5, <2>1, FS_AddElement DEF Count
<1>6. CASE h.op \notin ops
  <2>1. Positions(Append(q, h), ops) = Positions(q, ops)
    BY <1>2, <1>6
  <2> QED
    BY <1>4, <1>6, <2>1 DEF Count
<1> QED
  BY <1>5, <1>6

\* The strand runs a handler.
LEMMA CountTail ==
    ASSUME NEW q \in Seq(Handler), q # << >>, NEW ops
    PROVE  Count(q, ops) = Count(Tail(q), ops) + (IF Head(q).op \in ops THEN 1 ELSE 0)
<1> DEFINE P == Positions(q, ops)
           T == Positions(Tail(q), ops)
           shift == [i \in T |-> i + 1]
<1>1. /\ Len(q) \in Nat \ {0}
      /\ Tail(q) \in Seq(Handler) /\ DOMAIN Tail(q) = 1 .. Len(q) - 1
      /\ \A i \in 1 .. Len(q) - 1 : Tail(q)[i] = q[i + 1]
      /\ Head(q) = q[1]
  OBVIOUS
<1>2. T = {i \in 1 .. Len(q) - 1 : q[i + 1].op \in ops}
  BY <1>1 DEF Positions
<1>3. P = {i \in 1 .. Len(q) : q[i].op \in ops}
  BY DEF Positions
<1>4. shift \in Bijection(T, P \ {1})
  <2>1. shift \in [T -> P \ {1}]
    BY <1>1, <1>2, <1>3
  <2>2. \A i, j \in T : shift[i] = shift[j] => i = j
    BY <1>1, <1>2
  <2>3. \A k \in P \ {1} : \E i \in T : shift[i] = k
    <3> SUFFICES ASSUME NEW k \in P \ {1} PROVE \E i \in T : shift[i] = k
      OBVIOUS
    <3>1. k - 1 \in T
      BY <1>1, <1>2, <1>3
    <3>2. shift[k - 1] = k
      BY <1>3, <3>1
    <3> QED
      BY <3>1, <3>2
  <2> QED
    BY <2>1, <2>2, <2>3, Fun_IsBij
<1>5. IsFiniteSet(P) /\ IsFiniteSet(T) /\ Cardinality(P) \in Nat
  BY <1>1, CountIsNat DEF Count
<1>6. Cardinality(T) = Cardinality(P \ {1})
  BY <1>4, <1>5, FS_Bijection DEF ExistsBijection
<1>7. Cardinality(P) = Cardinality(P \ {1}) + (IF 1 \in P THEN 1 ELSE 0)
  <2> HIDE DEF P
  <2>1. CASE 1 \in P
    <3>1. Cardinality(P \ {1}) = Cardinality(P) - 1
      BY <1>5, <2>1, FS_RemoveElement
    <3> QED
      BY <1>5, <2>1, <3>1
  <2>2. CASE 1 \notin P
    <3>1. P \ {1} = P
      BY <2>2
    <3>2. Cardinality(P \ {1}) = Cardinality(P)
      BY <3>1
    <3>3. Cardinality(P) \in Nat
      BY <1>5
    <3> QED
      BY <2>2, <3>2, <3>3
  <2> QED
    BY <2>1, <2>2
<1>8. 1 \in P <=> Head(q).op \in ops
  BY <1>1, <1>3
<1> QED
  BY <1>6, <1>7, <1>8 DEF Count

-----------------------------------------------------------------------------
(* The inductive invariant.                                                *)

WriteOps == {"written", "writeError"}
ReadOps == {"read", "readError"}

Writing(s) == writes[s] + Count(strand[s], WriteOps)
Reading(s) ==
    reads[s] + Count(strand[s], ReadOps) + (IF pc[s] = "deliver" THEN 1 ELSE 0)

\* The type invariant, but for the bounds on the operations of a socket.
Typed ==
    /\ phase \in [Sessions -> {"closed", "created", "joined", "started"}]
    /\ registry \subseteq Sessions
    /\ strand \in [Sessions -> Seq(Handler)]
    /\ pc \in [Sessions -> {"idle", "deliver", "leave"}]
    /\ targets \in [Sessions -> SUBSET Sessions]
    /\ reads \in [Sessions -> Nat]
    /\ writes \in [Sessions -> Nat]
    /\ outgoing \in [Sessions -> Seq(Message)]
    /\ stopped \in [Sessions -> BOOLEAN]
    /\ isAdmin \in [Sessions -> BOOLEAN]
    /\ lines \in [Sessions -> Nat] /\ \A s \in Sessions : lines[s] <= LineBudget[s]
    /\ wire \in [Sessions -> Seq(Message)]
    /\ up \in BOOLEAN

\* One write chain, and one read chain, per session: an operation that is
\* outstanding or the handler of its completion.  The write chain is there just
\* while m_outgoing holds something, until the session stops; the read chain
\* from start() on, until then.
Local(s) ==
    /\ Writing(s) <= 1
    /\ Writing(s) = 1 => outgoing[s] # << >>
    /\ outgoing[s] # << >> /\ ~stopped[s] => Writing(s) = 1
    /\ Reading(s) <= 1
    /\ phase[s] = "started" /\ ~stopped[s] => Reading(s) = 1
    /\ phase[s] # "started" => Reading(s) = 0
    /\ phase[s] \in {"closed", "created"} =>
           strand[s] = << >> /\ pc[s] = "idle" /\ ~stopped[s] /\ outgoing[s] = << >>
    /\ pc[s] = "leave" => stopped[s]

LocalInv == \A s \in Sessions : Local(s)

\* A broadcast gathered sessions that joined.
TargetInv ==
    \A s \in Sessions : \A t \in targets[s] : phase[t] \in {"joined", "started"}

\* Who is in the registry.
Member(s) ==
    /\ phase[s] \in {"joined", "started"}
    /\ ~stopped[s] \/ pc[s] = "leave"
RegistryInv == up => \A s \in Sessions : s \in registry <=> Member(s)

IInv == Typed /\ LocalInv /\ TargetInv /\ RegistryInv

-----------------------------------------------------------------------------
(* What the strands hold.                                                  *)

LEMMA HandlerFacts ==
    /\ \A s \in Sessions : lines[s] \in Nat =>
           Caused(s) \in Message /\ [op |-> "send", msg |-> Caused(s)] \in Handler
    /\ \A line \in Lines : [op |-> "read", line |-> line] \in Handler
    /\ \A op \in {"readError", "written", "writeError"} : [op |-> op] \in Handler
    /\ \A h \in Handler : h.op = "send" => h.msg \in Message
  BY DEF Handler, Message, Caused

\* The chains of a session are numbers.
LEMMA ChainsAreNat ==
    ASSUME Typed, NEW s \in Sessions
    PROVE  /\ Writing(s) \in Nat /\ Reading(s) \in Nat
           /\ writes[s] <= Writing(s) /\ reads[s] <= Reading(s)
           /\ Count(strand[s], WriteOps) \in Nat /\ Count(strand[s], ReadOps) \in Nat
<1>1. writes[s] \in Nat /\ reads[s] \in Nat /\ strand[s] \in Seq(Handler)
  BY DEF Typed
<1>2. Count(strand[s], WriteOps) \in Nat /\ Count(strand[s], ReadOps) \in Nat
  BY <1>1, CountIsNat
<1> QED
  BY <1>1, <1>2 DEF Writing, Reading

\* A strand that runs a handler takes it off.
LEMMA Runs1 ==
    ASSUME Typed, NEW s \in Sessions, strand[s] # << >>
    PROVE  /\ Head(strand[s]) \in Handler /\ Tail(strand[s]) \in Seq(Handler)
           /\ Count(Tail(strand[s]), WriteOps) \in Nat
           /\ Count(Tail(strand[s]), ReadOps) \in Nat
           /\ Count(strand[s], WriteOps) = Count(Tail(strand[s]), WriteOps)
                  + (IF Head(strand[s]).op \in WriteOps THEN 1 ELSE 0)
           /\ Count(strand[s], ReadOps) = Count(Tail(strand[s]), ReadOps)
                  + (IF Head(strand[s]).op \in ReadOps THEN 1 ELSE 0)
<1>1. strand[s] \in Seq(Handler)
  BY DEF Typed
<1>2. Head(strand[s]) \in Handler /\ Tail(strand[s]) \in Seq(Handler)
  BY <1>1
<1> QED
  BY <1>1, <1>2, CountIsNat, CountTail

\* Nothing a session's own invariant speaks of has changed.
LEMMA Frame ==
    ASSUME NEW t, Local(t),
           phase'[t] = phase[t], strand'[t] = strand[t], pc'[t] = pc[t],
           reads'[t] = reads[t], writes'[t] = writes[t],
           outgoing'[t] = outgoing[t], stopped'[t] = stopped[t]
    PROVE  Local(t)'
  BY DEF Local, Writing, Reading

-----------------------------------------------------------------------------
(* Each action keeps the invariant of the session it is of.                *)

LEMMA AcceptThreadLocal ==
    ASSUME Typed, NEW s \in Sessions, Local(s),
           Accept(s) \/ Join(s) \/ StartReading(s)
    PROVE  Local(s)'
<1>1. phase[s] \in {"closed", "created", "joined", "started"} /\ reads[s] \in Nat
  BY DEF Typed
<1>2. /\ strand' = strand /\ pc' = pc /\ writes' = writes
      /\ outgoing' = outgoing /\ stopped' = stopped
  BY DEF Accept, Join, StartReading, handlerVars, ioVars, sessionVars
<1>3. Writing(s)' = Writing(s)
  BY <1>2 DEF Writing
<1>4. CASE Accept(s) \/ Join(s)
  <2>1. reads' = reads
    BY <1>4 DEF Accept, Join, ioVars
  <2>2. Reading(s)' = Reading(s)
    BY <1>2, <2>1 DEF Reading
  <2>3. phase'[s] = phase[s] \/ (phase[s] \in {"closed", "created"} /\ phase'[s] # "started")
    BY <1>1, <1>4 DEF Accept, Join, Typed
  <2>4. phase'[s] \in {"closed", "created"} => phase[s] \in {"closed", "created"}
    BY <1>1, <1>4 DEF Accept, Join, Typed
  <2> QED
    BY <1>1, <1>2, <1>3, <2>2, <2>3, <2>4 DEF Local
<1>5. CASE StartReading(s)
  <2>1. /\ phase[s] = "joined" /\ phase'[s] = "started"
        /\ reads'[s] = reads[s] + 1
    BY <1>5 DEF StartReading, Typed
  <2>2. Reading(s) = 0 /\ Count(strand[s], ReadOps) \in Nat
    BY <2>1, ChainsAreNat DEF Local
  <2>3. Reading(s)' = 1
    BY <1>1, <1>2, <2>1, <2>2 DEF Reading
  <2> QED
    BY <1>2, <1>3, <2>1, <2>3 DEF Local
<1> QED
  BY <1>4, <1>5

\* A read ends, and its handler is posted.
LEMMA ReadEndsLocal ==
    ASSUME Typed, NEW s \in Sessions, Local(s), ReadCompletes(s) \/ ReadFails(s)
    PROVE  Local(s)'
<1>1. strand[s] \in Seq(Handler) /\ reads[s] \in Nat
  BY DEF Typed
<1>2. /\ reads[s] > 0 /\ reads'[s] = reads[s] - 1
      /\ phase' = phase /\ pc' = pc /\ writes' = writes
      /\ outgoing' = outgoing /\ stopped' = stopped
  BY DEF ReadCompletes, ReadFails, Typed, acceptVars, handlerVars, sessionVars
<1>3. PICK h \in Handler : strand'[s] = Append(strand[s], h) /\ h.op \in ReadOps
  <2>1. CASE ReadCompletes(s)
    <3>1. PICK line \in Lines :
              strand'[s] = Append(strand[s], [op |-> "read", line |-> line])
      BY <2>1 DEF ReadCompletes, Typed
    <3> QED
      BY <3>1, HandlerFacts DEF ReadOps
  <2>2. CASE ReadFails(s)
    <3>1. strand'[s] = Append(strand[s], [op |-> "readError"])
      BY <2>2 DEF ReadFails, Typed
    <3> QED
      BY <3>1, HandlerFacts DEF ReadOps
  <2> QED
    BY <2>1, <2>2
<1>4. h.op \notin WriteOps
  BY <1>3 DEF ReadOps, WriteOps
<1>5. /\ Count(strand'[s], ReadOps) = Count(strand[s], ReadOps) + 1
      /\ Count(strand'[s], WriteOps) = Count(strand[s], WriteOps)
  <2>1. Count(strand[s], WriteOps) \in Nat
    BY ChainsAreNat
  <2> QED
    BY <1>1, <1>3, <1>4, <2>1, CountAppend
<1>6. Writing(s)' = Writing(s)
  BY <1>2, <1>5 DEF Writing
<1>7. Reading(s)' = Reading(s)
  <2>1. Count(strand[s], ReadOps) \in Nat
    BY ChainsAreNat
  <2> QED
    BY <1>1, <1>2, <1>5, <2>1 DEF Reading
<1>8. Reading(s) > 0
  BY <1>1, <1>2, ChainsAreNat
<1>9. phase[s] = "started"
  BY <1>8 DEF Local
<1> QED
  BY <1>2, <1>6, <1>7, <1>9 DEF Local

\* A write ends, and its handler is posted.
LEMMA WriteEndsLocal ==
    ASSUME Typed, NEW s \in Sessions, Local(s), WriteCompletes(s) \/ WriteFails(s)
    PROVE  Local(s)'
<1>1. strand[s] \in Seq(Handler) /\ writes[s] \in Nat
  BY DEF Typed
<1>2. /\ writes[s] > 0 /\ writes'[s] = writes[s] - 1
      /\ phase' = phase /\ pc' = pc /\ reads' = reads
      /\ outgoing' = outgoing /\ stopped' = stopped
  BY DEF WriteCompletes, WriteFails, Typed, acceptVars, handlerVars, sessionVars
<1>3. PICK h \in Handler : strand'[s] = Append(strand[s], h) /\ h.op \in WriteOps
  <2>1. CASE WriteCompletes(s)
    <3>1. strand'[s] = Append(strand[s], [op |-> "written"])
      BY <2>1 DEF WriteCompletes, Typed
    <3> QED
      BY <3>1, HandlerFacts DEF WriteOps
  <2>2. CASE WriteFails(s)
    <3>1. strand'[s] = Append(strand[s], [op |-> "writeError"])
      BY <2>2 DEF WriteFails, Typed
    <3> QED
      BY <3>1, HandlerFacts DEF WriteOps
  <2> QED
    BY <2>1, <2>2
<1>4. h.op \notin ReadOps
  BY <1>3 DEF ReadOps, WriteOps
<1>5. /\ Count(strand'[s], WriteOps) = Count(strand[s], WriteOps) + 1
      /\ Count(strand'[s], ReadOps) = Count(strand[s], ReadOps)
  <2>1. Count(strand[s], ReadOps) \in Nat
    BY ChainsAreNat
  <2> QED
    BY <1>1, <1>3, <1>4, <2>1, CountAppend
<1>6. Reading(s)' = Reading(s)
  BY <1>2, <1>5 DEF Reading
<1>7. Writing(s)' = Writing(s)
  <2>1. Count(strand[s], WriteOps) \in Nat
    BY ChainsAreNat
  <2> QED
    BY <1>1, <1>2, <1>5, <2>1 DEF Writing
<1>8. Writing(s) = 1
  BY <1>1, <1>2, ChainsAreNat DEF Local
<1>9. outgoing[s] # << >>
  BY <1>8 DEF Local
<1> QED
  BY <1>2, <1>6, <1>7, <1>9 DEF Local

\* A line is handled, or a broadcast returns: the next read begins.
LEMMA LineHandledLocal ==
    ASSUME Typed, NEW s \in Sessions, Local(s),
           HandleRequest(s) \/ IgnoreLine(s) \/ Gather(s)
    PROVE  Local(s)'
<1> DEFINE q == strand[s]
<1>1. /\ q # << >> /\ Head(q).op = "read" /\ pc[s] = "idle"
      /\ phase' = phase /\ writes' = writes
      /\ outgoing' = outgoing /\ stopped' = stopped
  BY DEF HandleRequest, IgnoreLine, Gather, Reads, Runs, acceptVars, ioVars, sessionVars
<1>2. /\ reads[s] \in Nat
      /\ Count(q, ReadOps) = Count(Tail(q), ReadOps) + 1
      /\ Count(q, WriteOps) = Count(Tail(q), WriteOps)
      /\ Tail(q) \in Seq(Handler)
      /\ Count(Tail(q), ReadOps) \in Nat /\ Count(Tail(q), WriteOps) \in Nat
  <2>1. reads[s] \in Nat
    BY DEF Typed
  <2>2. Head(q).op \in ReadOps /\ Head(q).op \notin WriteOps
    BY <1>1 DEF ReadOps, WriteOps
  <2> QED
    BY <1>1, <2>1, <2>2, Runs1
<1>3. /\ Count(strand'[s], ReadOps) = Count(Tail(q), ReadOps)
      /\ Count(strand'[s], WriteOps) = Count(Tail(q), WriteOps)
  <2>1. CASE HandleRequest(s)
    <3> DEFINE h == [op |-> "send", msg |-> Caused(s)]
    <3>1. strand'[s] = Append(Tail(q), h)
      BY <2>1 DEF HandleRequest, Typed
    <3>2. h \in Handler /\ h.op \notin ReadOps /\ h.op \notin WriteOps
      BY HandlerFacts DEF Typed, ReadOps, WriteOps
    <3> HIDE DEF h
    <3>3. /\ Count(Append(Tail(q), h), ReadOps) = Count(Tail(q), ReadOps) + 0
          /\ Count(Append(Tail(q), h), WriteOps) = Count(Tail(q), WriteOps) + 0
      BY <1>2, <3>2, CountAppend
    <3> QED
      BY <1>2, <3>1, <3>3
  <2>2. CASE IgnoreLine(s) \/ Gather(s)
    BY <2>2 DEF IgnoreLine, Gather, Typed
  <2> QED
    BY <2>1, <2>2
<1>4. Writing(s)' = Writing(s)
  BY <1>1, <1>2, <1>3 DEF Writing
<1>5. Reading(s)' = Reading(s)
  <2>1. CASE HandleRequest(s) \/ IgnoreLine(s)
    <3>1. reads'[s] = reads[s] + 1 /\ pc' = pc
      BY <2>1 DEF HandleRequest, IgnoreLine, handlerVars, Typed
    <3> QED
      BY <1>1, <1>2, <1>3, <3>1 DEF Reading
  <2>2. CASE Gather(s)
    <3>1. reads' = reads /\ pc'[s] = "deliver"
      BY <2>2 DEF Gather, ioVars, Typed
    <3> QED
      BY <1>1, <1>2, <1>3, <3>1 DEF Reading
  <2> QED
    BY <2>1, <2>2
<1>6. pc'[s] # "leave"
  BY <1>1 DEF HandleRequest, IgnoreLine, Gather, handlerVars, Typed
<1>7. phase[s] \notin {"closed", "created"}
  BY <1>1 DEF Local
<1> QED
  BY <1>1, <1>4, <1>5, <1>6, <1>7 DEF Local

\* deliver posts to any session's strand, and no session's chains change.
LEMMA DeliverLocal ==
    ASSUME Typed, LocalInv, TargetInv, NEW s \in Sessions, Deliver(s), NEW u \in Sessions
    PROVE  Local(u)'
<1> DEFINE h == [op |-> "send", msg |-> Caused(s)]
<1>1. /\ phase' = phase /\ pc' = pc /\ reads' = reads /\ writes' = writes
      /\ outgoing' = outgoing /\ stopped' = stopped
  BY DEF Deliver, acceptVars, ioVars, sessionVars
<1>2. PICK t \in targets[s] : strand' = [strand EXCEPT ![t] = Append(@, h)]
  BY DEF Deliver
<1>3. t \in Sessions /\ phase[t] \in {"joined", "started"}
  BY <1>2 DEF Typed, TargetInv
<1>4. h \in Handler /\ h.op \notin ReadOps /\ h.op \notin WriteOps
  BY HandlerFacts DEF Typed, ReadOps, WriteOps
<1> HIDE DEF h
<1>5. Local(u)
  BY DEF LocalInv
<1>6. CASE u # t
  <2>1. strand'[u] = strand[u]
    BY <1>2, <1>3, <1>6 DEF Typed
  <2> QED
    BY <1>1, <1>5, <2>1, Frame
<1>7. CASE u = t
  <2>1. strand[u] \in Seq(Handler) /\ strand'[u] = Append(strand[u], h)
    BY <1>2, <1>3, <1>7 DEF Typed
  <2>2. Count(strand[u], ReadOps) \in Nat /\ Count(strand[u], WriteOps) \in Nat
    BY ChainsAreNat
  <2>3. /\ Count(strand'[u], ReadOps) = Count(strand[u], ReadOps)
        /\ Count(strand'[u], WriteOps) = Count(strand[u], WriteOps)
    BY <1>4, <2>1, <2>2, CountAppend
  <2>4. Reading(u)' = Reading(u) /\ Writing(u)' = Writing(u)
    BY <1>1, <2>3 DEF Reading, Writing
  <2> QED
    BY <1>1, <1>3, <1>5, <1>7, <2>4 DEF Local
<1> QED
  BY <1>6, <1>7

LEMMA BroadcastDoneLocal ==
    ASSUME Typed, NEW s \in Sessions, Local(s), BroadcastDone(s)
    PROVE  Local(s)'
<1>1. /\ phase' = phase /\ strand' = strand /\ writes' = writes
      /\ outgoing' = outgoing /\ stopped' = stopped
      /\ pc[s] = "deliver" /\ pc'[s] = "idle" /\ reads'[s] = reads[s] + 1
      /\ reads[s] \in Nat
  BY DEF BroadcastDone, acceptVars, sessionVars, Typed
<1>2. Writing(s)' = Writing(s)
  BY <1>1 DEF Writing
<1>3. Reading(s)' = Reading(s)
  <2>1. Count(strand[s], ReadOps) \in Nat
    BY ChainsAreNat
  <2> QED
    BY <1>1, <2>1 DEF Reading
<1>4. phase[s] \notin {"closed", "created"}
  BY <1>1 DEF Local
<1> QED
  BY <1>1, <1>2, <1>3, <1>4 DEF Local

\* A message is queued, and the write chain begins if the queue was empty.
LEMMA SendLocal ==
    ASSUME Typed, NEW s \in Sessions, Local(s), Send(s)
    PROVE  Local(s)'
<1> DEFINE q == strand[s]
<1>1. /\ q # << >> /\ Head(q).op = "send"
      /\ phase' = phase /\ pc' = pc /\ reads' = reads /\ stopped' = stopped
      /\ strand'[s] = Tail(q) /\ outgoing'[s] = Append(outgoing[s], Head(q).msg)
      /\ writes'[s] = IF outgoing[s] = << >> /\ ~stopped[s] THEN writes[s] + 1 ELSE writes[s]
      /\ writes[s] \in Nat
  BY DEF Send, Runs, acceptVars, handlerVars, Typed
<1>2. /\ Count(q, ReadOps) = Count(Tail(q), ReadOps)
      /\ Count(q, WriteOps) = Count(Tail(q), WriteOps)
      /\ Count(Tail(q), WriteOps) \in Nat
      /\ Head(q) \in Handler
  BY <1>1, Runs1 DEF ReadOps, WriteOps
<1>3. Reading(s)' = Reading(s)
  BY <1>1, <1>2 DEF Reading
<1>4. Writing(s)' = IF outgoing[s] = << >> /\ ~stopped[s] THEN Writing(s) + 1 ELSE Writing(s)
  BY <1>1, <1>2 DEF Writing
<1>5. outgoing'[s] # << >>
  <2>1. Head(q).msg \in Message
    BY <1>1, <1>2, HandlerFacts
  <2>2. outgoing[s] \in Seq(Message)
    BY DEF Typed
  <2> QED
    BY <1>1, <2>1, <2>2
<1>6. phase[s] \notin {"closed", "created"}
  BY <1>1 DEF Local
<1>7. Writing(s) \in Nat
  BY ChainsAreNat
<1>8. outgoing[s] = << >> => Writing(s) = 0
  BY <1>7 DEF Local
<1>9. Writing(s)' <= 1 /\ (~stopped[s] => Writing(s)' = 1)
  BY <1>4, <1>7, <1>8 DEF Local
<1> QED
  BY <1>1, <1>3, <1>5, <1>6, <1>9 DEF Local

\* A write's handler: the write chain goes on while the queue holds more.
LEMMA WrittenLocal ==
    ASSUME Typed, NEW s \in Sessions, Local(s), Written(s)
    PROVE  Local(s)'
<1> DEFINE q == strand[s]
           more == Tail(outgoing[s]) # << >> /\ ~stopped[s]
<1>1. /\ q # << >> /\ Head(q).op = "written"
      /\ phase' = phase /\ pc' = pc /\ reads' = reads /\ stopped' = stopped
      /\ strand'[s] = Tail(q) /\ outgoing'[s] = Tail(outgoing[s])
      /\ writes'[s] = IF more THEN writes[s] + 1 ELSE writes[s]
      /\ writes[s] \in Nat
  BY DEF Written, Runs, acceptVars, handlerVars, Typed
<1>2. /\ Count(q, ReadOps) = Count(Tail(q), ReadOps)
      /\ Count(q, WriteOps) = Count(Tail(q), WriteOps) + 1
      /\ Count(Tail(q), WriteOps) \in Nat
  <2>1. "written" \notin ReadOps /\ "written" \in WriteOps
    BY DEF ReadOps, WriteOps
  <2>2. /\ Count(q, ReadOps) = Count(Tail(q), ReadOps) + 0
        /\ Count(q, WriteOps) = Count(Tail(q), WriteOps) + 1
        /\ Count(Tail(q), WriteOps) \in Nat /\ Count(Tail(q), ReadOps) \in Nat
    BY <1>1, <2>1, Runs1
  <2> HIDE DEF q
  <2> QED
    BY <2>2
<1>3. Reading(s)' = Reading(s)
  BY <1>1, <1>2 DEF Reading
<1>4. Writing(s) = 1 /\ Writing(s) = writes[s] + Count(Tail(q), WriteOps) + 1
  <2>1. Writing(s) = writes[s] + Count(Tail(q), WriteOps) + 1
    <3>1. Writing(s) = writes[s] + Count(q, WriteOps) /\ writes[s] \in Nat
      BY DEF Writing, Typed
    <3> QED
      BY <1>2, <3>1
  <2>2. Writing(s) <= 1
    BY DEF Local
  <2> QED
    BY <1>1, <1>2, <2>1, <2>2
<1>5. Writing(s)' = IF more THEN 1 ELSE 0
  <2>1. Writing(s)' = (IF more THEN writes[s] + 1 ELSE writes[s]) + Count(Tail(q), WriteOps)
    BY <1>1 DEF Writing
  <2>2. writes[s] = 0 /\ Count(Tail(q), WriteOps) = 0
    BY <1>1, <1>2, <1>4
  <2> HIDE DEF more
  <2> QED
    BY <2>1, <2>2
<1>6. phase[s] \notin {"closed", "created"}
  BY <1>1 DEF Local
<1> QED
  BY <1>1, <1>3, <1>5, <1>6 DEF Local

\* stop(), and its end.
LEMMA StopLocal ==
    ASSUME Typed, NEW s \in Sessions, Local(s), Stop(s)
    PROVE  Local(s)'
<1> DEFINE q == strand[s]
<1>1. /\ q # << >> /\ Head(q).op \in {"readError", "writeError"}
      /\ phase' = phase /\ reads' = reads /\ writes' = writes
      /\ outgoing' = outgoing /\ strand'[s] = Tail(q)
      /\ stopped'[s] = TRUE /\ pc'[s] # "deliver" /\ pc[s] = "idle"
  BY DEF Stop, Runs, acceptVars, ioVars, Typed
<1>2. /\ Count(q, ReadOps) \in {Count(Tail(q), ReadOps), Count(Tail(q), ReadOps) + 1}
      /\ Count(q, WriteOps) \in {Count(Tail(q), WriteOps), Count(Tail(q), WriteOps) + 1}
      /\ Count(Tail(q), ReadOps) \in Nat /\ Count(Tail(q), WriteOps) \in Nat
      /\ reads[s] \in Nat /\ writes[s] \in Nat
  BY <1>1, Runs1 DEF ReadOps, WriteOps, Typed
<1>3. Reading(s)' \in {Reading(s), Reading(s) - 1} /\ Reading(s)' \in Nat
  BY <1>1, <1>2 DEF Reading
<1>4. Writing(s)' \in {Writing(s), Writing(s) - 1} /\ Writing(s)' \in Nat
  BY <1>1, <1>2 DEF Writing
<1>5. Reading(s) \in Nat /\ Writing(s) \in Nat
  BY ChainsAreNat
<1>6. phase[s] \notin {"closed", "created"}
  BY <1>1 DEF Local
<1>7. Reading(s)' <= 1 /\ (phase[s] # "started" => Reading(s)' = 0)
  BY <1>3, <1>5 DEF Local
<1>8. Writing(s)' <= 1 /\ (Writing(s)' = 1 => Writing(s) = 1)
  BY <1>4, <1>5 DEF Local
<1> QED
  BY <1>1, <1>6, <1>7, <1>8 DEF Local

LEMMA LeaveLocal ==
    ASSUME Typed, NEW s \in Sessions, Local(s), Leave(s)
    PROVE  Local(s)'
<1>1. /\ phase' = phase /\ strand' = strand /\ reads' = reads /\ writes' = writes
      /\ outgoing' = outgoing /\ stopped' = stopped
      /\ pc[s] = "leave" /\ pc'[s] = "idle"
  BY DEF Leave, ioVars, sessionVars, Typed
<1>2. Reading(s)' = Reading(s) /\ Writing(s)' = Writing(s)
  BY <1>1 DEF Reading, Writing
<1> QED
  BY <1>1, <1>2 DEF Local

-----------------------------------------------------------------------------
(* The invariant is inductive.                                             *)

LEMMA InitInvariant == Init => IInv
<1> SUFFICES ASSUME Init PROVE IInv
  OBVIOUS
<1>1. Typed
  BY LineBudgetAssumption DEF Init, Typed
<1>2. LocalInv
  <2> SUFFICES ASSUME NEW s \in Sessions PROVE Local(s)
    BY DEF LocalInv
  <2>1. /\ phase[s] = "closed" /\ strand[s] = << >> /\ pc[s] = "idle"
        /\ reads[s] = 0 /\ writes[s] = 0 /\ outgoing[s] = << >> /\ ~stopped[s]
    BY DEF Init
  <2>2. Writing(s) = 0 /\ Reading(s) = 0
    BY <2>1, CountEmpty DEF Writing, Reading
  <2> QED
    BY <2>1, <2>2 DEF Local
<1>3. TargetInv /\ RegistryInv
  BY DEF Init, TargetInv, RegistryInv, Member
<1> QED
  BY <1>1, <1>2, <1>3 DEF IInv

\* An exception leaves everything as it is, but ends the process.
LEMMA ThrowLeaves ==
    ASSUME NEW s \in Sessions, HandlerThrows(s)
    PROVE  /\ up' = FALSE
           /\ UNCHANGED <<phase, registry, strand, pc, targets, reads, writes, outgoing, stopped,
                          isAdmin, lines, wire>>
  BY DEF HandlerThrows, acceptVars, handlerVars, ioVars, sessionVars

LEMMA TypedStep ==
    ASSUME Typed, LocalInv, [Next]_vars
    PROVE  Typed'
<1>1. CASE UNCHANGED vars
  BY <1>1 DEF Typed, vars, acceptVars, handlerVars, ioVars, sessionVars
<1>2. CASE Next
  <2> PICK s \in Sessions :
        \/ Accept(s) \/ Join(s) \/ StartReading(s)
        \/ ReadCompletes(s) \/ ReadFails(s) \/ WriteCompletes(s) \/ WriteFails(s)
        \/ HandleRequest(s) \/ IgnoreLine(s) \/ Gather(s) \/ Deliver(s)
        \/ BroadcastDone(s) \/ Send(s) \/ Written(s) \/ Stop(s) \/ Leave(s)
        \/ HandlerThrows(s)
    BY <1>2 DEF Next, Run
  <2> USE DEF acceptVars, handlerVars, ioVars, sessionVars
  <2>1. CASE Accept(s) \/ Join(s) \/ StartReading(s)
    <3>1. /\ phase' \in [Sessions -> {"closed", "created", "joined", "started"}]
          /\ registry' \subseteq Sessions
      <4>1. /\ registry' = registry \/ registry' = registry \cup {s}
            /\ \/ phase' = phase
               \/ \E to \in {"created", "joined", "started"} : phase' = [phase EXCEPT ![s] = to]
        BY <2>1 DEF Accept, Join, StartReading
      <4> QED
        BY <4>1 DEF Typed
    <3>2. reads' \in [Sessions -> Nat]
      BY <2>1 DEF Typed, Accept, Join, StartReading
    <3>3. up' \in BOOLEAN
      BY <2>1, Zenon DEF Typed, Accept, Join, StartReading
    <3>4. UNCHANGED <<strand, handlerVars, writes, sessionVars>>
      BY <2>1 DEF Accept, Join, StartReading
    <3> QED
      BY <3>1, <3>2, <3>3, <3>4 DEF Typed
  <2>2. CASE ReadCompletes(s)
    <3>1. PICK line \in Lines :
              strand' = [strand EXCEPT ![s] = Append(@, [op |-> "read", line |-> line])]
      BY <2>2 DEF ReadCompletes
    <3> DEFINE h == [op |-> "read", line |-> line]
    <3>2. h \in Handler
      BY HandlerFacts
    <3> HIDE DEF h
    <3>3. strand' \in [Sessions -> Seq(Handler)]
      BY <3>1, <3>2 DEF Typed, h
    <3>4. /\ reads' \in [Sessions -> Nat]
          /\ lines' = [lines EXCEPT ![s] = @ + 1] /\ lines[s] < LineBudget[s]
      BY <2>2 DEF Typed, ReadCompletes
    <3>5. lines' \in [Sessions -> Nat] /\ \A t \in Sessions : lines'[t] <= LineBudget[t]
      <4>1. /\ lines \in [Sessions -> Nat] /\ LineBudget \in [Sessions -> Nat]
            /\ \A t \in Sessions : lines[t] <= LineBudget[t]
        BY LineBudgetAssumption DEF Typed
      <4> QED
        BY <3>4, <4>1
    <3>6. UNCHANGED <<acceptVars, handlerVars, writes, outgoing, stopped, isAdmin, wire, up>>
      BY <2>2 DEF ReadCompletes
    <3> QED
      BY <3>3, <3>4, <3>5, <3>6 DEF Typed
  <2>3. CASE ReadFails(s)
    <3>1. [op |-> "readError"] \in Handler
      BY HandlerFacts
    <3>2. strand' \in [Sessions -> Seq(Handler)]
      BY <2>3, <3>1 DEF Typed, ReadFails
    <3>3. reads' \in [Sessions -> Nat]
      BY <2>3 DEF Typed, ReadFails
    <3> QED
      BY <2>3, <3>2, <3>3 DEF Typed, ReadFails
  <2>4. CASE WriteCompletes(s)
    <3>1. [op |-> "written"] \in Handler
      BY HandlerFacts
    <3>2. strand' \in [Sessions -> Seq(Handler)]
      BY <2>4, <3>1 DEF Typed, WriteCompletes
    <3>3. writes' \in [Sessions -> Nat]
      BY <2>4 DEF Typed, WriteCompletes
    <3>4. Writing(s) = 1
      <4>1. writes[s] \in Nat /\ writes[s] > 0
        BY <2>4 DEF Typed, WriteCompletes
      <4> QED
        BY <4>1, ChainsAreNat DEF LocalInv, Local
    <3>5. outgoing[s] \in Seq(Message) /\ outgoing[s] # << >>
      BY <3>4 DEF LocalInv, Local, Typed
    <3>6. wire' \in [Sessions -> Seq(Message)]
      BY <2>4, <3>5 DEF Typed, WriteCompletes
    <3> QED
      BY <2>4, <3>2, <3>3, <3>6 DEF Typed, WriteCompletes
  <2>5. CASE WriteFails(s)
    <3>1. [op |-> "writeError"] \in Handler
      BY HandlerFacts
    <3>2. strand' \in [Sessions -> Seq(Handler)]
      BY <2>5, <3>1 DEF Typed, WriteFails
    <3>3. writes' \in [Sessions -> Nat]
      BY <2>5 DEF Typed, WriteFails
    <3> QED
      BY <2>5, <3>2, <3>3 DEF Typed, WriteFails
  <2>6. CASE HandleRequest(s)
    <3> DEFINE h == [op |-> "send", msg |-> Caused(s)]
    <3>1. h \in Handler
      BY HandlerFacts DEF Typed
    <3> HIDE DEF h
    <3>2. strand' = [strand EXCEPT ![s] = Append(Tail(@), h)] /\ strand[s] # << >>
      BY <2>6 DEF HandleRequest, Reads, Runs, h
    <3>3. strand' \in [Sessions -> Seq(Handler)]
      BY <3>1, <3>2 DEF Typed
    <3>4. reads' \in [Sessions -> Nat]
      BY <2>6 DEF Typed, HandleRequest
    <3>5. isAdmin' \in [Sessions -> BOOLEAN]
      <4>1. isAdmin' \in {isAdmin, [isAdmin EXCEPT ![s] = TRUE], [isAdmin EXCEPT ![s] = FALSE]}
        BY <2>6, Zenon DEF HandleRequest
      <4> QED
        BY <4>1 DEF Typed
    <3>6. UNCHANGED <<acceptVars, handlerVars, writes, outgoing, stopped, lines, wire, up>>
      BY <2>6 DEF HandleRequest
    <3> QED
      BY <3>3, <3>4, <3>5, <3>6 DEF Typed
  <2>7. CASE IgnoreLine(s) \/ Gather(s) \/ Stop(s)
    <3>1. strand[s] # << >> /\ strand' = [strand EXCEPT ![s] = Tail(@)]
      BY <2>7 DEF IgnoreLine, Gather, Stop, Reads, Runs
    <3>2. strand' \in [Sessions -> Seq(Handler)]
      BY <3>1 DEF Typed
    <3>3. UNCHANGED <<phase, writes, outgoing, isAdmin, lines, wire>>
      BY <2>7 DEF IgnoreLine, Gather, Stop
    <3>4. reads' \in [Sessions -> Nat]
      <4>1. reads' \in {reads, [reads EXCEPT ![s] = @ + 1]}
        BY <2>7 DEF IgnoreLine, Gather, Stop
      <4>2. reads \in [Sessions -> Nat]
        BY DEF Typed
      <4> QED
        BY <4>1, <4>2
    <3>5. /\ targets' \in [Sessions -> SUBSET Sessions]
          /\ registry' \subseteq Sessions
      <4> DEFINE alive == {t \in registry : Alive(t)}
      <4>1. /\ targets' \in {targets, [targets EXCEPT ![s] = alive]}
            /\ registry' \in {registry, alive}
        BY <2>7 DEF IgnoreLine, Gather, Stop
      <4>2. alive \subseteq registry
        OBVIOUS
      <4> HIDE DEF alive
      <4> QED
        BY <4>1, <4>2 DEF Typed
    <3>6. pc' \in {pc, [pc EXCEPT ![s] = "deliver"], [pc EXCEPT ![s] = "leave"]}
      BY <2>7 DEF IgnoreLine, Gather, Stop
    <3>7. pc' \in [Sessions -> {"idle", "deliver", "leave"}]
      BY <3>6 DEF Typed
    <3>8. stopped' \in {stopped, [stopped EXCEPT ![s] = TRUE]}
      BY <2>7 DEF IgnoreLine, Gather, Stop
    <3>9. stopped' \in [Sessions -> BOOLEAN]
      BY <3>8 DEF Typed
    <3>10. up' \in BOOLEAN
      BY <2>7, Zenon DEF Typed, IgnoreLine, Gather, Stop
    <3> QED
      BY <3>2, <3>3, <3>4, <3>5, <3>7, <3>9, <3>10 DEF Typed
  <2>8. CASE Deliver(s)
    <3> DEFINE h == [op |-> "send", msg |-> Caused(s)]
    <3>1. h \in Handler
      BY HandlerFacts DEF Typed
    <3>2. PICK t \in targets[s] :
              /\ strand' = [strand EXCEPT ![t] = Append(@, h)]
              /\ targets' = [targets EXCEPT ![s] = @ \ {t}]
      BY <2>8 DEF Deliver
    <3> HIDE DEF h
    <3>3. strand' \in [Sessions -> Seq(Handler)] /\ targets' \in [Sessions -> SUBSET Sessions]
      BY <3>1, <3>2 DEF Typed
    <3> QED
      BY <2>8, <3>3 DEF Typed, Deliver
  <2>9. CASE BroadcastDone(s) \/ Leave(s)
    <3>1. reads' \in [Sessions -> Nat]
      BY <2>9 DEF Typed, BroadcastDone, Leave
    <3>2. pc' = [pc EXCEPT ![s] = "idle"]
      BY <2>9 DEF BroadcastDone, Leave
    <3>3. /\ pc' \in [Sessions -> {"idle", "deliver", "leave"}]
          /\ registry' \subseteq Sessions
      BY <2>9, <3>2 DEF Typed, BroadcastDone, Leave
    <3>4. UNCHANGED <<phase, strand, targets, writes, sessionVars, up>>
      BY <2>9 DEF BroadcastDone, Leave
    <3> QED
      BY <3>1, <3>3, <3>4 DEF Typed
  <2>10. CASE Send(s) \/ Written(s)
    <3>1. strand[s] # << >> /\ strand' = [strand EXCEPT ![s] = Tail(@)]
      BY <2>10 DEF Send, Written, Runs
    <3>2. strand' \in [Sessions -> Seq(Handler)]
      BY <3>1 DEF Typed
    <3>3. writes' \in [Sessions -> Nat]
      <4>1. \E more \in BOOLEAN :
                writes' = [writes EXCEPT ![s] = IF more THEN @ + 1 ELSE @]
        BY <2>10 DEF Send, Written
      <4> QED
        BY <4>1 DEF Typed
    <3>4. outgoing' \in [Sessions -> Seq(Message)]
      <4>1. CASE Send(s)
        <5>1. Head(strand[s]).msg \in Message
          BY <3>1, <4>1, Runs1, HandlerFacts DEF Send, Runs
        <5>2. outgoing' = [outgoing EXCEPT ![s] = Append(@, Head(strand[s]).msg)]
          BY <4>1 DEF Send
        <5> QED
          BY <5>1, <5>2 DEF Typed
      <4>2. CASE Written(s)
        <5>1. outgoing' = [outgoing EXCEPT ![s] = Tail(@)]
          BY <4>2 DEF Written
        <5>2. outgoing[s] # << >>
          <6>1. Writing(s) = 1
            <7>1. /\ Count(strand[s], WriteOps) = Count(Tail(strand[s]), WriteOps) + 1
                  /\ Count(Tail(strand[s]), WriteOps) \in Nat
              BY <3>1, <4>2, Runs1 DEF Written, Runs, WriteOps
            <7>2. Writing(s) = writes[s] + Count(strand[s], WriteOps) /\ writes[s] \in Nat
              BY DEF Writing, Typed
            <7>3. Writing(s) <= 1
              BY DEF LocalInv, Local
            <7> QED
              BY <7>1, <7>2, <7>3
          <6> QED
            BY <6>1 DEF LocalInv, Local
        <5> QED
          BY <5>1, <5>2 DEF Typed
      <4> QED
        BY <2>10, <4>1, <4>2
    <3>5. UNCHANGED <<acceptVars, handlerVars, reads, stopped, isAdmin, lines, wire, up>>
      BY <2>10 DEF Send, Written
    <3> QED
      BY <3>2, <3>3, <3>4, <3>5 DEF Typed
  <2>11. CASE HandlerThrows(s)
    BY <2>11, ThrowLeaves DEF Typed
  <2> QED
    BY <2>1, <2>2, <2>3, <2>4, <2>5, <2>6, <2>7, <2>8, <2>9, <2>10, <2>11
<1> QED
  BY <1>1, <1>2

LEMMA LocalStep ==
    ASSUME Typed, LocalInv, TargetInv, [Next]_vars
    PROVE  LocalInv'
<1> SUFFICES ASSUME NEW u \in Sessions PROVE Local(u)'
  BY DEF LocalInv
<1>1. Local(u)
  BY DEF LocalInv
<1>2. CASE UNCHANGED vars
  BY <1>1, <1>2, Frame DEF vars, acceptVars, handlerVars, ioVars, sessionVars
<1>3. CASE Next
  <2> PICK s \in Sessions :
        \/ Accept(s) \/ Join(s) \/ StartReading(s)
        \/ ReadCompletes(s) \/ ReadFails(s) \/ WriteCompletes(s) \/ WriteFails(s)
        \/ HandleRequest(s) \/ IgnoreLine(s) \/ Gather(s) \/ Deliver(s)
        \/ BroadcastDone(s) \/ Send(s) \/ Written(s) \/ Stop(s) \/ Leave(s)
        \/ HandlerThrows(s)
    BY <1>3 DEF Next, Run
  <2>1. CASE Deliver(s)
    BY <2>1, DeliverLocal
  <2>2. CASE u = s /\ ~Deliver(s) /\ ~HandlerThrows(s)
    BY <1>1, <2>2, AcceptThreadLocal, ReadEndsLocal, WriteEndsLocal, LineHandledLocal,
       BroadcastDoneLocal, SendLocal, WrittenLocal, StopLocal, LeaveLocal
  <2>3. CASE u # s /\ ~Deliver(s) /\ ~HandlerThrows(s)
    <3> USE DEF acceptVars, handlerVars, ioVars, sessionVars, Typed
    <3>1. phase'[u] = phase[u]
      BY <2>3 DEF Accept, Join, StartReading, ReadCompletes, ReadFails, WriteCompletes, WriteFails,
         HandleRequest, IgnoreLine, Gather, BroadcastDone, Send, Written, Stop, Leave
    <3>2. strand'[u] = strand[u]
      BY <2>3 DEF Accept, Join, StartReading, ReadCompletes, ReadFails, WriteCompletes, WriteFails,
         HandleRequest, IgnoreLine, Gather, BroadcastDone, Send, Written, Stop, Leave
    <3>3. pc'[u] = pc[u]
      BY <2>3 DEF Accept, Join, StartReading, ReadCompletes, ReadFails, WriteCompletes, WriteFails,
         HandleRequest, IgnoreLine, Gather, BroadcastDone, Send, Written, Stop, Leave
    <3>4. reads'[u] = reads[u] /\ writes'[u] = writes[u]
      BY <2>3 DEF Accept, Join, StartReading, ReadCompletes, ReadFails, WriteCompletes, WriteFails,
         HandleRequest, IgnoreLine, Gather, BroadcastDone, Send, Written, Stop, Leave
    <3>5. outgoing'[u] = outgoing[u] /\ stopped'[u] = stopped[u]
      BY <2>3 DEF Accept, Join, StartReading, ReadCompletes, ReadFails, WriteCompletes, WriteFails,
         HandleRequest, IgnoreLine, Gather, BroadcastDone, Send, Written, Stop, Leave
    <3> QED
      BY <1>1, <3>1, <3>2, <3>3, <3>4, <3>5, Frame
  <2>4. CASE HandlerThrows(s)
    BY <1>1, <2>4, ThrowLeaves, Frame
  <2> QED
    BY <2>1, <2>2, <2>3, <2>4
<1> QED
  BY <1>2, <1>3

\* The accept thread takes a session from one phase to the next.
LEMMA PhaseStep ==
    ASSUME [Next]_vars
    PROVE  \/ phase' = phase
           \/ \E s \in Sessions : phase[s] = "closed" /\ phase' = [phase EXCEPT ![s] = "created"]
           \/ \E s \in Sessions : phase[s] = "created" /\ phase' = [phase EXCEPT ![s] = "joined"]
           \/ \E s \in Sessions : phase[s] = "joined" /\ phase' = [phase EXCEPT ![s] = "started"]
<1>1. CASE UNCHANGED vars
  BY <1>1 DEF vars
<1>2. CASE \E s \in Sessions : Accept(s) \/ Join(s) \/ StartReading(s)
  BY <1>2, Zenon DEF Accept, Join, StartReading
<1>3. CASE \E s \in Sessions : ReadCompletes(s) \/ ReadFails(s) \/ WriteCompletes(s)
                                \/ WriteFails(s)
  BY <1>3 DEF ReadCompletes, ReadFails, WriteCompletes, WriteFails, acceptVars
<1>4. CASE \E s \in Sessions : Run(s)
  BY <1>4 DEF Run, HandleRequest, IgnoreLine, Gather, Deliver, BroadcastDone, Send, Written, Stop,
     Leave, acceptVars
<1>5. CASE \E s \in Sessions : HandlerThrows(s)
  BY <1>5, ThrowLeaves
<1> QED
  BY <1>1, <1>2, <1>3, <1>4, <1>5 DEF Next

\* Only Gather gives a broadcast sessions to deliver to.
LEMMA TargetsStep ==
    ASSUME [Next]_vars, targets \in [Sessions -> SUBSET Sessions],
           NEW u \in Sessions, ~(targets'[u] \subseteq targets[u])
    PROVE  Gather(u)
<1>1. CASE UNCHANGED vars
  BY <1>1 DEF vars, handlerVars
<1>2. CASE \E s \in Sessions : Accept(s) \/ Join(s) \/ StartReading(s) \/ ReadCompletes(s)
                                \/ ReadFails(s) \/ WriteCompletes(s) \/ WriteFails(s)
  BY <1>2 DEF Accept, Join, StartReading, ReadCompletes, ReadFails, WriteCompletes, WriteFails,
     handlerVars
<1>3. CASE \E s \in Sessions : Run(s)
  <2> PICK s \in Sessions : Run(s)
    BY <1>3
  <2>1. CASE Gather(s)
    BY <2>1 DEF Gather
  <2>2. CASE Deliver(s)
    BY <2>2 DEF Deliver
  <2>3. CASE ~Gather(s) /\ ~Deliver(s)
    BY <2>3 DEF Run, HandleRequest, IgnoreLine, BroadcastDone, Send, Written, Stop, Leave,
       handlerVars
  <2> QED
    BY <2>1, <2>2, <2>3
<1>4. CASE \E s \in Sessions : HandlerThrows(s)
  BY <1>4, ThrowLeaves
<1> QED
  BY <1>1, <1>2, <1>3, <1>4 DEF Next

\* A session that joined stays so, and a broadcast gathers members.
LEMMA TargetStep ==
    ASSUME Typed, TargetInv, RegistryInv, [Next]_vars
    PROVE  TargetInv'
<1> SUFFICES ASSUME NEW u \in Sessions, NEW t \in targets'[u]
             PROVE  phase'[t] \in {"joined", "started"}
  BY DEF TargetInv
<1>1. \A v \in Sessions :
          phase[v] \in {"joined", "started"} => phase'[v] \in {"joined", "started"}
  <2> SUFFICES ASSUME NEW v \in Sessions, phase[v] \in {"joined", "started"}
               PROVE  phase'[v] \in {"joined", "started"}
    OBVIOUS
  <2>1. phase \in [Sessions -> {"closed", "created", "joined", "started"}]
    BY DEF Typed
  <2> QED
    BY <2>1, PhaseStep
<1>2. CASE targets'[u] \subseteq targets[u]
  BY <1>1, <1>2 DEF TargetInv, Typed
<1>3. CASE ~(targets'[u] \subseteq targets[u])
  <2>1. Gather(u)
    BY <1>3, TargetsStep DEF Typed
  <2>2. up /\ t \in registry
    BY <2>1 DEF Gather, Reads, Runs, Typed
  <2>3. Member(t)
    BY <2>2 DEF RegistryInv, Typed
  <2> QED
    BY <1>1, <2>2, <2>3 DEF Member, Typed
<1> QED
  BY <1>2, <1>3

\* No entry expires before its session left.
LEMMA MembersAlive ==
    ASSUME Typed, LocalInv, NEW s \in Sessions, Member(s)
    PROVE  Alive(s)
<1>1. CASE phase[s] = "joined" \/ pc[s] # "idle"
  BY <1>1 DEF Alive
<1>2. CASE phase[s] = "started" /\ pc[s] = "idle"
  <2>1. Reading(s) = 1
    BY <1>2 DEF LocalInv, Local, Member
  <2>2. Count(strand[s], ReadOps) # 0 => strand[s] # << >>
    BY CountEmpty
  <2>3. reads[s] \in Nat /\ Count(strand[s], ReadOps) \in Nat
    BY ChainsAreNat DEF Typed
  <2>4. reads[s] > 0 \/ Count(strand[s], ReadOps) # 0
    BY <1>2, <2>1, <2>3 DEF Reading
  <2> QED
    BY <2>2, <2>4 DEF Alive
<1> QED
  BY <1>1, <1>2 DEF Member

LEMMA RegistryStep ==
    ASSUME Typed, LocalInv, RegistryInv, [Next]_vars
    PROVE  RegistryInv'
<1>1. CASE UNCHANGED vars
  BY <1>1 DEF RegistryInv, Member, vars, acceptVars, handlerVars, sessionVars
<1>2. CASE Next
  <2> SUFFICES ASSUME up', NEW t \in Sessions
               PROVE  t \in registry' <=> Member(t)'
    BY DEF RegistryInv
  <2> PICK s \in Sessions :
        \/ Accept(s) \/ Join(s) \/ StartReading(s)
        \/ ReadCompletes(s) \/ ReadFails(s) \/ WriteCompletes(s) \/ WriteFails(s)
        \/ HandleRequest(s) \/ IgnoreLine(s) \/ Gather(s) \/ Deliver(s)
        \/ BroadcastDone(s) \/ Send(s) \/ Written(s) \/ Stop(s) \/ Leave(s)
        \/ HandlerThrows(s)
    BY <1>2 DEF Next, Run
  <2>1. up
    BY DEF Accept, Join, StartReading, ReadCompletes, ReadFails, WriteCompletes, WriteFails,
       HandleRequest, IgnoreLine, Gather, Deliver, BroadcastDone, Send, Written, Stop, Leave,
       HandlerThrows, Reads, Runs
  <2>2. t \in registry <=> Member(t)
    BY <2>1 DEF RegistryInv
  <2>3. CASE Accept(s) \/ Join(s) \/ StartReading(s)
    <3>1. UNCHANGED <<pc, stopped>>
      BY <2>3 DEF Accept, Join, StartReading, handlerVars, sessionVars
    <3>2. CASE t # s
      <4>1. phase'[t] = phase[t] /\ (t \in registry' <=> t \in registry)
        BY <2>3, <3>2 DEF Accept, Join, StartReading, Typed
      <4> QED
        BY <2>2, <3>1, <4>1 DEF Member
    <3>3. CASE t = s
      <4>1. Local(s)
        BY DEF LocalInv
      <4>2. CASE Accept(s)
        <5>1. /\ phase[s] = "closed" /\ phase'[s] = "created" /\ registry' = registry
          BY <2>3, <4>2 DEF Accept, Typed
        <5> QED
          BY <2>2, <3>3, <5>1 DEF Member
      <4>3. CASE Join(s)
        <5>1. phase[s] = "created" /\ phase'[s] = "joined" /\ s \in registry'
          BY <4>3 DEF Join, Typed
        <5>2. ~stopped[s]
          BY <4>1, <5>1 DEF Local
        <5> QED
          BY <3>1, <3>3, <5>1, <5>2 DEF Member
      <4>4. CASE StartReading(s)
        <5>1. phase[s] = "joined" /\ phase'[s] = "started" /\ registry' = registry
          BY <4>4 DEF StartReading, Typed
        <5> QED
          BY <2>2, <3>1, <3>3, <5>1 DEF Member
      <4> QED
        BY <2>3, <4>2, <4>3, <4>4
    <3> QED
      BY <3>2, <3>3
  <2>4. CASE \/ ReadCompletes(s) \/ ReadFails(s) \/ WriteCompletes(s) \/ WriteFails(s)
             \/ HandleRequest(s) \/ IgnoreLine(s) \/ Deliver(s) \/ Send(s) \/ Written(s)
    <3>1. UNCHANGED <<phase, registry, pc, stopped>>
      BY <2>4 DEF ReadCompletes, ReadFails, WriteCompletes, WriteFails, HandleRequest, IgnoreLine,
         Deliver, Send, Written, acceptVars, handlerVars, sessionVars
    <3> QED
      BY <2>2, <3>1 DEF Member
  <2>5. CASE Gather(s)
    <3>1. /\ phase' = phase /\ stopped' = stopped
          /\ registry' = {u \in registry : Alive(u)}
          /\ pc[s] = "idle" /\ pc' = [pc EXCEPT ![s] = "deliver"]
      BY <2>5 DEF Gather, Reads, Runs, sessionVars
    <3>2. t \in registry' <=> t \in registry
      BY <2>2, <3>1, MembersAlive
    <3>3. pc'[t] = "leave" <=> pc[t] = "leave"
      BY <3>1 DEF Typed
    <3> QED
      BY <2>2, <3>1, <3>2, <3>3 DEF Member
  <2>6. CASE BroadcastDone(s)
    <3>1. /\ phase' = phase /\ stopped' = stopped /\ registry' = registry
          /\ pc[s] = "deliver" /\ pc' = [pc EXCEPT ![s] = "idle"]
      BY <2>6 DEF BroadcastDone, acceptVars, sessionVars
    <3>2. pc'[t] = "leave" <=> pc[t] = "leave"
      BY <3>1 DEF Typed
    <3> QED
      BY <2>2, <3>1, <3>2 DEF Member
  <2>7. CASE Stop(s)
    <3>1. /\ phase' = phase /\ registry' = registry /\ pc[s] = "idle"
          /\ \/ stopped' = stopped /\ pc' = pc
             \/ /\ ~stopped[s] /\ stopped' = [stopped EXCEPT ![s] = TRUE]
                /\ pc' = [pc EXCEPT ![s] = "leave"]
      BY <2>7, Zenon DEF Stop, Runs, acceptVars
    <3>2. CASE t # s
      <4>1. stopped'[t] = stopped[t] /\ pc'[t] = pc[t]
        BY <3>1, <3>2 DEF Typed
      <4> QED
        BY <2>2, <3>1, <4>1 DEF Member
    <3>3. CASE t = s
      <4>1. \/ stopped'[s] = stopped[s] /\ pc'[s] = pc[s]
            \/ ~stopped[s] /\ pc'[s] = "leave"
        BY <3>1 DEF Typed
      <4> QED
        BY <2>2, <3>1, <3>3, <4>1 DEF Member
    <3> QED
      BY <3>2, <3>3
  <2>8. CASE Leave(s)
    <3>1. /\ phase' = phase /\ stopped' = stopped
          /\ registry' = {u \in registry : u # s /\ Alive(u)}
          /\ pc[s] = "leave" /\ pc' = [pc EXCEPT ![s] = "idle"]
      BY <2>8 DEF Leave, sessionVars
    <3>2. CASE t # s
      <4>1. pc'[t] = pc[t] /\ (t \in registry' <=> t \in registry)
        BY <2>2, <3>1, <3>2, MembersAlive DEF Typed
      <4> QED
        BY <2>2, <3>1, <4>1 DEF Member
    <3>3. CASE t = s
      <4>1. stopped[s] /\ pc'[s] = "idle" /\ s \notin registry'
        BY <3>1 DEF LocalInv, Local, Typed
      <4> QED
        BY <3>1, <3>3, <4>1 DEF Member
    <3> QED
      BY <3>2, <3>3
  <2>9. CASE HandlerThrows(s)
    BY <2>9, ThrowLeaves
  <2> QED
    BY <2>3, <2>4, <2>5, <2>6, <2>7, <2>8, <2>9
<1> QED
  BY <1>1, <1>2

THEOREM Invariance == Spec => []IInv
<1>1. Init => IInv
  BY InitInvariant
<1>2. IInv /\ [Next]_vars => IInv'
  BY TypedStep, LocalStep, TargetStep, RegistryStep DEF IInv
<1> QED
  BY <1>1, <1>2, PTL DEF Spec

-----------------------------------------------------------------------------
(* What follows.                                                           *)

LEMMA ChainsAreReadersAndWriters ==
    \A s \in Sessions : Writers(s) = Writing(s) /\ Readers(s) = Reading(s)
  BY DEF Writers, Readers, Waiting, Writing, Reading, Count, Positions, WriteOps, ReadOps

\* The state has its type; in particular a socket never has two reads or two
\* writes outstanding, whatever the accept thread and the strand do.
THEOREM TypeCorrect == Spec => []TypeOK
<1>1. IInv => TypeOK
  <2> SUFFICES ASSUME IInv PROVE TypeOK
    OBVIOUS
  <2>1. Typed /\ LocalInv
    BY DEF IInv
  <2>2. \A s \in Sessions : reads[s] \in 0 .. 1 /\ writes[s] \in 0 .. 1
    <3> SUFFICES ASSUME NEW s \in Sessions PROVE reads[s] \in 0 .. 1 /\ writes[s] \in 0 .. 1
      OBVIOUS
    <3>1. reads[s] \in Nat /\ writes[s] \in Nat
      BY <2>1 DEF Typed
    <3>2. Reading(s) <= 1 /\ Writing(s) <= 1
      BY <2>1 DEF LocalInv, Local
    <3> QED
      BY <2>1, <3>1, <3>2, ChainsAreNat
  <2>3. reads \in [Sessions -> 0 .. 1] /\ writes \in [Sessions -> 0 .. 1]
    BY <2>1, <2>2 DEF Typed
  <2> QED
    BY <2>1, <2>3 DEF Typed, TypeOK
<1> QED
  BY <1>1, Invariance, PTL

\* No second write begins, and the front of the queue is not popped, before the
\* handler of the write that was given it ran.
THEOREM OneWriter == Spec => []SingleWriter
<1>1. IInv => SingleWriter
  BY ChainsAreReadersAndWriters DEF IInv, LocalInv, Local, SingleWriter
<1> QED
  BY <1>1, Invariance, PTL

\* No message of a session that did not stop waits for the next one to be sent.
THEOREM QueueMoves == Spec => []WriterActive
<1>1. IInv => WriterActive
  BY ChainsAreReadersAndWriters DEF IInv, LocalInv, Local, WriterActive
<1> QED
  BY <1>1, Invariance, PTL

\* A session that did not stop reads on, once at a time.
THEOREM ReadsOn == Spec => []ReaderArmed
<1>1. IInv => ReaderArmed
  BY ChainsAreReadersAndWriters DEF IInv, LocalInv, Local, ReaderArmed
<1> QED
  BY <1>1, Invariance, PTL

\* The registry holds the sessions between join and leave, and they are alive.
THEOREM RegistryHolds == Spec => []RegistryExact
<1>1. IInv => RegistryExact
  <2> SUFFICES ASSUME IInv, up, NEW s \in Sessions
               PROVE  (s \in registry <=> Member(s)) /\ (s \in registry => Alive(s))
    BY DEF RegistryExact, Member
  <2>1. s \in registry <=> Member(s)
    BY DEF IInv, RegistryInv
  <2> QED
    BY <2>1, MembersAlive DEF IInv
<1> QED
  BY <1>1, Invariance, PTL

-----------------------------------------------------------------------------
(* The order of the messages to one session.                               *)
(*                                                                         *)
(* A message to a session is in its strand, then in m_outgoing, then on    *)
(* the wire.  The lemmas about the three sequences know nothing of the     *)
(* state: w, o and q stand for wire, outgoing and strand of one session.   *)

\* Positions of the messages that wait in a strand to be queued.
Sends(q) == {i \in DOMAIN q : q[i].op = "send"}

\* The front of m_outgoing is on the wire, and its handler still to run.
FrontWritten(q) == \E i \in DOMAIN q : q[i].op = "written"
FirstUnwritten(q) == IF FrontWritten(q) THEN 2 ELSE 1

\* If one session caused both, then m by an earlier line.
Before(m, n) == m.from = n.from => m.line < n.line

Ordered(u) == \A i, j \in DOMAIN u : i < j => Before(u[i], u[j])
StrandOrdered(q) == \A i, j \in Sends(q) : i < j => Before(q[i].msg, q[j].msg)
WireThenQueue(w, o, q) ==
    \A i \in DOMAIN w, j \in DOMAIN o : FirstUnwritten(q) <= j => Before(w[i], o[j])
ThenStrand(u, q) == \A i \in DOMAIN u, j \in Sends(q) : Before(u[i], q[j].msg)

\* The messages of each sender are in order on the wire, then in the queue, but
\* for what of it is on the wire, then in the strand.
InOrder(w, o, q) ==
    /\ Ordered(w) /\ Ordered(o) /\ StrandOrdered(q)
    /\ WireThenQueue(w, o, q)
    /\ ThenStrand(w, q) /\ ThenStrand(o, q)

\* Every message that is anywhere.
Held(w, o, q) ==
    {w[i] : i \in DOMAIN w} \cup {o[i] : i \in DOMAIN o} \cup {q[i].msg : i \in Sends(q)}

\* A handler of no message is posted.
LEMMA PostOther ==
    ASSUME NEW w, NEW o, NEW q \in Seq(Handler), NEW h \in Handler,
           h.op \notin {"send", "written"}, InOrder(w, o, q)
    PROVE  InOrder(w, o, Append(q, h)) /\ Held(w, o, Append(q, h)) = Held(w, o, q)
<1> DEFINE a == Append(q, h)
<1>1. /\ DOMAIN a = DOMAIN q \cup {Len(q) + 1} /\ a[Len(q) + 1] = h
      /\ \A i \in DOMAIN q : a[i] = q[i]
  OBVIOUS
<1> HIDE DEF a
<1>2. Sends(a) = Sends(q) /\ \A i \in Sends(q) : a[i] = q[i]
  BY <1>1 DEF Sends
<1>3. FirstUnwritten(a) = FirstUnwritten(q)
  BY <1>1 DEF FirstUnwritten, FrontWritten
<1>4. StrandOrdered(a) /\ WireThenQueue(w, o, a) /\ ThenStrand(w, a) /\ ThenStrand(o, a)
  BY <1>2, <1>3 DEF InOrder, StrandOrdered, WireThenQueue, ThenStrand
<1>5. Held(w, o, a) = Held(w, o, q)
  BY <1>2 DEF Held
<1> QED
  BY <1>4, <1>5 DEF InOrder, a

\* A message is posted behind all there are.
LEMMA PostMessage ==
    ASSUME NEW w \in Seq(Message), NEW o \in Seq(Message), NEW q \in Seq(Handler),
           NEW h \in Handler, h.op = "send", InOrder(w, o, q),
           \A m \in Held(w, o, q) : Before(m, h.msg)
    PROVE  /\ InOrder(w, o, Append(q, h))
           /\ Held(w, o, Append(q, h)) = Held(w, o, q) \cup {h.msg}
<1> DEFINE a == Append(q, h)
<1>1. /\ DOMAIN a = DOMAIN q \cup {Len(q) + 1} /\ a[Len(q) + 1] = h
      /\ \A i \in DOMAIN q : a[i] = q[i]
      /\ \A i \in DOMAIN q : i \in Nat /\ i < Len(q) + 1
      /\ Len(q) + 1 \notin DOMAIN q /\ Len(q) \in Nat
  OBVIOUS
<1> HIDE DEF a
<1>2. Sends(a) = Sends(q) \cup {Len(q) + 1} /\ \A i \in Sends(q) : a[i] = q[i]
  BY <1>1 DEF Sends
<1>3. FirstUnwritten(a) = FirstUnwritten(q)
  BY <1>1 DEF FirstUnwritten, FrontWritten
<1>4. StrandOrdered(a)
  <2> SUFFICES ASSUME NEW i \in Sends(a), NEW j \in Sends(a), i < j
               PROVE  Before(a[i].msg, a[j].msg)
    BY DEF StrandOrdered
  <2>1. i \in Sends(q)
    BY <1>1, <1>2 DEF Sends
  <2>2. CASE j \in Sends(q)
    BY <1>2, <2>1, <2>2 DEF InOrder, StrandOrdered
  <2>3. CASE j = Len(q) + 1
    <3>1. a[i].msg \in Held(w, o, q)
      BY <1>2, <2>1 DEF Held
    <3> QED
      BY <1>1, <2>3, <3>1
  <2> QED
    BY <1>2, <2>2, <2>3
<1>5. \A u \in {w, o} : ThenStrand(u, a)
  <2> SUFFICES ASSUME NEW u \in {w, o}, NEW i \in DOMAIN u, NEW j \in Sends(a)
               PROVE  Before(u[i], a[j].msg)
    BY DEF ThenStrand
  <2>1. CASE j \in Sends(q)
    BY <1>2, <2>1 DEF InOrder, ThenStrand
  <2>2. CASE j = Len(q) + 1
    <3>1. u[i] \in Held(w, o, q)
      BY DEF Held
    <3> QED
      BY <1>1, <2>2, <3>1
  <2> QED
    BY <1>2, <2>1, <2>2
<1>6. WireThenQueue(w, o, a)
  BY <1>3 DEF InOrder, WireThenQueue
<1>7. Held(w, o, a) = Held(w, o, q) \cup {h.msg}
  BY <1>1, <1>2 DEF Held
<1> QED
  BY <1>4, <1>5, <1>6, <1>7 DEF InOrder, a

\* What a strand holds once it ran the handler at its head.
LEMMA TailSends ==
    ASSUME NEW q \in Seq(Handler), q # << >>
    PROVE  /\ \A i \in DOMAIN Tail(q) : i + 1 \in DOMAIN q /\ Tail(q)[i] = q[i + 1]
           /\ \A i \in Sends(Tail(q)) : /\ i + 1 \in Sends(q) /\ i + 1 > 1 /\ i \in Nat
                                        /\ Tail(q)[i] = q[i + 1]
           /\ 1 \in DOMAIN q /\ Head(q) = q[1]
<1>1. /\ Len(q) \in Nat \ {0}
      /\ DOMAIN Tail(q) = 1 .. Len(q) - 1
      /\ \A i \in 1 .. Len(q) - 1 : Tail(q)[i] = q[i + 1]
      /\ Head(q) = q[1] /\ DOMAIN q = 1 .. Len(q)
  OBVIOUS
<1> QED
  BY <1>1 DEF Sends

\* A handler runs that queues and unqueues nothing.
LEMMA RunOther ==
    ASSUME NEW w, NEW o, NEW q \in Seq(Handler), q # << >>,
           Head(q).op \notin {"send", "written"}, InOrder(w, o, q)
    PROVE  /\ InOrder(w, o, Tail(q))
           /\ Held(w, o, Tail(q)) \subseteq Held(w, o, q)
<1> DEFINE t == Tail(q)
<1>1. /\ \A i \in DOMAIN t : i + 1 \in DOMAIN q /\ t[i] = q[i + 1]
      /\ \A i \in Sends(t) : i + 1 \in Sends(q) /\ i \in Nat /\ t[i] = q[i + 1]
  BY TailSends
<1>2. FrontWritten(q) => FrontWritten(t)
  <2> SUFFICES ASSUME NEW i \in DOMAIN q, q[i].op = "written" PROVE FrontWritten(t)
    BY DEF FrontWritten
  <2>1. i \in Nat /\ i # 1 /\ i - 1 \in DOMAIN t /\ t[i - 1] = q[i]
    OBVIOUS
  <2> QED
    BY <2>1 DEF FrontWritten
<1> HIDE DEF t
<1>3. FrontWritten(t) => FrontWritten(q)
  BY <1>1 DEF FrontWritten
<1>4. StrandOrdered(t)
  BY <1>1 DEF InOrder, StrandOrdered
<1>5. ThenStrand(w, t) /\ ThenStrand(o, t)
  BY <1>1 DEF InOrder, ThenStrand
<1>6. WireThenQueue(w, o, t)
  BY <1>2, <1>3 DEF InOrder, WireThenQueue, FirstUnwritten
<1>7. Held(w, o, t) \subseteq Held(w, o, q)
  BY <1>1 DEF Held
<1> QED
  BY <1>4, <1>5, <1>6, <1>7 DEF InOrder, t

\* Send: the message goes from the strand to the end of the queue.
LEMMA RunSend ==
    ASSUME NEW w \in Seq(Message), NEW o \in Seq(Message), NEW q \in Seq(Handler), q # << >>,
           Head(q).op = "send", Head(q).msg \in Message, InOrder(w, o, q),
           o = << >> => ~FrontWritten(q)
    PROVE  /\ InOrder(w, Append(o, Head(q).msg), Tail(q))
           /\ Held(w, Append(o, Head(q).msg), Tail(q)) \subseteq Held(w, o, q)
<1> DEFINE t == Tail(q)
           m == Head(q).msg
           p == Append(o, m)
<1>1. /\ \A i \in DOMAIN t : i + 1 \in DOMAIN q /\ t[i] = q[i + 1]
      /\ \A i \in Sends(t) : i + 1 \in Sends(q) /\ i + 1 > 1 /\ i \in Nat /\ t[i] = q[i + 1]
      /\ 1 \in Sends(q) /\ m = q[1].msg
  BY TailSends DEF Sends
<1>2. FrontWritten(q) => FrontWritten(t)
  <2> SUFFICES ASSUME NEW i \in DOMAIN q, q[i].op = "written" PROVE FrontWritten(t)
    BY DEF FrontWritten
  <2>1. i \in Nat /\ i # 1 /\ i - 1 \in DOMAIN t /\ t[i - 1] = q[i]
    OBVIOUS
  <2> QED
    BY <2>1 DEF FrontWritten
<1>3. /\ DOMAIN p = DOMAIN o \cup {Len(o) + 1} /\ p[Len(o) + 1] = m
      /\ \A i \in DOMAIN o : p[i] = o[i]
      /\ \A i \in DOMAIN o : i \in Nat /\ i < Len(o) + 1
      /\ Len(o) \in Nat /\ (o # << >> => Len(o) # 0)
  OBVIOUS
<1> HIDE DEF t, m, p
<1>4. FrontWritten(t) => FrontWritten(q)
  BY <1>1 DEF FrontWritten
<1>5. StrandOrdered(t)
  BY <1>1 DEF InOrder, StrandOrdered
<1>6. Ordered(p)
  <2> SUFFICES ASSUME NEW i \in DOMAIN p, NEW j \in DOMAIN p, i < j PROVE Before(p[i], p[j])
    BY DEF Ordered
  <2>1. i \in DOMAIN o
    BY <1>3
  <2>2. CASE j \in DOMAIN o
    BY <1>3, <2>1, <2>2 DEF InOrder, Ordered
  <2>3. CASE j = Len(o) + 1
    BY <1>1, <1>3, <2>1, <2>3 DEF InOrder, ThenStrand
  <2> QED
    BY <1>3, <2>2, <2>3
<1>7. ThenStrand(w, t)
  BY <1>1 DEF InOrder, ThenStrand
<1>8. ThenStrand(p, t)
  <2> SUFFICES ASSUME NEW i \in DOMAIN p, NEW j \in Sends(t) PROVE Before(p[i], t[j].msg)
    BY DEF ThenStrand
  <2>1. CASE i \in DOMAIN o
    BY <1>1, <1>3, <2>1 DEF InOrder, ThenStrand
  <2>2. CASE i = Len(o) + 1
    BY <1>1, <1>3, <2>2 DEF InOrder, StrandOrdered
  <2> QED
    BY <1>3, <2>1, <2>2
<1>9. WireThenQueue(w, p, t)
  <2> SUFFICES ASSUME NEW i \in DOMAIN w, NEW j \in DOMAIN p, FirstUnwritten(t) <= j
               PROVE  Before(w[i], p[j])
    BY DEF WireThenQueue
  <2>1. CASE j \in DOMAIN o
    BY <1>2, <1>3, <1>4, <2>1 DEF InOrder, WireThenQueue, FirstUnwritten
  <2>2. CASE j = Len(o) + 1
    BY <1>1, <1>3, <2>2 DEF InOrder, ThenStrand
  <2> QED
    BY <1>3, <2>1, <2>2
<1>10. Held(w, p, t) \subseteq Held(w, o, q)
  BY <1>1, <1>3 DEF Held
<1> QED
  BY <1>5, <1>6, <1>7, <1>8, <1>9, <1>10 DEF InOrder, t, m, p

\* WriteCompletes: the front of the queue is on the wire.
LEMMA FrontIsWritten ==
    ASSUME NEW w \in Seq(Message), NEW o \in Seq(Message), NEW q \in Seq(Handler), o # << >>,
           NEW h \in Handler, h.op = "written", ~FrontWritten(q), InOrder(w, o, q)
    PROVE  /\ InOrder(Append(w, Head(o)), o, Append(q, h))
           /\ Held(Append(w, Head(o)), o, Append(q, h)) = Held(w, o, q)
<1> DEFINE a == Append(q, h)
           m == Head(o)
           v == Append(w, m)
<1>1. /\ DOMAIN a = DOMAIN q \cup {Len(q) + 1} /\ a[Len(q) + 1] = h
      /\ \A i \in DOMAIN q : a[i] = q[i]
  OBVIOUS
<1>2. /\ DOMAIN v = DOMAIN w \cup {Len(w) + 1} /\ v[Len(w) + 1] = m
      /\ \A i \in DOMAIN w : v[i] = w[i]
      /\ \A i \in DOMAIN w : i \in Nat /\ i < Len(w) + 1
      /\ Len(w) \in Nat
  OBVIOUS
<1>3. 1 \in DOMAIN o /\ m = o[1] /\ \A j \in DOMAIN o : j \in Nat /\ 1 <= j
  OBVIOUS
<1> HIDE DEF a, m, v
<1>4. Sends(a) = Sends(q) /\ \A i \in Sends(q) : a[i] = q[i]
  BY <1>1 DEF Sends
<1>5. FirstUnwritten(q) = 1 /\ FirstUnwritten(a) = 2
  BY <1>1 DEF FirstUnwritten, FrontWritten
<1>6. Ordered(v)
  <2> SUFFICES ASSUME NEW i \in DOMAIN v, NEW j \in DOMAIN v, i < j PROVE Before(v[i], v[j])
    BY DEF Ordered
  <2>1. i \in DOMAIN w
    BY <1>2
  <2>2. CASE j \in DOMAIN w
    BY <1>2, <2>1, <2>2 DEF InOrder, Ordered
  <2>3. CASE j = Len(w) + 1
    BY <1>2, <1>3, <1>5, <2>1, <2>3 DEF InOrder, WireThenQueue
  <2> QED
    BY <1>2, <2>2, <2>3
<1>7. StrandOrdered(a) /\ ThenStrand(o, a)
  BY <1>4 DEF InOrder, StrandOrdered, ThenStrand
<1>8. ThenStrand(v, a)
  <2> SUFFICES ASSUME NEW i \in DOMAIN v, NEW j \in Sends(a) PROVE Before(v[i], a[j].msg)
    BY DEF ThenStrand
  <2>1. CASE i \in DOMAIN w
    BY <1>2, <1>4, <2>1 DEF InOrder, ThenStrand
  <2>2. CASE i = Len(w) + 1
    BY <1>2, <1>3, <1>4, <2>2 DEF InOrder, ThenStrand
  <2> QED
    BY <1>2, <2>1, <2>2
<1>9. WireThenQueue(v, o, a)
  <2> SUFFICES ASSUME NEW i \in DOMAIN v, NEW j \in DOMAIN o, 2 <= j PROVE Before(v[i], o[j])
    BY <1>5 DEF WireThenQueue
  <2>1. CASE i \in DOMAIN w
    BY <1>2, <1>3, <1>5, <2>1 DEF InOrder, WireThenQueue
  <2>2. CASE i = Len(w) + 1
    BY <1>2, <1>3, <2>2 DEF InOrder, Ordered
  <2> QED
    BY <1>2, <2>1, <2>2
<1>10. Held(v, o, a) = Held(w, o, q)
  <2>1. {v[i] : i \in DOMAIN v} = {w[i] : i \in DOMAIN w} \cup {o[1]}
    BY <1>2, <1>3
  <2>2. {a[i].msg : i \in Sends(a)} = {q[i].msg : i \in Sends(q)}
    BY <1>4
  <2>3. o[1] \in {o[i] : i \in DOMAIN o}
    BY <1>3
  <2> QED
    BY <2>1, <2>2, <2>3 DEF Held
<1> QED
  BY <1>6, <1>7, <1>8, <1>9, <1>10 DEF InOrder, a, m, v

\* Written: the front is taken off the queue.
LEMMA RunWritten ==
    ASSUME NEW w \in Seq(Message), NEW o \in Seq(Message), NEW q \in Seq(Handler), q # << >>,
           o # << >>, Head(q).op = "written", ~FrontWritten(Tail(q)), InOrder(w, o, q)
    PROVE  /\ InOrder(w, Tail(o), Tail(q))
           /\ Held(w, Tail(o), Tail(q)) \subseteq Held(w, o, q)
<1> DEFINE t == Tail(q)
           r == Tail(o)
<1>1. /\ \A i \in Sends(t) : i + 1 \in Sends(q) /\ i \in Nat /\ t[i] = q[i + 1]
      /\ 1 \in DOMAIN q /\ q[1].op = "written"
  BY TailSends
<1>2. \A i \in DOMAIN r : i \in Nat /\ 1 <= i /\ i + 1 \in DOMAIN o /\ r[i] = o[i + 1]
  <2>1. /\ Len(o) \in Nat \ {0}
        /\ DOMAIN r = 1 .. Len(o) - 1
        /\ \A i \in 1 .. Len(o) - 1 : r[i] = o[i + 1]
    OBVIOUS
  <2> QED
    BY <2>1
<1> HIDE DEF t, r
<1>3. FirstUnwritten(q) = 2
  BY <1>1 DEF FirstUnwritten, FrontWritten
<1>4. StrandOrdered(t) /\ ThenStrand(w, t)
  <2>1. \A i \in Sends(t) : i + 1 \in Sends(q) /\ i \in Nat /\ t[i] = q[i + 1]
    BY <1>1
  <2>2. StrandOrdered(t)
    BY <2>1 DEF InOrder, StrandOrdered
  <2>3. ThenStrand(w, t)
    BY <2>1 DEF InOrder, ThenStrand
  <2> QED
    BY <2>2, <2>3
<1>5. Ordered(r)
  BY <1>2 DEF InOrder, Ordered
<1>6. ThenStrand(r, t)
  BY <1>1, <1>2 DEF InOrder, ThenStrand
<1>7. WireThenQueue(w, r, t)
  BY <1>2, <1>3 DEF InOrder, WireThenQueue
<1>8. Held(w, r, t) \subseteq Held(w, o, q)
  BY <1>1, <1>2 DEF Held
<1> QED
  BY <1>4, <1>5, <1>6, <1>7, <1>8 DEF InOrder, t, r

-----------------------------------------------------------------------------
(* The inductive invariant.                                                *)

OrderInv == \A r \in Sessions : InOrder(wire[r], outgoing[r], strand[r])

\* The last line f read may still cause a message to r.
Causing(f, r) ==
    \/ \E i \in DOMAIN strand[f] : strand[f][i].op = "read"
    \/ r \in targets[f]

\* No message is ahead of the lines its sender read, and what the last of them
\* is still to cause will be behind all that is there.
Fresh(r, m) ==
    /\ m.line <= lines[m.from]
    /\ Causing(m.from, r) => m.line < lines[m.from]

FreshInv == \A r \in Sessions : \A m \in Held(wire[r], outgoing[r], strand[r]) : Fresh(r, m)

\* Only a broadcast has sessions to deliver to.
BroadcastInv == \A s \in Sessions : pc[s] # "deliver" => targets[s] = {}

OInv == IInv /\ OrderInv /\ FreshInv /\ BroadcastInv

LEMMA InitOrder == Init => OInv
<1> SUFFICES ASSUME Init PROVE OInv
  OBVIOUS
<1>1. \A r \in Sessions :
          /\ wire[r] = << >> /\ outgoing[r] = << >> /\ strand[r] = << >>
          /\ targets[r] = {}
  BY DEF Init
<1>2. InOrder(<< >>, << >>, << >>) /\ Held(<< >>, << >>, << >>) = {}
  BY DEF InOrder, Ordered, StrandOrdered, WireThenQueue, ThenStrand, Sends, Held
<1>3. OrderInv /\ FreshInv /\ BroadcastInv
  BY <1>1, <1>2 DEF OrderInv, FreshInv, BroadcastInv
<1> QED
  BY <1>3, InitInvariant DEF OInv

\* Sessions' messages are messages.
LEMMA HeldAreMessages ==
    ASSUME Typed, NEW r \in Sessions
    PROVE  \A m \in Held(wire[r], outgoing[r], strand[r]) : m \in Message
<1>1. wire[r] \in Seq(Message) /\ outgoing[r] \in Seq(Message) /\ strand[r] \in Seq(Handler)
  BY DEF Typed
<1>2. \A i \in Sends(strand[r]) : strand[r][i].msg \in Message
  BY <1>1, HandlerFacts DEF Sends
<1>3. /\ \A i \in DOMAIN wire[r] : wire[r][i] \in Message
      /\ \A i \in DOMAIN outgoing[r] : outgoing[r][i] \in Message
  BY <1>1
<1> QED
  BY <1>2, <1>3 DEF Held

\* A strand without handlers of some kinds.
LEMMA NoneWaits ==
    ASSUME NEW q \in Seq(Handler), NEW ops, Count(q, ops) = 0
    PROVE  \A i \in DOMAIN q : q[i].op \notin ops
<1>1. Positions(q, ops) = {}
  BY CountIsNat, FS_EmptySet DEF Count
<1> QED
  BY <1>1 DEF Positions

\* No other line of a session waits when one is handled, and none while it
\* broadcasts.
LEMMA OneLine ==
    ASSUME Typed, LocalInv, NEW s \in Sessions
    PROVE  /\ strand[s] # << >> /\ Head(strand[s]).op = "read" =>
                 \A i \in DOMAIN Tail(strand[s]) : Tail(strand[s])[i].op # "read"
           /\ pc[s] = "deliver" => \A i \in DOMAIN strand[s] : strand[s][i].op # "read"
<1>1. /\ Reading(s) <= 1 /\ reads[s] \in Nat /\ strand[s] \in Seq(Handler)
      /\ Count(strand[s], ReadOps) \in Nat
  BY ChainsAreNat DEF LocalInv, Local, Typed
<1>2. ASSUME strand[s] # << >>, Head(strand[s]).op = "read"
      PROVE  \A i \in DOMAIN Tail(strand[s]) : Tail(strand[s])[i].op # "read"
  <2>1. Head(strand[s]).op \in ReadOps
    BY <1>2 DEF ReadOps
  <2>2. /\ Count(strand[s], ReadOps) = Count(Tail(strand[s]), ReadOps) + 1
        /\ Count(Tail(strand[s]), ReadOps) \in Nat
        /\ Tail(strand[s]) \in Seq(Handler)
    BY <1>2, <2>1, Runs1
  <2>3. Count(strand[s], ReadOps) <= 1
    BY <1>1 DEF Reading
  <2>4. Count(Tail(strand[s]), ReadOps) = 0
    BY <2>2, <2>3
  <2> QED
    BY <2>2, <2>4, NoneWaits DEF ReadOps
<1>3. ASSUME pc[s] = "deliver"
      PROVE  \A i \in DOMAIN strand[s] : strand[s][i].op # "read"
  <2>1. Count(strand[s], ReadOps) = 0
    BY <1>1, <1>3 DEF Reading
  <2> QED
    BY <1>1, <2>1, NoneWaits DEF ReadOps
<1> QED
  BY <1>2, <1>3

\* While the front of the queue is on the wire no write is outstanding, the
\* queue holds it, and no second handler of a write waits.
LEMMA OneWrite ==
    ASSUME Typed, LocalInv, NEW s \in Sessions
    PROVE  /\ FrontWritten(strand[s]) => outgoing[s] # << >>
           /\ writes[s] > 0 => outgoing[s] # << >> /\ ~FrontWritten(strand[s])
           /\ strand[s] # << >> /\ Head(strand[s]).op = "written" =>
                 outgoing[s] # << >> /\ ~FrontWritten(Tail(strand[s]))
<1>1. /\ Writing(s) <= 1 /\ writes[s] \in Nat /\ strand[s] \in Seq(Handler)
      /\ Count(strand[s], WriteOps) \in Nat
      /\ Writing(s) = 1 => outgoing[s] # << >>
  BY ChainsAreNat DEF LocalInv, Local, Typed
<1>2. ASSUME FrontWritten(strand[s]) PROVE outgoing[s] # << >>
  <2>1. Count(strand[s], WriteOps) # 0
    BY <1>1, <1>2, NoneWaits DEF FrontWritten, WriteOps
  <2>2. Writing(s) = 1
    BY <1>1, <2>1 DEF Writing
  <2> QED
    BY <1>1, <2>2
<1>3. ASSUME writes[s] > 0 PROVE outgoing[s] # << >> /\ ~FrontWritten(strand[s])
  <2>1. Writing(s) = 1 /\ Count(strand[s], WriteOps) = 0
    BY <1>1, <1>3 DEF Writing
  <2>2. ~FrontWritten(strand[s])
    BY <1>1, <2>1, NoneWaits DEF FrontWritten, WriteOps
  <2> QED
    BY <1>1, <2>1, <2>2
<1>4. ASSUME strand[s] # << >>, Head(strand[s]).op = "written"
      PROVE  outgoing[s] # << >> /\ ~FrontWritten(Tail(strand[s]))
  <2>1. Head(strand[s]).op \in WriteOps
    BY <1>4 DEF WriteOps
  <2>2. /\ Count(strand[s], WriteOps) = Count(Tail(strand[s]), WriteOps) + 1
        /\ Count(Tail(strand[s]), WriteOps) \in Nat
        /\ Tail(strand[s]) \in Seq(Handler)
    BY <1>4, <2>1, Runs1
  <2>3. Writing(s) = 1 /\ Count(Tail(strand[s]), WriteOps) = 0
    BY <1>1, <2>2 DEF Writing
  <2>4. ~FrontWritten(Tail(strand[s]))
    BY <2>2, <2>3, NoneWaits DEF FrontWritten, WriteOps
  <2> QED
    BY <1>1, <2>3, <2>4
<1> QED
  BY <1>2, <1>3, <1>4

\* A line waits in a strand.
ReadWaits(q) == \E i \in DOMAIN q : q[i].op = "read"

LEMMA NoNewRead ==
    ASSUME NEW q \in Seq(Handler)
    PROVE  /\ \A h \in Handler : h.op # "read" /\ ReadWaits(Append(q, h)) => ReadWaits(q)
           /\ q # << >> /\ ReadWaits(Tail(q)) => ReadWaits(q)
<1>1. ASSUME NEW h \in Handler, h.op # "read", ReadWaits(Append(q, h)) PROVE ReadWaits(q)
  <2>1. /\ DOMAIN Append(q, h) = DOMAIN q \cup {Len(q) + 1} /\ Append(q, h)[Len(q) + 1] = h
        /\ \A i \in DOMAIN q : Append(q, h)[i] = q[i]
    OBVIOUS
  <2> QED
    BY <1>1, <2>1 DEF ReadWaits
<1>2. ASSUME q # << >>, ReadWaits(Tail(q)) PROVE ReadWaits(q)
  BY <1>2, TailSends DEF ReadWaits
<1> QED
  BY <1>1, <1>2

\* What a session was not to cause before a step, it is not after it, unless
\* the step is a new line.
CausesNoMore(f, r) ==
    /\ lines'[f] \in Nat /\ lines'[f] >= lines[f]
    /\ Causing(f, r)' => Causing(f, r) \/ lines'[f] > lines[f]

LEMMA NoLine ==
    ASSUME Typed, NEW f \in Sessions, NEW r \in Sessions,
           lines' = lines,
           ReadWaits(strand'[f]) => ReadWaits(strand[f]),
           r \in targets'[f] => r \in targets[f] \/ ReadWaits(strand[f])
    PROVE  CausesNoMore(f, r)
<1>1. lines'[f] \in Nat /\ lines'[f] >= lines[f]
  BY DEF Typed
<1>2. Causing(f, r)' => ReadWaits(strand'[f]) \/ r \in targets'[f]
  BY DEF Causing, ReadWaits
<1>3. ReadWaits(strand[f]) \/ r \in targets[f] => Causing(f, r)
  BY DEF Causing, ReadWaits
<1> QED
  BY <1>1, <1>2, <1>3 DEF CausesNoMore

LEMMA CausingStep ==
    ASSUME Typed, [Next]_vars, NEW f \in Sessions, NEW r \in Sessions
    PROVE  CausesNoMore(f, r)
<1>1. lines[f] \in Nat /\ strand[f] \in Seq(Handler)
  BY DEF Typed
<1>3. CASE UNCHANGED vars
  BY <1>3, NoLine DEF vars, sessionVars, handlerVars, ReadWaits, Causing
<1>4. CASE Next
  <2> PICK s \in Sessions :
        \/ Accept(s) \/ Join(s) \/ StartReading(s)
        \/ ReadCompletes(s) \/ ReadFails(s) \/ WriteCompletes(s) \/ WriteFails(s)
        \/ HandleRequest(s) \/ IgnoreLine(s) \/ Gather(s) \/ Deliver(s)
        \/ BroadcastDone(s) \/ Send(s) \/ Written(s) \/ Stop(s) \/ Leave(s)
        \/ HandlerThrows(s)
    BY <1>4 DEF Next, Run
  <2>1. CASE ReadCompletes(s)
    <3>1. lines' = [lines EXCEPT ![s] = @ + 1] /\ targets' = targets
      BY <2>1 DEF ReadCompletes, handlerVars
    <3>2. CASE f = s
      <4>1. lines'[f] = lines[f] + 1
        BY <3>1, <3>2 DEF Typed
      <4>2. lines'[f] \in Nat /\ lines'[f] >= lines[f] /\ lines'[f] > lines[f]
        BY <1>1, <4>1
      <4> QED
        BY <4>2 DEF CausesNoMore
    <3>3. CASE f # s
      <4>1. lines'[f] = lines[f] /\ strand'[f] = strand[f]
        BY <2>1, <3>1, <3>3 DEF ReadCompletes, Typed
      <4>2. lines'[f] \in Nat /\ lines'[f] >= lines[f]
        BY <1>1, <4>1
      <4>3. Causing(f, r)' => Causing(f, r)
        BY <3>1, <4>1 DEF Causing
      <4> QED
        BY <4>2, <4>3 DEF CausesNoMore
    <3> QED
      BY <3>2, <3>3
  <2>2. CASE Accept(s) \/ Join(s) \/ StartReading(s) \/ BroadcastDone(s) \/ Leave(s)
    <3>1. UNCHANGED <<lines, strand, targets>>
      BY <2>2 DEF Accept, Join, StartReading, BroadcastDone, Leave, handlerVars, sessionVars
    <3> QED
      BY NoLine, <3>1
  <2>3. CASE ReadFails(s) \/ WriteCompletes(s) \/ WriteFails(s)
    <3>1. UNCHANGED <<lines, targets>>
      BY <2>3 DEF ReadFails, WriteCompletes, WriteFails, handlerVars, sessionVars
    <3>2. PICK op \in {"readError", "written", "writeError"} :
              strand' = [strand EXCEPT ![s] = Append(@, [op |-> op])]
      BY <2>3 DEF ReadFails, WriteCompletes, WriteFails
    <3>3. strand'[f] = strand[f] \/ strand'[f] = Append(strand[f], [op |-> op])
      BY <3>2 DEF Typed
    <3>4. [op |-> op] \in Handler /\ [op |-> op].op # "read"
      BY HandlerFacts
    <3>5. ReadWaits(strand'[f]) => ReadWaits(strand[f])
      BY <1>1, <3>3, <3>4, NoNewRead
    <3> QED
      BY NoLine, <3>1, <3>5
  <2>4. CASE HandleRequest(s)
    <3> DEFINE h == [op |-> "send", msg |-> Caused(s)]
    <3>1. h \in Handler /\ h.op # "read"
      BY HandlerFacts DEF Typed
    <3>2. /\ UNCHANGED <<lines, targets>> /\ strand[s] # << >>
          /\ strand' = [strand EXCEPT ![s] = Append(Tail(@), h)]
      BY <2>4 DEF HandleRequest, Reads, Runs, handlerVars
    <3> HIDE DEF h
    <3>3. strand'[f] = strand[f] \/ (strand[f] # << >> /\ strand'[f] = Append(Tail(strand[f]), h))
      BY <3>2 DEF Typed
    <3>4. strand[f] # << >> => Tail(strand[f]) \in Seq(Handler)
      BY <1>1
    <3>5. ReadWaits(strand'[f]) => ReadWaits(strand[f])
      BY <1>1, <3>1, <3>3, <3>4, NoNewRead
    <3> QED
      BY NoLine, <3>2, <3>5
  <2>5. CASE IgnoreLine(s) \/ Gather(s) \/ Send(s) \/ Written(s) \/ Stop(s)
    <3>1. /\ lines' = lines /\ strand[s] # << >>
          /\ strand' = [strand EXCEPT ![s] = Tail(@)]
      BY <2>5 DEF IgnoreLine, Gather, Send, Written, Stop, Reads, Runs, sessionVars
    <3>2. strand'[f] = strand[f] \/ (strand[f] # << >> /\ strand'[f] = Tail(strand[f]))
      BY <3>1 DEF Typed
    <3>3. ReadWaits(strand'[f]) => ReadWaits(strand[f])
      BY <1>1, <3>2, NoNewRead
    <3>4. r \in targets'[f] => r \in targets[f] \/ ReadWaits(strand[f])
      <4>1. CASE targets'[f] = targets[f]
        BY <4>1
      <4>2. CASE targets'[f] # targets[f]
        <5>1. Gather(s) /\ f = s
          BY <2>5, <4>2 DEF IgnoreLine, Gather, Send, Written, Stop, handlerVars, Typed
        <5>2. strand[f] # << >> /\ Head(strand[f]).op = "read"
          BY <5>1 DEF Gather, Reads, Runs
        <5>3. ReadWaits(strand[f])
          BY <1>1, <5>2, TailSends DEF ReadWaits
        <5> QED
          BY <5>3
      <4> QED
        BY <4>1, <4>2
    <3> QED
      BY NoLine, <3>1, <3>3, <3>4
  <2>6. CASE Deliver(s)
    <3> DEFINE h == [op |-> "send", msg |-> Caused(s)]
    <3>1. h \in Handler /\ h.op # "read"
      BY HandlerFacts DEF Typed
    <3>2. PICK t \in targets[s] :
              /\ strand' = [strand EXCEPT ![t] = Append(@, h)]
              /\ targets' = [targets EXCEPT ![s] = @ \ {t}]
      BY <2>6 DEF Deliver
    <3>3. lines' = lines
      BY <2>6 DEF Deliver, sessionVars
    <3> HIDE DEF h
    <3>4. strand'[f] = strand[f] \/ strand'[f] = Append(strand[f], h)
      BY <3>2 DEF Typed
    <3>5. ReadWaits(strand'[f]) => ReadWaits(strand[f])
      BY <1>1, <3>1, <3>4, NoNewRead
    <3>6. r \in targets'[f] => r \in targets[f]
      BY <3>2 DEF Typed
    <3> QED
      BY NoLine, <3>3, <3>5, <3>6
  <2>7. CASE HandlerThrows(s)
    BY <2>7, NoLine, ThrowLeaves
  <2> QED
    BY <2>1, <2>2, <2>3, <2>4, <2>5, <2>6, <2>7
<1> QED
  BY <1>3, <1>4

\* So a message stays behind none and before what its sender is still to cause.
LEMMA FreshStays ==
    ASSUME Typed, [Next]_vars, NEW r \in Sessions, NEW m \in Message, Fresh(r, m)
    PROVE  Fresh(r, m)'
<1>1. m.from \in Sessions /\ m.line \in Nat
  BY DEF Message
<1>2. /\ lines'[m.from] \in Nat /\ lines'[m.from] >= lines[m.from]
      /\ Causing(m.from, r)' => Causing(m.from, r) \/ lines'[m.from] > lines[m.from]
  BY <1>1, CausingStep DEF CausesNoMore
<1>3. lines[m.from] \in Nat /\ m.line <= lines[m.from]
  BY <1>1 DEF Typed, Fresh
<1>4. m.line <= lines'[m.from]
  BY <1>1, <1>2, <1>3
<1>5. ASSUME Causing(m.from, r)' PROVE m.line < lines'[m.from]
  <2>1. CASE lines'[m.from] > lines[m.from]
    BY <1>1, <1>2, <1>3, <2>1
  <2>2. CASE Causing(m.from, r)
    <3>1. m.line < lines[m.from]
      BY <2>2 DEF Fresh
    <3> QED
      BY <1>1, <1>2, <1>3, <3>1
  <2> QED
    BY <1>2, <1>5, <2>1, <2>2
<1> QED
  BY <1>4, <1>5 DEF Fresh

-----------------------------------------------------------------------------
(* The steps.                                                              *)

Ord(r) == InOrder(wire[r], outgoing[r], strand[r])
Mail(r) == Held(wire[r], outgoing[r], strand[r])

\* What is to r stays in order, and no message is added.
NothingNew(r) == Ord(r)' /\ Mail(r)' \subseteq Mail(r)

LEMMA Untouched ==
    ASSUME NEW r, Ord(r),
           wire'[r] = wire[r], outgoing'[r] = outgoing[r], strand'[r] = strand[r]
    PROVE  NothingNew(r)
  BY DEF NothingNew, Ord, Mail

\* The accept thread, and the handlers that send nothing.
LEMMA SendsNothing ==
    ASSUME Typed, NEW s \in Sessions, NEW r \in Sessions, Ord(r),
           \/ Accept(s) \/ Join(s) \/ StartReading(s)
           \/ IgnoreLine(s) \/ Gather(s) \/ BroadcastDone(s) \/ Stop(s) \/ Leave(s)
    PROVE  NothingNew(r)
<1>1. wire'[r] = wire[r] /\ outgoing'[r] = outgoing[r]
  BY DEF Accept, Join, StartReading, IgnoreLine, Gather, BroadcastDone, Stop, Leave, sessionVars
<1>2. CASE Accept(s) \/ Join(s) \/ StartReading(s) \/ BroadcastDone(s) \/ Leave(s)
  <2>1. strand' = strand
    BY <1>2 DEF Accept, Join, StartReading, BroadcastDone, Leave
  <2> QED
    BY <1>1, <2>1, Untouched
<1>3. CASE IgnoreLine(s) \/ Gather(s) \/ Stop(s)
  <2>1. /\ strand[s] # << >> /\ Head(strand[s]).op \notin {"send", "written"}
        /\ strand' = [strand EXCEPT ![s] = Tail(@)]
    BY <1>3 DEF IgnoreLine, Gather, Stop, Reads, Runs
  <2>2. CASE r # s
    BY <1>1, <2>1, <2>2, Untouched DEF Typed
  <2>3. CASE r = s
    <3>1. strand[r] \in Seq(Handler) /\ strand'[r] = Tail(strand[r])
      BY <2>1, <2>3 DEF Typed
    <3>2. /\ InOrder(wire[r], outgoing[r], Tail(strand[r]))
          /\ Held(wire[r], outgoing[r], Tail(strand[r])) \subseteq Mail(r)
      BY <2>1, <2>3, <3>1, RunOther DEF Ord, Mail
    <3> QED
      BY <1>1, <3>1, <3>2 DEF NothingNew, Ord, Mail
  <2> QED
    BY <2>2, <2>3
<1> QED
  BY <1>2, <1>3

\* The operations of a socket.
LEMMA SocketSends ==
    ASSUME Typed, LocalInv, NEW s \in Sessions, NEW r \in Sessions, Ord(r),
           ReadCompletes(s) \/ ReadFails(s) \/ WriteCompletes(s) \/ WriteFails(s)
    PROVE  NothingNew(r)
<1>1. outgoing' = outgoing
  BY DEF ReadCompletes, ReadFails, WriteCompletes, WriteFails, sessionVars
<1>2. /\ wire[s] \in Seq(Message) /\ outgoing[s] \in Seq(Message) /\ strand[s] \in Seq(Handler)
  BY DEF Typed
<1>3. CASE r # s
  <2>1. wire'[r] = wire[r] /\ strand'[r] = strand[r]
    BY <1>3 DEF ReadCompletes, ReadFails, WriteCompletes, WriteFails, sessionVars, Typed
  <2> QED
    BY <1>1, <2>1, Untouched
<1>4. CASE r = s /\ WriteCompletes(s)
  <2> DEFINE h == [op |-> "written"]
  <2>1. /\ wire'[r] = Append(wire[r], Head(outgoing[r]))
        /\ strand'[r] = Append(strand[r], h) /\ writes[r] > 0
    BY <1>4 DEF WriteCompletes, Typed
  <2>2. h \in Handler /\ h.op = "written"
    BY HandlerFacts
  <2>3. outgoing[r] # << >> /\ ~FrontWritten(strand[r])
    BY <2>1, OneWrite
  <2> HIDE DEF h
  <2>4. /\ InOrder(Append(wire[r], Head(outgoing[r])), outgoing[r], Append(strand[r], h))
        /\ Held(Append(wire[r], Head(outgoing[r])), outgoing[r], Append(strand[r], h)) = Mail(r)
    BY <1>2, <1>4, <2>2, <2>3, FrontIsWritten DEF Ord, Mail
  <2> QED
    BY <1>1, <2>1, <2>4 DEF NothingNew, Ord, Mail
<1>5. CASE r = s /\ ~WriteCompletes(s)
  <2>1. PICK h \in Handler : /\ h.op \notin {"send", "written"}
                             /\ strand' = [strand EXCEPT ![s] = Append(@, h)]
    <3>1. CASE ReadCompletes(s)
      <4>1. PICK line \in Lines :
                strand' = [strand EXCEPT ![s] = Append(@, [op |-> "read", line |-> line])]
        BY <3>1 DEF ReadCompletes
      <4>2. [op |-> "read", line |-> line] \in Handler
        BY HandlerFacts
      <4> QED
        BY <4>1, <4>2
    <3>2. CASE ReadFails(s) \/ WriteFails(s)
      <4>1. PICK op \in {"readError", "writeError"} :
                strand' = [strand EXCEPT ![s] = Append(@, [op |-> op])]
        BY <3>2 DEF ReadFails, WriteFails
      <4>2. [op |-> op] \in Handler
        BY HandlerFacts
      <4> QED
        BY <4>1, <4>2
    <3> QED
      BY <1>5, <3>1, <3>2
  <2>2. strand'[r] = Append(strand[r], h) /\ wire'[r] = wire[r]
    BY <1>5, <2>1 DEF ReadCompletes, ReadFails, WriteFails, sessionVars, Typed
  <2>3. /\ InOrder(wire[r], outgoing[r], Append(strand[r], h))
        /\ Held(wire[r], outgoing[r], Append(strand[r], h)) = Mail(r)
    BY <1>2, <1>5, <2>1, PostOther DEF Ord, Mail
  <2> QED
    BY <1>1, <2>2, <2>3 DEF NothingNew, Ord, Mail
<1> QED
  BY <1>3, <1>4, <1>5

\* The handlers that queue and unqueue.
LEMMA QueueKeepsOrder ==
    ASSUME Typed, LocalInv, NEW s \in Sessions, NEW r \in Sessions, Ord(r),
           Send(s) \/ Written(s)
    PROVE  NothingNew(r)
<1>1. wire' = wire
  BY DEF Send, Written
<1>2. /\ wire[s] \in Seq(Message) /\ outgoing[s] \in Seq(Message) /\ strand[s] \in Seq(Handler)
      /\ strand[s] # << >>
  BY DEF Typed, Send, Written, Runs
<1>3. CASE r # s
  <2>1. outgoing'[r] = outgoing[r] /\ strand'[r] = strand[r]
    BY <1>3 DEF Send, Written, Typed
  <2> QED
    BY <1>1, <2>1, Untouched
<1>4. CASE r = s /\ Send(s)
  <2>1. /\ outgoing'[r] = Append(outgoing[r], Head(strand[r]).msg)
        /\ strand'[r] = Tail(strand[r]) /\ Head(strand[r]).op = "send"
    BY <1>4 DEF Send, Runs, Typed
  <2>2. Head(strand[r]).msg \in Message
    BY <1>2, <1>4, <2>1, Runs1, HandlerFacts
  <2>3. outgoing[r] = << >> => ~FrontWritten(strand[r])
    BY OneWrite
  <2>4. /\ InOrder(wire[r], Append(outgoing[r], Head(strand[r]).msg), Tail(strand[r]))
        /\ Held(wire[r], Append(outgoing[r], Head(strand[r]).msg), Tail(strand[r]))
             \subseteq Mail(r)
    BY <1>2, <1>4, <2>1, <2>2, <2>3, RunSend DEF Ord, Mail
  <2> QED
    BY <1>1, <2>1, <2>4 DEF NothingNew, Ord, Mail
<1>5. CASE r = s /\ Written(s)
  <2>1. /\ outgoing'[r] = Tail(outgoing[r])
        /\ strand'[r] = Tail(strand[r]) /\ Head(strand[r]).op = "written"
    BY <1>5 DEF Written, Runs, Typed
  <2>2. outgoing[r] # << >> /\ ~FrontWritten(Tail(strand[r]))
    BY <1>2, <1>5, <2>1, OneWrite
  <2>3. /\ InOrder(wire[r], Tail(outgoing[r]), Tail(strand[r]))
        /\ Held(wire[r], Tail(outgoing[r]), Tail(strand[r])) \subseteq Mail(r)
    BY <1>2, <1>5, <2>1, <2>2, RunWritten DEF Ord, Mail
  <2> QED
    BY <1>1, <2>1, <2>3 DEF NothingNew, Ord, Mail
<1> QED
  BY <1>3, <1>4, <1>5

\* A new message, of the last line f read, is behind all that is there, and that
\* line causes r no other.
OneNew(r, f) ==
    /\ Ord(r)'
    /\ Mail(r)' \subseteq Mail(r) \cup {[from |-> f, line |-> lines'[f]]}
    /\ ~Causing(f, r)'

\* What the line that is handled causes comes behind what came before.
LEMMA CausedIsLast ==
    ASSUME Typed, FreshInv, NEW s \in Sessions, NEW r \in Sessions, Causing(s, r)
    PROVE  \A m \in Mail(r) : Before(m, Caused(s))
<1> SUFFICES ASSUME NEW m \in Mail(r), m.from = s PROVE m.line < lines[s]
  BY DEF Before, Caused
<1> QED
  BY DEF FreshInv, Fresh, Mail

LEMMA AnswerIsNew ==
    ASSUME OInv, NEW s \in Sessions, HandleRequest(s)
    PROVE  OneNew(s, s)
<1> DEFINE h == [op |-> "send", msg |-> Caused(s)]
           t == Tail(strand[s])
<1>1. Typed /\ LocalInv /\ OrderInv /\ FreshInv /\ BroadcastInv
  BY DEF OInv, IInv
<1>2. /\ wire[s] \in Seq(Message) /\ outgoing[s] \in Seq(Message) /\ strand[s] \in Seq(Handler)
      /\ lines[s] \in Nat
  BY <1>1 DEF Typed
<1>3. /\ strand[s] # << >> /\ Head(strand[s]).op = "read" /\ pc[s] = "idle"
      /\ strand'[s] = Append(t, h) /\ targets' = targets
      /\ lines' = lines /\ wire' = wire /\ outgoing' = outgoing
  BY <1>1 DEF HandleRequest, Reads, Runs, handlerVars, Typed
<1>4. h \in Handler /\ h.op = "send" /\ h.msg = Caused(s) /\ Caused(s) \in Message
      /\ t \in Seq(Handler)
  BY <1>2, <1>3, HandlerFacts
<1>5. InOrder(wire[s], outgoing[s], t) /\ Held(wire[s], outgoing[s], t) \subseteq Mail(s)
  BY <1>1, <1>2, <1>3, RunOther DEF OrderInv, Mail
<1>6. Causing(s, s)
  BY <1>2, <1>3, TailSends DEF Causing
<1>7. \A m \in Held(wire[s], outgoing[s], t) : Before(m, h.msg)
  BY <1>1, <1>4, <1>5, <1>6, CausedIsLast
<1>8. ~ReadWaits(t)
  BY <1>1, <1>3, OneLine DEF ReadWaits
<1>9. targets[s] = {}
  BY <1>1, <1>3 DEF BroadcastInv
<1> HIDE DEF h, t
<1>10. /\ InOrder(wire[s], outgoing[s], Append(t, h))
       /\ Held(wire[s], outgoing[s], Append(t, h)) =
              Held(wire[s], outgoing[s], t) \cup {Caused(s)}
  BY <1>2, <1>4, <1>5, <1>7, PostMessage
<1>11. ~Causing(s, s)'
  BY <1>3, <1>4, <1>8, <1>9, NoNewRead DEF Causing, ReadWaits
<1>12. Ord(s)' /\ Mail(s)' \subseteq Mail(s) \cup {[from |-> s, line |-> lines'[s]]}
  BY <1>3, <1>5, <1>10 DEF Ord, Mail, Caused
<1> QED
  BY <1>11, <1>12 DEF OneNew

LEMMA DeliveryIsNew ==
    ASSUME OInv, NEW s \in Sessions, Deliver(s), NEW r \in Sessions
    PROVE  NothingNew(r) \/ OneNew(r, s)
<1> DEFINE h == [op |-> "send", msg |-> Caused(s)]
<1>1. Typed /\ LocalInv /\ OrderInv /\ FreshInv
  BY DEF OInv, IInv
<1>2. /\ wire[r] \in Seq(Message) /\ outgoing[r] \in Seq(Message) /\ strand[r] \in Seq(Handler)
      /\ lines[s] \in Nat /\ strand[s] \in Seq(Handler)
  BY <1>1 DEF Typed
<1>3. PICK t \in targets[s] :
          /\ strand' = [strand EXCEPT ![t] = Append(@, h)]
          /\ targets' = [targets EXCEPT ![s] = @ \ {t}]
  BY DEF Deliver
<1>4. pc[s] = "deliver" /\ lines' = lines /\ wire' = wire /\ outgoing' = outgoing
  BY DEF Deliver, sessionVars
<1>5. h \in Handler /\ h.op = "send" /\ h.msg = Caused(s) /\ Caused(s) \in Message
  BY <1>2, HandlerFacts
<1> HIDE DEF h
<1>6. CASE r # t
  <2>1. strand'[r] = strand[r]
    BY <1>1, <1>3, <1>6 DEF Typed
  <2>2. Ord(r)
    BY <1>1 DEF OrderInv, Ord
  <2> QED
    BY <1>4, <2>1, <2>2, Untouched
<1>7. CASE r = t
  <2>1. strand'[r] = Append(strand[r], h) /\ r \notin targets'[s] /\ r \in targets[s]
    BY <1>1, <1>3, <1>7 DEF Typed
  <2>2. \A m \in Mail(r) : Before(m, h.msg)
    BY <1>1, <1>5, <2>1, CausedIsLast DEF Causing
  <2>3. /\ InOrder(wire[r], outgoing[r], Append(strand[r], h))
        /\ Held(wire[r], outgoing[r], Append(strand[r], h)) = Mail(r) \cup {Caused(s)}
    BY <1>1, <1>2, <1>5, <2>2, PostMessage DEF OrderInv, Mail
  <2>4. strand'[s] = strand[s] \/ strand'[s] = Append(strand[s], h)
    BY <1>1, <1>3 DEF Typed
  <2>5. ~ReadWaits(strand[s])
    BY <1>1, <1>4, OneLine DEF ReadWaits
  <2>6. ~ReadWaits(strand'[s])
    <3>1. CASE strand'[s] = strand[s]
      BY <2>5, <3>1
    <3>2. CASE strand'[s] = Append(strand[s], h)
      BY <1>2, <1>5, <2>5, <3>2, NoNewRead
    <3> QED
      BY <2>4, <3>1, <3>2
  <2>7. ~Causing(s, r)'
    BY <2>1, <2>6 DEF Causing, ReadWaits
  <2>8. Ord(r)' /\ Mail(r)' \subseteq Mail(r) \cup {[from |-> s, line |-> lines'[s]]}
    BY <1>4, <2>1, <2>3 DEF Ord, Mail, Caused
  <2> QED
    BY <2>7, <2>8 DEF OneNew
<1> QED
  BY <1>6, <1>7

LEMMA OrderStep ==
    ASSUME OInv, [Next]_vars
    PROVE  OrderInv' /\ FreshInv'
<1> SUFFICES ASSUME NEW r \in Sessions
             PROVE  Ord(r)' /\ \A m \in Mail(r)' : Fresh(r, m)'
  BY DEF OrderInv, FreshInv, Ord, Mail
<1>1. Typed /\ LocalInv /\ Ord(r) /\ \A m \in Mail(r) : m \in Message /\ Fresh(r, m)
  BY HeldAreMessages DEF OInv, IInv, OrderInv, FreshInv, Ord, Mail
<1>2. \A m \in Mail(r) : Fresh(r, m)'
  BY <1>1, FreshStays
<1>3. NothingNew(r) \/ \E s \in Sessions : OneNew(r, s)
  <2>1. CASE UNCHANGED vars
    BY <1>1, <2>1, Untouched DEF vars, sessionVars
  <2>2. CASE Next
    <3> PICK s \in Sessions :
          \/ Accept(s) \/ Join(s) \/ StartReading(s)
          \/ ReadCompletes(s) \/ ReadFails(s) \/ WriteCompletes(s) \/ WriteFails(s)
          \/ HandleRequest(s) \/ IgnoreLine(s) \/ Gather(s) \/ Deliver(s)
          \/ BroadcastDone(s) \/ Send(s) \/ Written(s) \/ Stop(s) \/ Leave(s)
          \/ HandlerThrows(s)
      BY <2>2 DEF Next, Run
    <3>1. CASE HandleRequest(s)
      <4>1. CASE r = s
        BY <3>1, <4>1, AnswerIsNew
      <4>2. CASE r # s
        BY <1>1, <3>1, <4>2, Untouched DEF HandleRequest, Typed
      <4> QED
        BY <4>1, <4>2
    <3>2. CASE Deliver(s)
      BY <3>2, DeliveryIsNew
    <3>3. CASE HandlerThrows(s)
      BY <1>1, <3>3, ThrowLeaves, Untouched
    <3>4. CASE ~HandleRequest(s) /\ ~Deliver(s) /\ ~HandlerThrows(s)
      BY <1>1, <3>4, SendsNothing, SocketSends, QueueKeepsOrder
    <3> QED
      BY <3>1, <3>2, <3>3, <3>4
  <2> QED
    BY <2>1, <2>2
<1>4. CASE NothingNew(r)
  BY <1>2, <1>4 DEF NothingNew
<1>5. ASSUME NEW f \in Sessions, OneNew(r, f)
      PROVE  Ord(r)' /\ \A m \in Mail(r)' : Fresh(r, m)'
  <2>1. lines'[f] \in Nat /\ ~Causing(f, r)'
    BY <1>1, <1>5, CausingStep DEF CausesNoMore, OneNew
  <2>2. ASSUME NEW m, m = [from |-> f, line |-> lines'[f]]
        PROVE  Fresh(r, m)'
    <3>1. m.from = f /\ m.line = lines'[f] /\ m.line <= lines'[f]
      BY <2>1, <2>2
    <3> QED
      BY <2>1, <3>1 DEF Fresh
  <2> QED
    BY <1>2, <1>5, <2>2 DEF OneNew
<1> QED
  BY <1>3, <1>4, <1>5

LEMMA BroadcastStep ==
    ASSUME Typed, BroadcastInv, [Next]_vars
    PROVE  BroadcastInv'
<1> SUFFICES ASSUME NEW u \in Sessions, pc'[u] # "deliver" PROVE targets'[u] = {}
  BY DEF BroadcastInv
<1>1. CASE UNCHANGED vars
  BY <1>1 DEF vars, handlerVars, BroadcastInv
<1>2. CASE Next
  <2> PICK s \in Sessions :
        \/ Accept(s) \/ Join(s) \/ StartReading(s)
        \/ ReadCompletes(s) \/ ReadFails(s) \/ WriteCompletes(s) \/ WriteFails(s)
        \/ HandleRequest(s) \/ IgnoreLine(s) \/ Gather(s) \/ Deliver(s)
        \/ BroadcastDone(s) \/ Send(s) \/ Written(s) \/ Stop(s) \/ Leave(s)
        \/ HandlerThrows(s)
    BY <1>2 DEF Next, Run
  <2>1. CASE \/ Accept(s) \/ Join(s) \/ StartReading(s)
             \/ ReadCompletes(s) \/ ReadFails(s) \/ WriteCompletes(s) \/ WriteFails(s)
             \/ HandleRequest(s) \/ IgnoreLine(s) \/ Send(s) \/ Written(s)
    <3>1. UNCHANGED <<pc, targets>>
      BY <2>1 DEF Accept, Join, StartReading, ReadCompletes, ReadFails, WriteCompletes, WriteFails,
         HandleRequest, IgnoreLine, Send, Written, handlerVars
    <3> QED
      BY <3>1 DEF BroadcastInv
  <2>2. CASE Gather(s)
    <3>1. pc' = [pc EXCEPT ![s] = "deliver"] /\ u # s => targets'[u] = targets[u]
      BY <2>2 DEF Gather, Typed
    <3> QED
      BY <2>2, <3>1 DEF Gather, BroadcastInv, Typed
  <2>3. CASE Deliver(s)
    <3>1. pc' = pc /\ pc[s] = "deliver" /\ (u # s => targets'[u] = targets[u])
      BY <2>3 DEF Deliver, Typed
    <3> QED
      BY <3>1 DEF BroadcastInv
  <2>4. CASE BroadcastDone(s)
    <3>1. targets' = targets /\ targets[s] = {} /\ (u # s => pc'[u] = pc[u])
      BY <2>4 DEF BroadcastDone, Typed
    <3> QED
      BY <3>1 DEF BroadcastInv
  <2>5. CASE Stop(s) \/ Leave(s)
    <3>1. targets' = targets /\ pc[s] # "deliver" /\ (u # s => pc'[u] = pc[u])
      BY <2>5 DEF Stop, Leave, Runs, Typed
    <3> QED
      BY <3>1 DEF BroadcastInv
  <2>6. CASE HandlerThrows(s)
    BY <2>6, ThrowLeaves DEF BroadcastInv
  <2> QED
    BY <2>1, <2>2, <2>3, <2>4, <2>5, <2>6
<1> QED
  BY <1>1, <1>2

-----------------------------------------------------------------------------
\* The messages of each sender stay in order on their way from the strand to
\* the wire, and none is behind what its sender's last line may still cause.
THEOREM OrderInvariance == Spec => []OInv
<1>1. Init => OInv
  BY InitOrder
<1>2. OInv /\ [Next]_vars => OInv'
  <2> SUFFICES ASSUME OInv, [Next]_vars PROVE OInv'
    OBVIOUS
  <2>1. IInv'
    BY TypedStep, LocalStep, TargetStep, RegistryStep DEF OInv, IInv
  <2>2. OrderInv' /\ FreshInv' /\ BroadcastInv'
    BY OrderStep, BroadcastStep DEF OInv, IInv
  <2> QED
    BY <2>1, <2>2 DEF OInv
<1> QED
  BY <1>1, <1>2, PTL DEF Spec

\* A client receives what one session caused in the order of that session's
\* lines, each message at most once, with any number of sessions and lines.
THEOREM SenderOrderKept == Spec => []PerSenderOrder
<1>1. OInv => PerSenderOrder
  BY DEF OInv, OrderInv, InOrder, Ordered, Before, PerSenderOrder
<1> QED
  BY <1>1, OrderInvariance, PTL
=============================================================================
