------------------------- MODULE MetricsTableProofs -------------------------
(***************************************************************************)
(* Proofs about MetricsTable, for any nodes, retention and period, and any *)
(* number of rows, purges and restarts.                                    *)
(***************************************************************************)
EXTENDS MetricsTable, TLAPS

-----------------------------------------------------------------------------
(* The inductive invariant.                                                *)

\* The parts of the type invariant: the table, the timer, and the rest.
TableTyped ==
    /\ rows \subseteq Row
    /\ lastRowId \in Nat /\ \A r \in rows : r.id \in 1 .. lastRowId
    /\ \A r, q \in rows : r.id = q.id => r = q
TimerTyped ==
    /\ server \in {"down", "serving"}
    /\ timer \in {Off} \cup 0 .. Period
    /\ timer = Off <=> server = "down"
SeenTyped == shown \in [Nodes -> Ages] /\ newest \in [Nodes -> Ages]

\* No row of a node is newer than its newest snapshot, and the row of that
\* snapshot is there until it is too old.
NewestInv ==
    \A n \in Nodes : /\ \A r \in rows : r.node = n => newest[n] <= r.age
                     /\ newest[n] <= Retention => \E r \in rows : r.node = n /\ r.age = newest[n]

\* Nobody was shown a snapshot newer than the newest.
ShownInv == \A n \in Nodes : newest[n] <= shown[n]

IInv == TableTyped /\ TimerTyped /\ SeenTyped /\ NewestInv /\ ShownInv

LEMMA TypeParts == TypeOK <=> TableTyped /\ TimerTyped /\ SeenTyped
BY DEF TypeOK, TableTyped, TimerTyped, SeenTyped

-----------------------------------------------------------------------------
\* An hour keeps the order of ages, and never makes an expired one fresh.
LEMMA OlderFacts ==
    /\ \A a \in Ages : Older(a) \in Ages /\ (Older(a) <= Retention => a <= Retention)
    /\ \A a, b \in Ages : a <= b => Older(a) <= Older(b)
BY RetentionAssumption, AheadAssumption DEF Ages, Older, Expired

LEMMA AgesFacts == /\ Ages \subseteq Int /\ Expired \in Ages
                   /\ \A a \in Ages : a <= Expired /\ (a > Retention => a = Expired)
BY RetentionAssumption, AheadAssumption DEF Ages, Expired

LEMMA InitEstablishes == Init => IInv
<1> SUFFICES ASSUME Init PROVE IInv
  OBVIOUS
<1>1. TableTyped /\ TimerTyped
  BY DEF Init, TableTyped, TimerTyped
<1>2. SeenTyped
  BY AgesFacts DEF Init, SeenTyped
<1>3. NewestInv /\ ShownInv
  BY RetentionAssumption DEF Init, NewestInv, ShownInv, Expired
<1> QED
  BY <1>1, <1>2, <1>3 DEF IInv

\* A row more: it is the newest of its node or is behind the newest.
LEMMA InsertPreserves ==
    ASSUME IInv, NEW n \in Nodes, NEW a \in Ages, InsertSnapshot(n, a)
    PROVE  IInv'
<1>0. TableTyped /\ TimerTyped /\ SeenTyped /\ NewestInv /\ ShownInv
  BY DEF IInv
<1> DEFINE new == [id |-> lastRowId + 1, node |-> n, age |-> a]
<1>1. /\ rows' = rows \cup {new} /\ lastRowId' = lastRowId + 1
      /\ newest' = [newest EXCEPT ![n] = IF a < @ THEN a ELSE @]
      /\ UNCHANGED <<server, timer, shown>>
  BY DEF InsertSnapshot
<1>2. new \in Row /\ new.id = lastRowId + 1 /\ new.node = n /\ new.age = a
  BY <1>0 DEF TableTyped, Row
<1> HIDE DEF new
<1>3. TableTyped'
  BY <1>0, <1>1, <1>2 DEF TableTyped
<1>4. TimerTyped'
  BY <1>0, <1>1 DEF TimerTyped
<1>5. SeenTyped'
  BY <1>0, <1>1 DEF SeenTyped
<1>6. newest'[n] <= a /\ newest'[n] <= newest[n] /\ newest'[n] \in {a, newest[n]}
      /\ \A m \in Nodes \ {n} : newest'[m] = newest[m]
  <2>1. newest[n] \in Int /\ a \in Int
    BY <1>0, AgesFacts DEF SeenTyped
  <2>2. newest'[n] = IF a < newest[n] THEN a ELSE newest[n]
    BY <1>0, <1>1 DEF SeenTyped
  <2>3. \A m \in Nodes \ {n} : newest'[m] = newest[m]
    BY <1>0, <1>1 DEF SeenTyped
  <2> QED
    BY <2>1, <2>2, <2>3
<1>7. \A r \in rows : r.age \in Int /\ r.node \in Nodes
  BY <1>0, AgesFacts DEF TableTyped, Row
<1>8. NewestInv'
  <2> SUFFICES ASSUME NEW m \in Nodes
               PROVE  /\ \A r \in rows' : r.node = m => newest'[m] <= r.age
                      /\ newest'[m] <= Retention =>
                             \E r \in rows' : r.node = m /\ r.age = newest'[m]
    BY DEF NewestInv
  <2>1. newest[m] \in Int /\ newest'[m] \in Int
    BY <1>0, <1>5, AgesFacts DEF SeenTyped
  <2>2. CASE m = n
    BY <1>0, <1>1, <1>2, <1>6, <1>7, <2>1, <2>2 DEF NewestInv
  <2>3. CASE m # n
    BY <1>0, <1>1, <1>2, <1>6, <2>3 DEF NewestInv
  <2> QED
    BY <2>2, <2>3
<1>9. ShownInv'
  <2> SUFFICES ASSUME NEW m \in Nodes PROVE newest'[m] <= shown[m]
    BY <1>1 DEF ShownInv
  <2>1. newest[m] \in Int /\ newest'[m] \in Int /\ shown[m] \in Int
    BY <1>0, <1>5, AgesFacts DEF SeenTyped
  <2>2. newest[m] <= shown[m] /\ newest'[m] <= newest[m]
    BY <1>0, <1>6, <2>1 DEF ShownInv
  <2> QED
    BY <2>1, <2>2
<1> QED
  BY <1>3, <1>4, <1>5, <1>8, <1>9 DEF IInv

\* The administrator is shown a row, and none is newer than the newest.
LEMMA GetMetricsPreserves ==
    ASSUME IInv, NEW n \in Nodes, GetMetrics(n)
    PROVE  IInv'
<1>0. TableTyped /\ TimerTyped /\ SeenTyped /\ NewestInv /\ ShownInv
  BY DEF IInv
<1>1. PICK r \in rows : r.node = n /\ shown' = [shown EXCEPT ![n] = r.age]
  BY DEF GetMetrics, IsLatest
<1>2. UNCHANGED <<rows, lastRowId, server, timer, newest>>
  BY DEF GetMetrics
<1>3. TableTyped' /\ TimerTyped' /\ NewestInv'
  BY <1>0, <1>2 DEF TableTyped, TimerTyped, NewestInv
<1>4. r.age \in Ages
  BY <1>0 DEF TableTyped, Row
<1>5. SeenTyped'
  BY <1>0, <1>1, <1>2, <1>4 DEF SeenTyped
<1>6. ShownInv'
  BY <1>0, <1>1, <1>2 DEF ShownInv, NewestInv, SeenTyped
<1> QED
  BY <1>3, <1>5, <1>6 DEF IInv

\* A purge removes only what is too old.
LEMMA PurgePreserves ==
    ASSUME IInv, PurgeOldMetrics
    PROVE  IInv'
<1>0. TableTyped /\ TimerTyped /\ SeenTyped /\ NewestInv /\ ShownInv
  BY DEF IInv
<1>1. /\ rows' = rows \ ToPurge /\ timer = 0 /\ timer' = Period
      /\ UNCHANGED <<lastRowId, server, shown, newest>>
  BY DEF PurgeOldMetrics
<1>2. TableTyped' /\ SeenTyped' /\ ShownInv'
  BY <1>0, <1>1 DEF TableTyped, SeenTyped, ShownInv
<1>3. TimerTyped'
  BY <1>0, <1>1, PeriodAssumption DEF TimerTyped, Off
<1>4. \A r \in rows : r.age <= Retention => r \in rows'
  <2>1. \A r \in rows : r.age \in Int
    BY <1>0, AgesFacts DEF TableTyped, Row
  <2> QED
    BY <1>1, <2>1, RetentionAssumption DEF ToPurge
<1>5. NewestInv'
  BY <1>0, <1>1, <1>4 DEF NewestInv
<1> QED
  BY <1>2, <1>3, <1>5 DEF IInv

\* An hour later everything is as much older.
LEMMA TickPreserves ==
    ASSUME IInv, Tick
    PROVE  IInv'
<1>0. TableTyped /\ TimerTyped /\ SeenTyped /\ NewestInv /\ ShownInv
  BY DEF IInv
<1> DEFINE Aged(r) == [r EXCEPT !.age = Older(@)]
<1>1. /\ timer # 0 /\ timer' = IF timer = Off THEN Off ELSE timer - 1
      /\ rows' = {Aged(r) : r \in rows}
      /\ shown' = [n \in Nodes |-> Older(shown[n])]
      /\ newest' = [n \in Nodes |-> Older(newest[n])]
      /\ UNCHANGED <<lastRowId, server>>
  BY DEF Tick
<1>2. \A r \in rows : /\ Aged(r) \in Row /\ Aged(r).id = r.id
                      /\ Aged(r).node = r.node /\ Aged(r).age = Older(r.age)
  BY <1>0, OlderFacts DEF TableTyped, Row
<1>3. \A r \in rows : r.age \in Ages
  BY <1>0 DEF TableTyped, Row
<1> HIDE DEF Aged
<1>4. TableTyped'
  BY <1>0, <1>1, <1>2 DEF TableTyped
<1>5. TimerTyped'
  BY <1>0, <1>1, PeriodAssumption DEF TimerTyped, Off
<1>6. SeenTyped'
  BY <1>0, <1>1, OlderFacts DEF SeenTyped
<1>7. NewestInv'
  <2> SUFFICES ASSUME NEW n \in Nodes
               PROVE  /\ \A r \in rows' : r.node = n => Older(newest[n]) <= r.age
                      /\ Older(newest[n]) <= Retention =>
                             \E r \in rows' : r.node = n /\ r.age = Older(newest[n])
    BY <1>1 DEF NewestInv
  <2>1. newest[n] \in Ages
    BY <1>0 DEF SeenTyped
  <2>2. ASSUME NEW r \in rows, r.node = n PROVE Older(newest[n]) <= Older(r.age)
    BY <1>0, <1>3, <2>1, <2>2, OlderFacts DEF NewestInv
  <2>3. ASSUME Older(newest[n]) <= Retention
        PROVE  \E r \in rows : r.node = n /\ r.age = newest[n]
    BY <1>0, <2>1, <2>3, OlderFacts DEF NewestInv
  <2> QED
    BY <1>1, <1>2, <2>2, <2>3
<1>8. ShownInv'
  BY <1>0, <1>1, OlderFacts DEF ShownInv, SeenTyped
<1> QED
  BY <1>4, <1>5, <1>6, <1>7, <1>8 DEF IInv

LEMMA NextPreserves == IInv /\ [Next]_vars => IInv'
<1> SUFFICES ASSUME IInv, [Next]_vars PROVE IInv'
  OBVIOUS
<1>1. CASE UNCHANGED vars
  BY <1>1 DEF IInv, TableTyped, TimerTyped, SeenTyped, NewestInv, ShownInv, vars
<1>2. ASSUME NEW n \in Nodes, GetMetrics(n) PROVE IInv'
  BY <1>2, GetMetricsPreserves
<1>3. ASSUME NEW n \in Nodes, NEW a \in Ages, InsertSnapshot(n, a) PROVE IInv'
  BY <1>3, InsertPreserves
<1>4. CASE PurgeOldMetrics
  BY <1>4, PurgePreserves
<1>5. CASE Tick
  BY <1>5, TickPreserves
<1>6. CASE PurgeFails \/ Run \/ Crash
  <2>1. UNCHANGED <<rows, lastRowId, shown, newest>>
    BY <1>6 DEF PurgeFails, Run, Crash
  <2>2. TableTyped' /\ SeenTyped' /\ NewestInv' /\ ShownInv'
    BY <2>1 DEF IInv, TableTyped, SeenTyped, NewestInv, ShownInv
  <2>3. TimerTyped'
    BY <1>6, PeriodAssumption DEF IInv, TimerTyped, PurgeFails, Run, Crash, Off
  <2> QED
    BY <2>2, <2>3 DEF IInv
<1> QED
  BY <1>1, <1>2, <1>3, <1>4, <1>5, <1>6 DEF Next

-----------------------------------------------------------------------------
(* Theorems.                                                               *)

\* The inductive invariant.
THEOREM Invariance == Spec => []IInv
<1> QED
  BY InitEstablishes, NextPreserves, PTL DEF Spec

\* The type invariant; the purge timer is armed exactly while the server runs.
THEOREM TypeCorrect == Spec => []TypeOK
<1>1. IInv => TypeOK
  BY TypeParts DEF IInv
<1> QED
  BY <1>1, Invariance, PTL

\* getLatestSnapshotForNode returns the newest snapshot that was ever stored,
\* while that is within the retention.
THEOREM NewestIsShown == Spec => []RecentIsShown
<1>1. IInv => RecentIsShown
  <2> SUFFICES ASSUME IInv, NEW n \in Nodes, newest[n] <= Retention
               PROVE  /\ \E r \in rows : r.node = n /\ r.age = newest[n]
                      /\ \A r \in rows : IsLatest(n, r) => r.age = newest[n]
    BY DEF RecentIsShown
  <2>1. PICK q \in rows : q.node = n /\ q.age = newest[n]
    BY DEF IInv, NewestInv
  <2>2. ASSUME NEW r \in rows, IsLatest(n, r) PROVE r.age = newest[n]
    <3>1. r.age \in Int /\ newest[n] \in Int
      BY AgesFacts DEF IInv, TableTyped, Row, SeenTyped
    <3>2. r.age <= newest[n]
      BY <2>1, <2>2, <3>1 DEF IsLatest
    <3>3. newest[n] <= r.age
      BY <2>2 DEF IsLatest, IInv, NewestInv
    <3> QED
      BY <3>1, <3>2, <3>3
  <2> QED
    BY <2>1, <2>2
<1> QED
  BY <1>1, Invariance, PTL

\* The administrator never sees a node go back in time within the retention.
THEOREM NeverGoesBack == Spec => []NeverBack
<1>1. IInv => NeverBack
  <2> SUFFICES ASSUME IInv, NEW n \in Nodes, shown[n] <= Retention
               PROVE  /\ \E r \in rows : r.node = n
                      /\ \A r \in rows : IsLatest(n, r) => r.age <= shown[n]
    BY DEF NeverBack
  <2>1. newest[n] \in Int /\ shown[n] \in Int /\ newest[n] <= shown[n]
    BY AgesFacts DEF IInv, SeenTyped, ShownInv
  <2>2. newest[n] <= Retention
    BY <2>1, RetentionAssumption
  <2>3. PICK q \in rows : q.node = n /\ q.age = newest[n]
    BY <2>2 DEF IInv, NewestInv
  <2>4. ASSUME NEW r \in rows, IsLatest(n, r) PROVE r.age <= shown[n]
    <3>1. r.age \in Int
      BY AgesFacts DEF IInv, TableTyped, Row
    <3> QED
      BY <2>1, <2>3, <2>4, <3>1 DEF IsLatest
  <2> QED
    BY <2>3, <2>4
<1> QED
  BY <1>1, Invariance, PTL
=============================================================================
