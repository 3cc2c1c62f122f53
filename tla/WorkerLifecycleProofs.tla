----------------------- MODULE WorkerLifecycleProofs -----------------------
(***************************************************************************)
(* Proofs about WorkerLifecycle, for any number of starts and refresh      *)
(* commands.                                                               *)
(***************************************************************************)
EXTENDS WorkerLifecycle, TLAPS

\* The two halves of the type invariant: what is true or false or a name, and
\* what is a number.
FlagsTyped ==
    /\ up \in BOOLEAN /\ worker \in BOOLEAN /\ running \in BOOLEAN
    /\ startQueued \in BOOLEAN /\ collecting \in BOOLEAN /\ reported \in BOOLEAN
    /\ service \in {"loop", "stopping"}
    /\ thread \in {"finished", "looping", "quitting"}
    /\ service = "stopping" => worker
    /\ thread = "quitting" => service = "stopping"

CountsTyped ==
    /\ refreshes \in Nat /\ timers \in Nat
    /\ starts \in 0 .. MaxStarts /\ commands \in 0 .. MaxCommands

\* A thread that has finished has no event of the worker left.
FinishedInv ==
    thread = "finished" =>
        /\ ~collecting /\ ~running /\ ~startQueued
        /\ timers = 0 /\ refreshes = 0

\* The thread loops exactly while there is a worker that is not being stopped.
LoopingInv ==
    /\ thread = "looping" <=> worker /\ service = "loop"
    /\ ~worker => thread = "finished"

\* Until startCollecting ran, only refresh commands wait for the worker.
StartInv ==
    thread = "looping" =>
        /\ running <=> ~startQueued
        /\ startQueued => timers = 0 /\ ~collecting /\ refreshes = 2 * commands

IInv == FlagsTyped /\ CountsTyped /\ FinishedInv /\ LoopingInv /\ StartInv /\ ChainsAddUp

LEMMA InitEstablishes == Init => IInv
<1> SUFFICES ASSUME Init PROVE IInv
  OBVIOUS
<1>1. FlagsTyped
  BY DEF Init, FlagsTyped
<1>2. CountsTyped
  BY StartsAssumption, CommandsAssumption DEF Init, CountsTyped
<1>3. FinishedInv /\ LoopingInv /\ StartInv /\ ChainsAddUp
  BY DEF Init, FinishedInv, LoopingInv, StartInv, ChainsAddUp
<1> QED
  BY <1>1, <1>2, <1>3 DEF IInv

\* What the main thread does.
LEMMA MainThreadPreserves ==
    ASSUME IInv, \/ Start \/ OnServerCommand \/ StopBegin
                 \/ StopEnd \/ DeliverReport \/ Quit
    PROVE  IInv'
<1>0. FlagsTyped /\ CountsTyped /\ FinishedInv /\ LoopingInv /\ StartInv /\ ChainsAddUp
  BY DEF IInv
<1>1. CASE Start
  <2>1. thread = "finished" /\ timers = 0 /\ refreshes = 0 /\ ~collecting
    BY <1>0, <1>1 DEF Start, LoopingInv, FinishedInv
  <2>2. FlagsTyped' /\ LoopingInv'
    BY <1>0, <1>1 DEF Start, FlagsTyped, LoopingInv
  <2>3. CountsTyped'
    BY <1>0, <1>1, StartsAssumption, CommandsAssumption DEF Start, CountsTyped
  <2>4. FinishedInv' /\ ChainsAddUp'
    BY <1>1 DEF Start, FinishedInv, ChainsAddUp
  <2>5. StartInv'
    BY <1>1, <2>1 DEF Start, StartInv
  <2> QED
    BY <2>2, <2>3, <2>4, <2>5 DEF IInv
<1>2. CASE OnServerCommand
  <2>1. thread = "looping"
    BY <1>0, <1>2 DEF OnServerCommand, LoopingInv
  <2>2. FlagsTyped' /\ LoopingInv'
    BY <1>0, <1>2 DEF OnServerCommand, FlagsTyped, LoopingInv
  <2>3. CountsTyped'
    BY <1>0, <1>2, CommandsAssumption DEF OnServerCommand, CountsTyped
  <2>4. FinishedInv'
    BY <1>2, <2>1 DEF OnServerCommand, FinishedInv
  <2>5. StartInv' /\ ChainsAddUp'
    BY <1>0, <1>2, CommandsAssumption
       DEF OnServerCommand, CountsTyped, StartInv, ChainsAddUp, Chains
  <2> QED
    BY <2>2, <2>3, <2>4, <2>5 DEF IInv
<1>3. CASE StopBegin
  <2>1. FlagsTyped' /\ LoopingInv'
    BY <1>0, <1>3 DEF StopBegin, FlagsTyped, LoopingInv, eventVars, countVars
  <2>2. CountsTyped'
    BY <1>0, <1>3 DEF StopBegin, CountsTyped, eventVars, countVars
  <2>3. FinishedInv'
    BY <1>0, <1>3 DEF StopBegin, FinishedInv, eventVars, countVars
  <2>4. StartInv'
    BY <1>0, <1>3 DEF StopBegin, StartInv, eventVars, countVars
  <2>5. ChainsAddUp'
    BY <1>0, <1>3 DEF StopBegin, ChainsAddUp, Chains, eventVars, countVars
  <2> QED
    BY <2>1, <2>2, <2>3, <2>4, <2>5 DEF IInv
<1>4. CASE StopEnd
  <2>1. FlagsTyped' /\ LoopingInv'
    BY <1>0, <1>4 DEF StopEnd, FlagsTyped, LoopingInv, eventVars, countVars
  <2>2. CountsTyped'
    BY <1>0, <1>4 DEF StopEnd, CountsTyped, eventVars, countVars
  <2>3. FinishedInv'
    BY <1>0, <1>4 DEF StopEnd, FinishedInv, eventVars, countVars
  <2>4. StartInv'
    BY <1>0, <1>4 DEF StopEnd, StartInv, eventVars, countVars
  <2>5. ChainsAddUp'
    BY <1>0, <1>4 DEF StopEnd, ChainsAddUp, Chains, eventVars, countVars
  <2> QED
    BY <2>1, <2>2, <2>3, <2>4, <2>5 DEF IInv
<1>5. CASE DeliverReport \/ Quit
  <2>1. UNCHANGED <<service, worker, thread, running, startQueued, refreshes, timers,
                    collecting, starts, commands>>
    BY <1>5 DEF DeliverReport, Quit, eventVars, countVars
  <2>2. up' \in BOOLEAN /\ reported' \in BOOLEAN
    BY <1>0, <1>5 DEF DeliverReport, Quit, FlagsTyped
  <2>3. FlagsTyped' /\ CountsTyped' /\ LoopingInv' /\ FinishedInv' /\ StartInv'
    BY <1>0, <2>1, <2>2 DEF FlagsTyped, CountsTyped, LoopingInv, FinishedInv, StartInv
  <2>4. ChainsAddUp'
    BY <1>0, <2>1 DEF ChainsAddUp, Chains
  <2> QED
    BY <2>3, <2>4 DEF IInv
<1> QED
  BY <1>1, <1>2, <1>3, <1>4, <1>5

\* What the worker's thread does.
LEMMA WorkerThreadPreserves ==
    ASSUME IInv, WorkerEvent \/ ThreadFinishes
    PROVE  IInv'
<1>0. FlagsTyped /\ CountsTyped /\ FinishedInv /\ LoopingInv /\ StartInv /\ ChainsAddUp
  BY DEF IInv
<1>1. CASE StartCollecting
  <2>1. FlagsTyped' /\ LoopingInv' /\ FinishedInv'
    BY <1>0, <1>1
       DEF StartCollecting, ThreadRuns, FlagsTyped, LoopingInv, FinishedInv
  <2>2. CountsTyped'
    BY <1>0, <1>1 DEF StartCollecting, CountsTyped, countVars
  <2>3. StartInv'
    BY <1>1 DEF StartCollecting, StartInv
  <2>4. ChainsAddUp'
    BY <1>0, <1>1
       DEF StartCollecting, CountsTyped, StartInv, ChainsAddUp, Chains, countVars
  <2> QED
    BY <2>1, <2>2, <2>3, <2>4 DEF IInv
<1>2. CASE CollectBegin
  <2>1. thread = "looping" => running /\ ~startQueued
    BY <1>0, <1>2 DEF CollectBegin, StartInv, FlagsTyped
  <2>2. FlagsTyped' /\ LoopingInv' /\ FinishedInv'
    BY <1>0, <1>2 DEF CollectBegin, ThreadRuns, FlagsTyped, LoopingInv, FinishedInv
  <2>3. CountsTyped'
    BY <1>0, <1>2 DEF CollectBegin, CountsTyped, countVars
  <2>4. StartInv'
    BY <1>2, <2>1 DEF CollectBegin, StartInv
  <2>5. ChainsAddUp'
    BY <1>0, <1>2, <2>1 DEF CollectBegin, CountsTyped, ChainsAddUp, Chains, countVars
  <2> QED
    BY <2>2, <2>3, <2>4, <2>5 DEF IInv
<1>3. CASE CollectEnd
  <2>1. FlagsTyped' /\ LoopingInv' /\ FinishedInv'
    BY <1>0, <1>3 DEF CollectEnd, ThreadRuns, FlagsTyped, LoopingInv, FinishedInv
  <2>2. CountsTyped'
    BY <1>0, <1>3 DEF CollectEnd, CountsTyped, countVars
  <2>3. StartInv'
    BY <1>0, <1>3 DEF CollectEnd, StartInv
  <2>4. ChainsAddUp'
    BY <1>0, <1>3 DEF CollectEnd, CountsTyped, ChainsAddUp, Chains, countVars
  <2> QED
    BY <2>1, <2>2, <2>3, <2>4 DEF IInv
<1>4. CASE ThreadFinishes
  <2>1. FlagsTyped' /\ LoopingInv' /\ FinishedInv'
    BY <1>0, <1>4 DEF ThreadFinishes, FlagsTyped, LoopingInv, FinishedInv
  <2>2. CountsTyped'
    BY <1>0, <1>4 DEF ThreadFinishes, CountsTyped, countVars
  <2>3. StartInv' /\ ChainsAddUp'
    BY <1>4 DEF ThreadFinishes, StartInv, ChainsAddUp
  <2> QED
    BY <2>1, <2>2, <2>3 DEF IInv
<1> QED
  BY <1>1, <1>2, <1>3, <1>4 DEF WorkerEvent

LEMMA NextPreserves == IInv /\ [Next]_vars => IInv'
<1> SUFFICES ASSUME IInv, [Next]_vars PROVE IInv'
  OBVIOUS
<1>1. CASE UNCHANGED vars
  BY <1>1 DEF IInv, FlagsTyped, CountsTyped, FinishedInv, LoopingInv, StartInv, ChainsAddUp,
              Chains, vars
<1> QED
  BY <1>1, MainThreadPreserves, WorkerThreadPreserves DEF Next

\* The inductive invariant.
THEOREM Invariance == Spec => []IInv
<1> QED
  BY InitEstablishes, NextPreserves, PTL DEF Spec

\* The type invariant, for any number of starts and commands.
THEOREM TypeCorrect == Spec => []TypeOK
<1>1. IInv => TypeOK
  BY DEF IInv, FlagsTyped, CountsTyped, TypeOK
<1> QED
  BY <1>1, Invariance, PTL

\* collectOnce is due exactly once per chain: one for the start and two for each
\* refresh command, however many commands there were.
THEOREM ChainsCounted == Spec => []ChainsAddUp
<1>1. IInv => ChainsAddUp
  BY DEF IInv
<1> QED
  BY <1>1, Invariance, PTL

\* SyncService::stop leaves nothing of the worker behind.
THEOREM QuietAfterStop == Spec => []StoppedIsQuiet
<1>1. IInv => StoppedIsQuiet
  BY DEF IInv, LoopingInv, FinishedInv, StoppedIsQuiet
<1> QED
  BY <1>1, Invariance, PTL
=============================================================================
