-------------------------- MODULE WorkerLifecycle --------------------------
(***************************************************************************)
(* The collection worker of the client (MetricsCollectorWorker), the       *)
(* QThread it lives in, and the part of SyncService that makes it, sends   *)
(* it refresh commands and tears it down.                                  *)
(*                                                                         *)
(* Two threads run here.  The main thread runs SyncService; it is blocked  *)
(* while stop() waits for the worker's thread.  The worker's thread runs   *)
(* one event of the worker at a time: the queued startCollecting, queued   *)
(* calls of collectOnce, and single-shot timers.  What the worker reports, *)
(* a snapshot or an error, is queued to the main thread.                   *)
(*                                                                         *)
(* Definitions named Bad... are plausible mistakes in the definition that  *)
(* follows them, and no specification uses them.                           *)
(***************************************************************************)
EXTENDS Naturals

CONSTANTS
    MaxStarts,   \* bound: workers the client process makes
    MaxCommands  \* bound: refresh commands a worker is sent

ASSUME StartsAssumption == MaxStarts \in Nat
ASSUME CommandsAssumption == MaxCommands \in Nat

VARIABLES
    up,          \* the client process runs
    service,     \* the main thread runs its event loop, or is inside stop()
    worker,      \* m_worker is not null
    thread,      \* m_workerThread
    running,     \* m_running of the worker, which both threads write
    startQueued, \* the call of startCollecting waits in the worker's queue
    refreshes,   \* calls of collectOnce that wait in the worker's queue
    timers,      \* single-shot timers of the worker that have not fired
    collecting,  \* collectOnce is past its check of m_running
    reported,    \* a snapshot or an error of a worker waits for the main thread
    starts,      \* number of workers made
    commands     \* number of refresh commands this worker was sent

vars == <<up, service, worker, thread, running, startQueued, refreshes,
          timers, collecting, reported, starts, commands>>
eventVars == <<startQueued, refreshes, timers, collecting>>
countVars == <<starts, commands>>

Init ==
    /\ up = TRUE
    /\ service = "loop"
    /\ worker = FALSE
    /\ thread = "finished"
    /\ running = FALSE
    /\ startQueued = FALSE
    /\ refreshes = 0
    /\ timers = 0
    /\ collecting = FALSE
    /\ reported = FALSE
    /\ starts = 0
    /\ commands = 0

-----------------------------------------------------------------------------
(* The main thread.                                                        *)

\* start(), on a response that logs the client in, when there is no worker: a
\* worker is made, its thread started, and startCollecting queued to it.
Start ==
    /\ up /\ service = "loop"
    /\ ~worker
    /\ starts < MaxStarts
    /\ starts' = starts + 1
    /\ commands' = 0
    /\ worker' = TRUE
    /\ thread' = "looping"
    /\ running' = FALSE
    /\ startQueued' = TRUE
    /\ UNCHANGED <<up, service, refreshes, timers, collecting, reported>>

\* processCommand of "refresh": collectOnce is queued to the worker, twice, for
\* the signal serverCommandReceived is connected twice.
OnServerCommand ==
    /\ up /\ service = "loop"
    /\ worker
    /\ commands < MaxCommands
    /\ commands' = commands + 1
    /\ refreshes' = refreshes + 2
    /\ UNCHANGED <<up, service, worker, thread, running, startQueued, timers,
                   collecting, reported, starts>>

\* stop() neither quits the thread nor waits for it.
BadStopBegin ==
    /\ up /\ service = "loop"
    /\ worker
    /\ running' = FALSE
    /\ worker' = FALSE
    /\ UNCHANGED <<up, service, thread, eventVars, reported, countVars>>

\* m_worker is reset before the thread is waited for.
BadStopBeginResets ==
    /\ up /\ service = "loop"
    /\ worker
    /\ running' = FALSE
    /\ worker' = FALSE
    /\ thread' = "quitting"
    /\ service' = "stopping"
    /\ UNCHANGED <<up, eventVars, reported, countVars>>

\* stop(), first half: stopCollecting, on the main thread; the thread is told
\* to quit; the main thread waits.
StopBegin ==
    /\ up /\ service = "loop"
    /\ worker
    /\ running' = FALSE
    /\ thread' = "quitting"
    /\ service' = "stopping"
    /\ UNCHANGED <<up, worker, eventVars, reported, countVars>>

\* stop(), second half: the thread has finished, and m_worker is reset.  The
\* worker was deleted by deleteLater when the thread finished: deleting it
\* again may end the process.
StopEnd ==
    /\ up /\ service = "stopping"
    /\ thread = "finished"
    /\ worker' = FALSE
    /\ service' = "loop"
    /\ up' \in BOOLEAN
    /\ UNCHANGED <<thread, running, eventVars, reported, countVars>>

\* The main thread's event loop delivers what the worker reported, also of a
\* worker that was stopped since.
DeliverReport ==
    /\ up /\ service = "loop"
    /\ reported
    /\ reported' = FALSE
    /\ UNCHANGED <<up, service, worker, thread, running, eventVars, countVars>>

\* A command or the user ends the application.
Quit ==
    /\ up /\ service = "loop"
    /\ up' = FALSE
    /\ UNCHANGED <<service, worker, thread, running, eventVars, reported, countVars>>

-----------------------------------------------------------------------------
(* The worker's thread.  After quit() it still runs the events of the pass  *)
(* of its event loop that it is in.                                         *)

ThreadRuns == up /\ thread \in {"looping", "quitting"}

\* collectOnce is called, and then runCollection as well.
BadStartCollecting ==
    /\ ThreadRuns /\ ~collecting
    /\ startQueued
    /\ startQueued' = FALSE
    /\ running' = TRUE
    /\ timers' = timers + 1
    /\ collecting' = TRUE
    /\ UNCHANGED <<up, service, worker, thread, refreshes, reported, countVars>>

\* startCollecting: m_running is set, also when stop() has just cleared it, and
\* runCollection starts a timer of 0 ms.
StartCollecting ==
    /\ ThreadRuns /\ ~collecting
    /\ startQueued
    /\ startQueued' = FALSE
    /\ running' = TRUE
    /\ timers' = timers + 1
    /\ UNCHANGED <<up, service, worker, thread, refreshes, collecting, reported, countVars>>

\* collectOnce, up to its check of m_running: called by a timer, or by a call
\* in the queue, which is behind that of startCollecting.
CollectBegin ==
    /\ ThreadRuns /\ ~collecting
    /\ \/ timers > 0 /\ timers' = timers - 1 /\ UNCHANGED refreshes
       \/ ~startQueued /\ refreshes > 0 /\ refreshes' = refreshes - 1 /\ UNCHANGED timers
    /\ collecting' = running
    /\ UNCHANGED <<up, service, worker, thread, running, startQueued, reported, countVars>>

\* The exception handler returns: only a snapshot is followed by a timer.
BadCollectEnd ==
    /\ ThreadRuns /\ collecting
    /\ collecting' = FALSE
    /\ reported' = TRUE
    /\ timers' \in {timers, IF running THEN timers + 1 ELSE timers}
    /\ UNCHANGED <<up, service, worker, thread, running, startQueued, refreshes, countVars>>

\* Qt::BlockingQueuedConnection: the worker waits for the main thread.
BadCollectEndBlocks ==
    /\ ThreadRuns /\ collecting
    /\ service = "loop"
    /\ collecting' = FALSE
    /\ reported' = TRUE
    /\ timers' = IF running THEN timers + 1 ELSE timers
    /\ UNCHANGED <<up, service, worker, thread, running, startQueued, refreshes, countVars>>

\* collectOnce, the rest: a snapshot or an error is reported, and while
\* m_running is set the next timer starts.
CollectEnd ==
    /\ ThreadRuns /\ collecting
    /\ collecting' = FALSE
    /\ reported' = TRUE
    /\ timers' = IF running THEN timers + 1 ELSE timers
    /\ UNCHANGED <<up, service, worker, thread, running, startQueued, refreshes, countVars>>

\* The event loop ends; finished() deletes the worker, with its timers, with the
\* events that wait for it, and with m_running cleared by its destructor.
ThreadFinishes ==
    /\ up /\ thread = "quitting" /\ ~collecting
    /\ thread' = "finished"
    /\ running' = FALSE
    /\ startQueued' = FALSE
    /\ refreshes' = 0
    /\ timers' = 0
    /\ UNCHANGED <<up, service, worker, collecting, reported, countVars>>

WorkerEvent ==
    \/ StartCollecting
    \/ CollectBegin
    \/ CollectEnd

Next ==
    \/ Start
    \/ OnServerCommand
    \/ StopBegin
    \/ StopEnd
    \/ DeliverReport
    \/ Quit
    \/ WorkerEvent
    \/ ThreadFinishes

Spec == Init /\ [][Next]_vars

\* Both threads run, and the timers fire.  After quit() a thread finishes when
\* the pass of its event loop ends, which has a finite number of events: it does
\* not go on for ever between two of them.
Fairness ==
    /\ WF_vars(WorkerEvent)
    /\ SF_vars(ThreadFinishes)
    /\ WF_vars(StopEnd)

FairSpec == Spec /\ Fairness

-----------------------------------------------------------------------------
(* Properties.                                                             *)

\* The type of the state; stop() keeps m_worker until the thread has finished.
TypeOK ==
    /\ up \in BOOLEAN
    /\ service \in {"loop", "stopping"}
    /\ worker \in BOOLEAN
    /\ thread \in {"finished", "looping", "quitting"}
    /\ running \in BOOLEAN
    /\ startQueued \in BOOLEAN
    /\ refreshes \in Nat
    /\ timers \in Nat
    /\ collecting \in BOOLEAN
    /\ reported \in BOOLEAN
    /\ starts \in 0 .. MaxStarts
    /\ commands \in 0 .. MaxCommands
    /\ service = "stopping" => worker
    /\ thread = "quitting" => service = "stopping"

\* Collections that are due or under way.
Chains == timers + refreshes + (IF collecting THEN 1 ELSE 0)

\* A worker that runs always has a next collection, and never more than one per
\* start and two per refresh command: a refresh command adds two chains of timers
\* that last as long as the worker, so its collections per interval grow with
\* every command.
ChainsAddUp ==
    thread = "looping" /\ running => Chains = 1 + 2 * commands

\* After stop() returned nothing is collected until the next start, although
\* the queued startCollecting may set m_running after stop() cleared it; and the
\* thread is free to be started again.
StoppedIsQuiet ==
    ~worker => /\ thread = "finished"
               /\ ~collecting /\ ~running /\ ~startQueued
               /\ timers = 0 /\ refreshes = 0

\* stop() returns: the worker's thread, in the middle of a collection or just
\* started, never waits for the main thread that waits for it.
StopReturns == service = "stopping" ~> service = "loop"

\* A worker that is not stopped reports again and again, errors of the
\* collector included.
ReportsKeepComing ==
    (worker /\ ~reported) ~> (reported \/ service = "stopping" \/ ~up)
=============================================================================
