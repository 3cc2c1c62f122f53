--------------------------- MODULE SessionStrand ---------------------------
(***************************************************************************)
(* The server's sessions (Session), the registry that broadcasts to them   *)
(* (SessionRegistry) and the accept loop (Server), on the threads of one   *)
(* io_context.                                                             *)
(*                                                                         *)
(* Every session has a strand: a queue of handlers of which one at a time  *)
(* runs, on any thread.  A handler that only touches its own session is    *)
(* one step; a handler that goes through the registry is several, for      *)
(* other threads run between them.  start() runs on the accept thread,     *)
(* outside the strand.                                                     *)
(*                                                                         *)
(* A line is what its handler does; a message is the session and the line  *)
(* that caused it.  Definitions named Bad... are plausible mistakes in the *)
(* definition that follows them, and no specification uses them.           *)
(***************************************************************************)
EXTENDS Naturals, Sequences, FiniteSets

CONSTANTS
    Sessions,   \* the connections clients make
    LineBudget  \* bound: lines read, per session

ASSUME LineBudgetAssumption == LineBudget \in [Sessions -> Nat]

VARIABLES
    phase,      \* how far the accept thread is with a session
    registry,   \* m_sessions of SessionRegistry
    strand,     \* the handlers posted to m_strand that have not run
    pc,         \* what the running handler of a strand has still to do
    targets,    \* the sessions a running broadcast has still to deliver to
    reads,      \* async_read_until operations outstanding on m_socket
    writes,     \* async_write operations outstanding on m_socket
    outgoing,   \* m_outgoing
    stopped,    \* m_stopped
    isAdmin,    \* m_isAdmin
    lines,      \* number of lines read from the socket
    wire,       \* the messages written to the socket
    up          \* the server process runs

vars == <<phase, registry, strand, pc, targets, reads, writes, outgoing,
          stopped, isAdmin, lines, wire, up>>
acceptVars == <<phase, registry>>
handlerVars == <<pc, targets>>
ioVars == <<reads, writes>>
sessionVars == <<outgoing, stopped, isAdmin, lines, wire>>

Message == [from : Sessions, line : Nat]

\* What a line makes its handler do.
Lines == {"login", "register", "request", "command", "other"}

Handler ==
    [op : {"read"}, line : Lines] \cup [op : {"send"}, msg : Message]
        \cup [op : {"readError", "written", "writeError"}]

\* The session object exists: an operation, a handler, the accept thread or a
\* broadcast holds a shared_ptr to it.
Alive(s) ==
    \/ phase[s] \in {"created", "joined"}
    \/ reads[s] > 0 \/ writes[s] > 0
    \/ strand[s] # << >> \/ pc[s] # "idle"
    \/ \E t \in Sessions : s \in targets[t]

Init ==
    /\ phase = [s \in Sessions |-> "closed"]
    /\ registry = {}
    /\ strand = [s \in Sessions |-> << >>]
    /\ pc = [s \in Sessions |-> "idle"]
    /\ targets = [s \in Sessions |-> {}]
    /\ reads = [s \in Sessions |-> 0]
    /\ writes = [s \in Sessions |-> 0]
    /\ outgoing = [s \in Sessions |-> << >>]
    /\ stopped = [s \in Sessions |-> FALSE]
    /\ isAdmin = [s \in Sessions |-> FALSE]
    /\ lines = [s \in Sessions |-> 0]
    /\ wire = [s \in Sessions |-> << >>]
    /\ up = TRUE

-----------------------------------------------------------------------------
(* The accept thread.                                                      *)

\* A connection is accepted and its Session made; the accept handler takes the
\* next connection only after start() returned.  remote_endpoint() throws when
\* the peer is gone already, and the exception ends the process.
Accept(s) ==
    /\ up
    /\ phase[s] = "closed"
    /\ \A t \in Sessions : phase[t] \in {"closed", "started"}
    /\ \/ phase' = [phase EXCEPT ![s] = "created"] /\ UNCHANGED up
       \/ up' = FALSE /\ UNCHANGED phase
    /\ UNCHANGED <<registry, strand, handlerVars, ioVars, sessionVars>>

\* start(), first half: join, under the lock of the registry.
Join(s) ==
    /\ up
    /\ phase[s] = "created"
    /\ phase' = [phase EXCEPT ![s] = "joined"]
    /\ registry' = registry \cup {s}
    /\ UNCHANGED <<strand, handlerVars, ioVars, sessionVars, up>>

\* start(), second half: the first doRead, on the accept thread.
StartReading(s) ==
    /\ up
    /\ phase[s] = "joined"
    /\ phase' = [phase EXCEPT ![s] = "started"]
    /\ reads' = [reads EXCEPT ![s] = @ + 1]
    /\ UNCHANGED <<registry, strand, handlerVars, writes, sessionVars, up>>

-----------------------------------------------------------------------------
(* The socket.                                                             *)

\* A line is complete in m_buffer.  This happens after stop() too: a line that
\* is in the buffer completes the read without the socket.
ReadCompletes(s) ==
    /\ up
    /\ reads[s] > 0
    /\ lines[s] < LineBudget[s]
    /\ lines' = [lines EXCEPT ![s] = @ + 1]
    /\ reads' = [reads EXCEPT ![s] = @ - 1]
    /\ \E line \in Lines :
          strand' = [strand EXCEPT ![s] = Append(@, [op |-> "read", line |-> line])]
    /\ UNCHANGED <<acceptVars, handlerVars, writes, outgoing, stopped, isAdmin, wire, up>>

\* The peer closed or reset the connection, or stop() closed the socket.
ReadFails(s) ==
    /\ up
    /\ reads[s] > 0
    /\ reads' = [reads EXCEPT ![s] = @ - 1]
    /\ strand' = [strand EXCEPT ![s] = Append(@, [op |-> "readError"])]
    /\ UNCHANGED <<acceptVars, handlerVars, writes, sessionVars, up>>

\* async_write wrote all of the buffer it was given, the front of m_outgoing.
WriteCompletes(s) ==
    /\ up
    /\ writes[s] > 0
    /\ writes' = [writes EXCEPT ![s] = @ - 1]
    /\ wire' = [wire EXCEPT ![s] = Append(@, Head(outgoing[s]))]
    /\ strand' = [strand EXCEPT ![s] = Append(@, [op |-> "written"])]
    /\ UNCHANGED <<acceptVars, handlerVars, reads, outgoing, stopped, isAdmin, lines, up>>

WriteFails(s) ==
    /\ up
    /\ writes[s] > 0
    /\ writes' = [writes EXCEPT ![s] = @ - 1]
    /\ strand' = [strand EXCEPT ![s] = Append(@, [op |-> "writeError"])]
    /\ UNCHANGED <<acceptVars, handlerVars, reads, sessionVars, up>>

-----------------------------------------------------------------------------
(* The handlers of a strand.                                               *)

\* The strand of s is free, and the handler it runs next is of kind op.
Runs(s, op) == up /\ pc[s] = "idle" /\ strand[s] # << >> /\ Head(strand[s]).op = op

\* The handler it runs next is onRead, of the line.
Reads(s, line) == Runs(s, "read") /\ Head(strand[s]).line = line

\* The message the line that is being handled causes.
Caused(s) == [from |-> s, line |-> lines[s]]

\* onRead of a line whose handler answers with one message: the answer is
\* posted to the session's own strand, and the next read begins.  A login sets
\* the role, or leaves it when the credentials are wrong; a registration makes
\* the session an ordinary user's, or leaves it when the name is taken.
HandleRequest(s) ==
    \E line \in {"login", "register", "request"} :
        /\ Reads(s, line)
        /\ strand' = [strand EXCEPT ![s] = Append(Tail(@), [op |-> "send", msg |-> Caused(s)])]
        /\ isAdmin' \in CASE line = "login" -> {isAdmin, [isAdmin EXCEPT ![s] = TRUE],
                                                [isAdmin EXCEPT ![s] = FALSE]}
                          [] line = "register" -> {isAdmin, [isAdmin EXCEPT ![s] = FALSE]}
                          [] line = "request" -> {isAdmin}
        /\ reads' = [reads EXCEPT ![s] = @ + 1]
        /\ UNCHANGED <<acceptVars, handlerVars, writes, outgoing, stopped, lines, wire, up>>

\* onRead of a line whose handler throws: its payload is no JSON, or the
\* repository throws.  Nothing catches it, so it leaves io_context::run and ends
\* the process, and what the handler did before plays no part any more.
HandlerThrows(s) ==
    /\ \E line \in {"login", "register", "request"} : Reads(s, line)
    /\ up' = FALSE
    /\ UNCHANGED <<acceptVars, strand, handlerVars, ioVars, sessionVars>>

\* The early return of onRead also leaves out the next doRead.
BadIgnoreLine(s) ==
    /\ \/ Reads(s, "other")
       \/ Reads(s, "command") /\ ~isAdmin[s]
    /\ strand' = [strand EXCEPT ![s] = Tail(@)]
    /\ UNCHANGED <<acceptVars, handlerVars, ioVars, sessionVars, up>>

\* onRead of a line that does not decode, has no known type, or asks for what
\* only an admin may do.
IgnoreLine(s) ==
    /\ \/ Reads(s, "other")
       \/ Reads(s, "command") /\ ~isAdmin[s]
    /\ strand' = [strand EXCEPT ![s] = Tail(@)]
    /\ reads' = [reads EXCEPT ![s] = @ + 1]
    /\ UNCHANGED <<acceptVars, handlerVars, writes, sessionVars, up>>

\* broadcast, under the lock: the sessions that are alive are gathered.
\* Expired entries are dropped from the registry.
Gather(s) ==
    /\ Reads(s, "command")
    /\ isAdmin[s]
    /\ strand' = [strand EXCEPT ![s] = Tail(@)]
    /\ pc' = [pc EXCEPT ![s] = "deliver"]
    /\ targets' = [targets EXCEPT ![s] = {t \in registry : Alive(t)}]
    /\ registry' = {t \in registry : Alive(t)}
    /\ UNCHANGED <<phase, ioVars, sessionVars, up>>

\* The gathered session is not taken off the list.
BadDeliver(s) ==
    /\ up
    /\ pc[s] = "deliver"
    /\ \E t \in targets[s] :
          /\ strand' = [strand EXCEPT ![t] = Append(@, [op |-> "send", msg |-> Caused(s)])]
          /\ \/ targets' = [targets EXCEPT ![s] = @ \ {t}]
             \/ Len(strand[t]) < 2 /\ UNCHANGED targets
    /\ UNCHANGED <<acceptVars, pc, ioVars, sessionVars, up>>

\* A failed delivery ends the loop.
BadDeliverLoop(s) ==
    /\ up
    /\ pc[s] = "deliver"
    /\ \E t \in targets[s] :
          /\ strand' = [strand EXCEPT ![t] = Append(@, [op |-> "send", msg |-> Caused(s)])]
          /\ targets' = [targets EXCEPT ![s] = {}]
    /\ UNCHANGED <<acceptVars, pc, ioVars, sessionVars, up>>

\* broadcast, after the lock is released: deliver posts to one session's strand.
Deliver(s) ==
    /\ up
    /\ pc[s] = "deliver"
    /\ \E t \in targets[s] :
          /\ strand' = [strand EXCEPT ![t] = Append(@, [op |-> "send", msg |-> Caused(s)])]
          /\ targets' = [targets EXCEPT ![s] = @ \ {t}]
    /\ UNCHANGED <<acceptVars, pc, ioVars, sessionVars, up>>

\* broadcast returns, and onRead begins the next read.
BroadcastDone(s) ==
    /\ up
    /\ pc[s] = "deliver"
    /\ targets[s] = {}
    /\ pc' = [pc EXCEPT ![s] = "idle"]
    /\ reads' = [reads EXCEPT ![s] = @ + 1]
    /\ UNCHANGED <<acceptVars, strand, targets, writes, sessionVars, up>>

\* Every message that is queued starts a write.
BadSend(s) ==
    /\ Runs(s, "send")
    /\ strand' = [strand EXCEPT ![s] = Tail(@)]
    /\ outgoing' = [outgoing EXCEPT ![s] = Append(@, Head(strand[s]).msg)]
    /\ writes' = [writes EXCEPT ![s] = IF stopped[s] THEN @ ELSE @ + 1]
    /\ UNCHANGED <<acceptVars, handlerVars, reads, stopped, isAdmin, lines, wire, up>>

\* The handler sendMessage posts: the message is queued, and when the queue was
\* empty a write begins.
Send(s) ==
    /\ Runs(s, "send")
    /\ strand' = [strand EXCEPT ![s] = Tail(@)]
    /\ outgoing' = [outgoing EXCEPT ![s] = Append(@, Head(strand[s]).msg)]
    /\ writes' = [writes EXCEPT ![s] =
                     IF outgoing[s] = << >> /\ ~stopped[s] THEN @ + 1 ELSE @]
    /\ UNCHANGED <<acceptVars, handlerVars, reads, stopped, isAdmin, lines, wire, up>>

\* The rest of the queue waits for the next sendMessage.
BadWritten(s) ==
    /\ Runs(s, "written")
    /\ strand' = [strand EXCEPT ![s] = Tail(@)]
    /\ outgoing' = [outgoing EXCEPT ![s] = Tail(@)]
    /\ UNCHANGED <<acceptVars, handlerVars, ioVars, stopped, isAdmin, lines, wire, up>>

\* The completion of a write: the message is taken off the queue, and the next
\* one is written.
Written(s) ==
    /\ Runs(s, "written")
    /\ strand' = [strand EXCEPT ![s] = Tail(@)]
    /\ outgoing' = [outgoing EXCEPT ![s] = Tail(@)]
    /\ writes' = [writes EXCEPT ![s] =
                     IF Tail(outgoing[s]) # << >> /\ ~stopped[s] THEN @ + 1 ELSE @]
    /\ UNCHANGED <<acceptVars, handlerVars, reads, stopped, isAdmin, lines, wire, up>>

\* The registry forgets the session only when it finds it expired.
BadStop(s) ==
    /\ \E op \in {"readError", "writeError"} : Runs(s, op)
    /\ strand' = [strand EXCEPT ![s] = Tail(@)]
    /\ stopped' = [stopped EXCEPT ![s] = TRUE]
    /\ UNCHANGED <<acceptVars, handlerVars, ioVars, outgoing, isAdmin, lines, wire, up>>

\* stop(), called with the error of a read or a write.  The second call
\* returns at once.  The first sets m_stopped and asks for the peer's address
\* to log it, which throws when the peer reset the connection and ends the
\* process; else it closes the socket, and has still to leave the registry.
Stop(s) ==
    /\ \E op \in {"readError", "writeError"} : Runs(s, op)
    /\ strand' = [strand EXCEPT ![s] = Tail(@)]
    /\ \/ stopped[s] /\ UNCHANGED <<stopped, pc, up>>
       \/ /\ ~stopped[s]
          /\ stopped' = [stopped EXCEPT ![s] = TRUE]
          /\ \/ up' = FALSE /\ UNCHANGED pc
             \/ pc' = [pc EXCEPT ![s] = "leave"] /\ UNCHANGED up
    /\ UNCHANGED <<acceptVars, targets, ioVars, outgoing, isAdmin, lines, wire>>

\* stop(), its end: leave, under the lock, drops this session and what expired.
Leave(s) ==
    /\ up
    /\ pc[s] = "leave"
    /\ pc' = [pc EXCEPT ![s] = "idle"]
    /\ registry' = {t \in registry : t # s /\ Alive(t)}
    /\ UNCHANGED <<phase, strand, targets, ioVars, sessionVars, up>>

-----------------------------------------------------------------------------
Run(s) ==
    \/ HandleRequest(s)
    \/ IgnoreLine(s)
    \/ Gather(s)
    \/ Deliver(s)
    \/ BroadcastDone(s)
    \/ Send(s)
    \/ Written(s)
    \/ Stop(s)
    \/ Leave(s)

Next ==
    \E s \in Sessions :
        \/ Accept(s)
        \/ Join(s)
        \/ StartReading(s)
        \/ ReadCompletes(s)
        \/ ReadFails(s)
        \/ WriteCompletes(s)
        \/ WriteFails(s)
        \/ HandlerThrows(s)
        \/ Run(s)

Spec == Init /\ [][Next]_vars

\* The threads of the io_context run every strand that has a handler, a strand
\* after another; the operations on a socket that stop() closed complete; the
\* accept handler returns.  Nothing makes a peer send, receive or connect.
Fairness ==
    \A s \in Sessions :
        /\ WF_vars(Run(s))
        /\ WF_vars(Join(s))
        /\ WF_vars(StartReading(s))
        /\ WF_vars(stopped[s] /\ ReadFails(s))
        /\ WF_vars(stopped[s] /\ WriteFails(s))

FairSpec == Spec /\ Fairness

-----------------------------------------------------------------------------
(* Properties.                                                             *)

\* The type of the state.  A socket never has two reads or two writes.
TypeOK ==
    /\ phase \in [Sessions -> {"closed", "created", "joined", "started"}]
    /\ registry \subseteq Sessions
    /\ strand \in [Sessions -> Seq(Handler)]
    /\ pc \in [Sessions -> {"idle", "deliver", "leave"}]
    /\ targets \in [Sessions -> SUBSET Sessions]
    /\ reads \in [Sessions -> 0 .. 1]
    /\ writes \in [Sessions -> 0 .. 1]
    /\ outgoing \in [Sessions -> Seq(Message)]
    /\ stopped \in [Sessions -> BOOLEAN]
    /\ isAdmin \in [Sessions -> BOOLEAN]
    /\ lines \in [Sessions -> Nat] /\ \A s \in Sessions : lines[s] <= LineBudget[s]
    /\ wire \in [Sessions -> Seq(Message)]
    /\ up \in BOOLEAN

\* Handlers of the kinds ops that wait on the strand of s.
Waiting(s, ops) == Cardinality({i \in DOMAIN strand[s] : strand[s][i].op \in ops})

\* Writes of s that are outstanding, or over with their handler still to run.
Writers(s) == writes[s] + Waiting(s, {"written", "writeError"})

\* The same of reads; a broadcast runs inside the handler of a read.
Readers(s) ==
    reads[s] + Waiting(s, {"read", "readError"}) + (IF pc[s] = "deliver" THEN 1 ELSE 0)

\* async_write is given a reference to the front of m_outgoing: the front may
\* not be popped, nor a second write begin, before the first one's handler ran.
SingleWriter == \A s \in Sessions : Writers(s) <= 1

\* A message in the queue of a session that did not stop is being written, or
\* the handler that will write it is waiting: none is stuck until the next one.
WriterActive ==
    \A s \in Sessions : outgoing[s] # << >> /\ ~stopped[s] => Writers(s) = 1

\* A session that did not stop goes on reading, whatever it was sent, and never
\* reads twice at once although the first read begins outside its strand.
ReaderArmed ==
    \A s \in Sessions :
        /\ Readers(s) <= 1
        /\ phase[s] = "started" /\ ~stopped[s] => Readers(s) = 1

\* A session is in the registry from join to leave, exactly: no broadcast misses
\* one that serves a client, and none that left comes back, although it may stop
\* while the accept thread is still between join and doRead.  No entry expires
\* before its session left.
RegistryExact ==
    up => \A s \in Sessions :
              /\ s \in registry <=> /\ phase[s] \in {"joined", "started"}
                                    /\ ~stopped[s] \/ pc[s] = "leave"
              /\ s \in registry => Alive(s)

\* A client receives the messages that one session caused in the order of that
\* session's lines, each at most once, however broadcasts and answers of other
\* sessions come between.
PerSenderOrder ==
    \A s \in Sessions : \A i, j \in DOMAIN wire[s] :
        i < j /\ wire[s][i].from = wire[s][j].from => wire[s][i].line < wire[s][j].line

\* A broadcast reaches the queue of every session it gathered, also when others
\* connect, broadcast or stop meanwhile.
BroadcastDelivers ==
    \A s, t \in Sessions : \A n \in 1 .. LineBudget[s] :
        t \in targets[s] /\ lines[s] = n
            ~> \/ ~up
               \/ \E q \in {outgoing[t], wire[t]} :
                      \E i \in DOMAIN q : q[i] = [from |-> s, line |-> n]

\* A session that stopped leaves the registry and is freed: its last operations
\* end, and no broadcast keeps it.
StoppedIsReleased ==
    \A s \in Sessions : stopped[s] ~> ~up \/ (~Alive(s) /\ s \notin registry)
=============================================================================
