---------------------------- MODULE ClientSession ----------------------------
(***************************************************************************)
(* Who is logged in, as four parties see it: the window (MainWindow), the  *)
(* service behind it (SyncService), the socket and its line buffer         *)
(* (ClientChannel), and the server's session at the other end (Session).   *)
(*                                                                         *)
(* Requests and answers are lines on the newest connection; further ones   *)
(* may be sent before the first is answered.  The message box of a         *)
(* registration runs an event loop of its own inside onReadyRead: while it *)
(* is open the main window takes no clicks and no line is read, but the    *)
(* connection may break, and the lines already in m_buffer are handled     *)
(* after it.  Lines that concern nobody's identity (ACK, COMMAND, lists    *)
(* and metrics) appear only where they meet these.                         *)
(*                                                                         *)
(* Definitions named Bad... are plausible mistakes in the definition that  *)
(* follows them, and no specification uses them.                           *)
(***************************************************************************)
EXTENDS Naturals, Sequences

CONSTANTS
    Names,       \* the user names given to the window, "admin" among them
    Unreadable,  \* names that, written into JSON as they are, make it no JSON; the others
                 \* are read back
    MaxInFlight  \* bound: requests and answers on their way at a time

Nobody == "unknown"

ASSUME NamesAssumption == "admin" \in Names /\ Nobody \notin Names
ASSUME UnreadableAssumption == Unreadable \subseteq Names \ {"admin"}
ASSUME InFlightAssumption == MaxInFlight \in Nat

VARIABLES
    socket,     \* m_socket.state(); the window's m_connected is its not being unconnected
    requests,   \* lines the client sent and the session has not handled
    account,    \* the account of the session: m_userId, m_nodeName and m_isAdmin
    accounts,   \* the names in the users table
    responses,  \* answers the client has not read
    fragment,   \* m_buffer holds the start of a line of an earlier connection
    buffer,     \* the complete lines of m_buffer the loop of onReadyRead has to handle
    dialog,     \* the REGISTER_RESP whose message box is open, if any
    tab,        \* MainWindow::m_isAdmin: the administrator's tab is enabled
    label,      \* m_roleLabel
    logout,     \* m_logoutButton is enabled
    role,       \* SyncService::m_isAdmin
    user,       \* m_userId and m_nodeName of SyncService
    worker,     \* m_worker is set
    answered,   \* history: an "ok" of this connection was handled
    orphan      \* history: the line that enabled the tab outlived its connection

vars == <<socket, requests, account, accounts, responses, fragment, buffer, dialog,
          tab, label, logout, role, user, worker, answered, orphan>>
sessionVars == <<requests, account, accounts>>
windowVars == <<tab, label, logout, orphan>>
serviceVars == <<role, user, worker, answered>>
readerVars == <<responses, fragment, buffer, dialog>>

Request == [type : {"LOGIN", "REGISTER"}, user : Names]
             \cup [type : {"ADMIN"}, offered : BOOLEAN]
Answer == [type : {"LOGIN_RESP", "REGISTER_RESP"}, ok : BOOLEAN, user : Names]

Connected == socket # "unconnected"

\* The main thread is in its event loop and no message box is open.
Idle == buffer = << >> /\ dialog = << >>

\* Nothing that decides who is logged in is on its way.
Quiet ==
    /\ \A i \in DOMAIN requests : requests[i].type = "ADMIN"
    /\ responses = << >>
    /\ Idle

HasRoom == Len(requests) + Len(responses) < MaxInFlight

Init ==
    /\ socket = "unconnected"
    /\ requests = << >>
    /\ account = Nobody
    /\ accounts = {"admin"}
    /\ responses = << >>
    /\ fragment = FALSE
    /\ buffer = << >>
    /\ dialog = << >>
    /\ tab = FALSE
    /\ label = "none"
    /\ logout = FALSE
    /\ role = FALSE
    /\ user = Nobody
    /\ worker = FALSE
    /\ answered = FALSE
    /\ orphan = FALSE

-----------------------------------------------------------------------------
(* The server's session.                                                   *)

\* The identity is taken over before the answer is known.
BadAccountAfter(line, ok) == line.user

\* m_userId, m_nodeName and m_isAdmin change with a success only.
AccountAfter(line, ok) == IF ok THEN line.user ELSE account

\* handleLogin: an account's name with its password or a wrong one, or a name
\* nobody has.  A failed login leaves the session's identity as it was.
HandleLogin ==
    /\ requests # << >>
    /\ Head(requests).type = "LOGIN"
    /\ requests' = Tail(requests)
    /\ \E ok \in BOOLEAN :
          /\ ok => Head(requests).user \in accounts
          /\ account' = AccountAfter(Head(requests), ok)
          /\ responses' = Append(responses,
                 [type |-> "LOGIN_RESP", ok |-> ok, user |-> Head(requests).user])
    /\ UNCHANGED <<socket, accounts, fragment, buffer, dialog, windowVars, serviceVars>>

\* handleRegister: a name nobody has becomes an ordinary user's account, and
\* the session is logged in as that user.
HandleRegister ==
    /\ requests # << >>
    /\ Head(requests).type = "REGISTER"
    /\ requests' = Tail(requests)
    /\ LET name == Head(requests).user
           ok == name \notin accounts IN
       /\ accounts' = accounts \cup {name}
       /\ account' = AccountAfter(Head(requests), ok)
       /\ responses' = Append(responses, [type |-> "REGISTER_RESP", ok |-> ok, user |-> name])
    /\ UNCHANGED <<socket, fragment, buffer, dialog, windowVars, serviceVars>>

\* handleNodesList, handleGetMetrics and handleCommand: done for the
\* administrator and ignored otherwise; no identity changes.
HandleAdmin ==
    /\ requests # << >>
    /\ Head(requests).type = "ADMIN"
    /\ requests' = Tail(requests)
    /\ UNCHANGED <<socket, account, accounts, readerVars, windowVars, serviceVars>>

\* Another client, or an old session with lines in its buffer, registers.
OtherRegisters ==
    /\ \E name \in Names \ accounts : accounts' = accounts \cup {name}
    /\ UNCHANGED <<socket, requests, account, readerVars, windowVars, serviceVars>>

-----------------------------------------------------------------------------
(* What the window and the service do on every path that comes to them.    *)

\* Only the button of the tab is updated, and the tab is left to the next answer.
BadUpdateConnectionState(connected) ==
    /\ UNCHANGED tab
    /\ logout' = (connected /\ (tab \/ label = "user"))

\* updateConnectionState: a connection that ends takes the tab along, a new one
\* leaves it as it is.
UpdateConnectionState(connected) ==
    /\ tab' = (connected /\ tab)
    /\ logout' = (connected /\ (tab \/ label = "user"))

\* updateAdminState; the label it asks for is never empty.
UpdateAdminState(isAdmin) ==
    /\ tab' = isAdmin
    /\ logout' = Connected
    /\ orphan' = (isAdmin /\ ~Connected)

\* setAdmin is called for an administrator only.
BadAccept(line) ==
    /\ role' = (role \/ line.user = "admin")
    /\ user' = line.user
    /\ worker' = TRUE
    /\ answered' = Connected

\* What SyncService does on an "ok", after the window has: setAdmin, the node
\* and user of the answer, and a worker if there is none.
Accept(line) ==
    /\ role' = (line.user = "admin")
    /\ user' = line.user
    /\ worker' = TRUE
    /\ answered' = Connected

-----------------------------------------------------------------------------
(* ClientChannel::onReadyRead.                                             *)

\* What the client makes of a line that is glued to a fragment: a type it does
\* not know, or an answer whose payload does not parse and has no status.
Garbled(line) == [type : {"LOGIN_RESP", "REGISTER_RESP"}, ok : {FALSE}, user : {line.user}]

\* readyRead with any number of complete lines; the first is glued to the
\* fragment, if there is one.
OnReadyRead ==
    /\ Idle
    /\ Connected
    /\ \E n \in 1 .. Len(responses) :
          /\ responses' = SubSeq(responses, n + 1, Len(responses))
          /\ IF fragment
             THEN \E line \in Garbled(Head(responses)) :
                      buffer' = <<line>> \o SubSeq(responses, 2, n)
             ELSE buffer' = SubSeq(responses, 1, n)
    /\ fragment' = FALSE
    /\ UNCHANGED <<socket, sessionVars, dialog, windowVars, serviceVars>>

\* The fragment is glued to an ACK, a command or another line instead.
GarbleOther ==
    /\ Idle
    /\ Connected
    /\ fragment
    /\ fragment' = FALSE
    /\ \E line \in Garbled([user |-> "admin"]) : buffer' = <<line>>
    /\ UNCHANGED <<socket, sessionVars, responses, dialog, windowVars, serviceVars>>

\* status == "ok", as the client reads it: the server writes the name into the
\* JSON text as it is.
ReadsOk(line) == line.ok /\ line.user \notin Unreadable

\* The loop of onReadyRead handles a LOGIN_RESP: the window first
\* (onLoginResponse: updateAdminState and the label), then the service.
OnLoginResponse ==
    /\ dialog = << >>
    /\ buffer # << >>
    /\ Head(buffer).type = "LOGIN_RESP"
    /\ buffer' = Tail(buffer)
    /\ LET line == Head(buffer) IN
       IF ReadsOk(line)
       THEN /\ UpdateAdminState(line.user = "admin")
            /\ label' = IF line.user = "admin" THEN "admin" ELSE "user"
            /\ Accept(line)
       ELSE UNCHANGED <<windowVars, serviceVars>>
    /\ UNCHANGED <<socket, sessionVars, responses, fragment, dialog>>

\* The loop handles a REGISTER_RESP: the window opens a message box first.
OnRegisterResponse ==
    /\ dialog = << >>
    /\ buffer # << >>
    /\ Head(buffer).type = "REGISTER_RESP"
    /\ buffer' = Tail(buffer)
    /\ dialog' = <<Head(buffer)>>
    /\ UNCHANGED <<socket, sessionVars, responses, fragment, windowVars, serviceVars>>

\* The user closes the message box: after a success the window shows an
\* ordinary user, then the service takes the answer over, and the loop goes on.
CloseDialog ==
    /\ dialog # << >>
    /\ dialog' = << >>
    /\ IF ReadsOk(Head(dialog))
       THEN /\ UpdateAdminState(FALSE)
            /\ label' = "user"
            /\ Accept(Head(dialog))
       ELSE UNCHANGED <<windowVars, serviceVars>>
    /\ UNCHANGED <<socket, sessionVars, responses, fragment, buffer>>

-----------------------------------------------------------------------------
(* The window's buttons, enabled by updateConnectionState and              *)
(* updateAdminState.                                                       *)

\* onConnectClicked and updateConnectionState(true): the new session knows
\* nobody; what the client remembers of the last one stays, and whether the
\* tab is enabled too.
Connect ==
    /\ Idle
    /\ ~Connected
    /\ socket' = "connected"
    /\ UpdateConnectionState(TRUE)
    /\ UNCHANGED <<sessionVars, readerVars, label, orphan, serviceVars>>

\* onDisconnectClicked: stop() and an empty window at once; the socket may
\* still read answers until it has closed.
OnDisconnectClicked ==
    /\ Idle
    /\ Connected
    /\ socket' = "closing"
    /\ worker' = FALSE
    /\ role' = FALSE
    /\ label' = "none"
    /\ UpdateAdminState(FALSE)
    /\ UNCHANGED <<sessionVars, readerVars, user, answered>>

\* onLoginClicked and onRegisterClicked: a line is sent, the window waits for
\* nothing.
SendCredentials ==
    /\ Idle
    /\ Connected
    /\ HasRoom
    /\ \E line \in [type : {"LOGIN", "REGISTER"}, user : Names] :
          requests' = Append(requests, line)
    /\ UNCHANGED <<socket, account, accounts, readerVars, windowVars, serviceVars>>

\* A button of the administrator's tab: commands are sent as they are, lists
\* and metrics only while SyncService is an administrator's.
SendAdminRequest ==
    /\ Idle
    /\ Connected
    /\ tab
    /\ HasRoom
    /\ requests' = Append(requests, [type |-> "ADMIN", offered |-> Quiet /\ ~orphan])
    /\ UNCHANGED <<socket, account, accounts, readerVars, windowVars, serviceVars>>

\* onLogoutClicked: the server is not told; its session stays logged in, and
\* the worker goes on collecting.
OnLogoutClicked ==
    /\ Idle
    /\ Connected
    /\ logout
    /\ role' = FALSE
    /\ UpdateAdminState(FALSE)
    /\ label' = "none"
    /\ UNCHANGED <<socket, sessionVars, readerVars, user, worker, answered>>

-----------------------------------------------------------------------------
(* The ends of a connection and of the process.                            *)

\* disconnected, on a connection the peer, the network or the user ended: the
\* window's connection state changes and the tab is disabled, also while a
\* message box is open.  Label, role and worker are left as they are.
OnDisconnected ==
    /\ Connected
    /\ buffer = << >> \/ dialog # << >>
    /\ socket' = "unconnected"
    /\ requests' = << >>
    /\ account' = Nobody
    /\ responses' = << >>
    /\ fragment' \in {fragment, TRUE}
    /\ UpdateConnectionState(FALSE)
    /\ orphan' = FALSE
    /\ answered' = FALSE
    /\ UNCHANGED <<accounts, buffer, dialog, label, role, user, worker>>

\* The client process ends (the tray's Quit, a shutdown or restart command, a
\* crash) and is started again.
Restart ==
    /\ socket' = "unconnected"
    /\ requests' = << >>
    /\ account' = Nobody
    /\ responses' = << >>
    /\ fragment' = FALSE
    /\ buffer' = << >>
    /\ dialog' = << >>
    /\ tab' = FALSE
    /\ label' = "none"
    /\ logout' = FALSE
    /\ role' = FALSE
    /\ user' = Nobody
    /\ worker' = FALSE
    /\ answered' = FALSE
    /\ orphan' = FALSE
    /\ UNCHANGED accounts

Next ==
    \/ HandleLogin
    \/ HandleRegister
    \/ HandleAdmin
    \/ OtherRegisters
    \/ OnReadyRead
    \/ GarbleOther
    \/ OnLoginResponse
    \/ OnRegisterResponse
    \/ CloseDialog
    \/ Connect
    \/ OnDisconnectClicked
    \/ SendCredentials
    \/ SendAdminRequest
    \/ OnLogoutClicked
    \/ OnDisconnected
    \/ Restart

Spec == Init /\ [][Next]_vars

-----------------------------------------------------------------------------
(* Properties.                                                             *)

\* The type of the state; without a connection nothing is on its way, and only
\* the administrator's account is an administrator's.
TypeOK ==
    /\ socket \in {"unconnected", "connected", "closing"}
    /\ requests \in Seq(Request)
    /\ account \in accounts \cup {Nobody}
    /\ accounts \subseteq Names /\ "admin" \in accounts
    /\ responses \in Seq(Answer)
    /\ buffer \in Seq(Answer)
    /\ dialog \in Seq(Answer)
    /\ label \in {"none", "user", "admin"}
    /\ user \in Names \cup {Nobody}
    /\ \A flag \in {fragment, tab, logout, role, worker, answered, orphan} : flag \in BOOLEAN
    /\ ~Connected => requests = << >> /\ responses = << >> /\ account = Nobody

\* The administrator's tab is enabled only while the server serves it.  The
\* service behind it is an administrator's too; the connection is there; and
\* when nothing about the identity is on its way, the session is the
\* administrator's.  A request that was offered then is handled with those
\* rights, whatever is sent after it.  There are two exceptions: an answer
\* handled when its connection had already gone, behind an open message box, and
\* a session that logged in a user whose name the client could not read.
TabBacked ==
    /\ tab => role
    /\ tab /\ ~orphan => Connected /\ (Quiet => account \in {"admin"} \cup Unreadable)
    /\ requests # << >> /\ Head(requests).type = "ADMIN" /\ Head(requests).offered
          => account \in {"admin"} \cup Unreadable

\* Once an answer has come on a connection and none is on its way, the four
\* parties agree: rows are stored under the user the client believes it is,
\* the window shows that user's role or that the user logged out, and the
\* worker collects unless the user disconnects.  Answers may be garbled, come
\* behind each other, behind a message box or a click.  The exception is a
\* session that logged in a user whose name the client could not read: it is
\* that user's, and the other parties agree without it.
Agreement ==
    answered /\ Quiet =>
        /\ account \in {user} \cup Unreadable
        /\ label = "none" => ~tab /\ ~role
        /\ label # "none" => /\ label = IF user = "admin" THEN "admin" ELSE "user"
                             /\ tab = (user = "admin")
                             /\ role = tab
        /\ socket = "connected" => worker

\* src/client/src/business/sync_service.cpp, onMessageReceived: after a
\* registration the server has logged the client in, and the client does what
\* a login does.  So it takes for a success every answer that is one.
RegistrationIsLogin == dialog # << >> /\ Head(dialog).ok => ReadsOk(Head(dialog))
=============================================================================
