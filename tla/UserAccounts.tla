---------------------------- MODULE UserAccounts ----------------------------
(***************************************************************************)
(* Accounts and logins at the server: the users table of MetricRepository, *)
(* AuthService, and Session::handleLogin and handleRegister of sessions on *)
(* several threads, which share one database connection under m_mutex.     *)
(* The server process may end at any step and be started again.            *)
(*                                                                         *)
(* An account's node name is its user name with "-node" after it, so two   *)
(* accounts have different nodes when they have different names.           *)
(* Definitions named Bad... are plausible mistakes in the definition that  *)
(* follows them, and no specification uses them.                           *)
(***************************************************************************)
EXTENDS Naturals, FiniteSets

CONSTANTS
    Sessions,   \* the sessions of the server
    Names,      \* the user names clients ask for, "admin" among them
    Passwords,  \* the passwords clients give, "admin" among them
    MaxRequests \* bound: LOGIN and REGISTER lines the server reads

ASSUME NamesAssumption == "admin" \in Names
ASSUME PasswordsAssumption == "admin" \in Passwords
ASSUME RequestsAssumption == MaxRequests \in Nat

None == "none"
ASSUME SessionsAssumption == None \notin Sessions

VARIABLES
    users,      \* the rows of the users table
    lastUserId, \* sqlite_sequence of the users table
    schema,     \* the tables exist in the database file
    server,     \* how far the server process is
    holder,     \* the session whose thread holds m_mutex
    request,    \* the line a session is handling
    pc,         \* where in its handler a session is
    registered, \* the id registerUser returned to a session's handler
    identity,   \* m_userId, m_nodeName and m_isAdmin of a session
    received,   \* number of LOGIN and REGISTER lines read
    granted     \* number of REGISTER_RESP "ok" sent, per name

vars == <<users, lastUserId, schema, server, holder, request, pc,
          registered, identity, received, granted>>
tableVars == <<users, lastUserId, schema>>
lineVars == <<request, received>>

Roles == {"user", "admin"}
Account == [id : Nat, name : Names, password : Passwords, role : Roles]
Credentials == [name : Names, password : Passwords]

\* The node name of an account is told apart by the account's name.
Identity == [user : Nat, node : Names \cup {"unknown"}, isAdmin : BOOLEAN]
Anonymous == [user |-> 0, node |-> "unknown", isAdmin |-> FALSE]
Administrator(id) == [id |-> id, name |-> "admin", password |-> "admin", role |-> "admin"]

\* userExists: SELECT COUNT(*) FROM users WHERE username = ?.
UserExists(name) == \E r \in users : r.name = name

\* The rows authenticateUser selects: at most one, for names are unique.
Matching(c) == {r \in users : r.name = c.name /\ r.password = c.password}

Init ==
    /\ users = {}
    /\ lastUserId = 0
    /\ schema = FALSE
    /\ server = "down"
    /\ holder = None
    /\ request \in [Sessions -> {[name |-> "admin", password |-> "admin"]}]
    /\ pc = [s \in Sessions |-> "idle"]
    /\ registered = [s \in Sessions |-> 0]
    /\ identity = [s \in Sessions |-> Anonymous]
    /\ received = 0
    /\ granted = [n \in Names |-> 0]

-----------------------------------------------------------------------------
(* The process.                                                            *)

\* The administrator is added only when this start made the tables.
BadInitSchema ==
    /\ server = "down"
    /\ server' = IF schema THEN "serving" ELSE "schema"
    /\ schema' = TRUE
    /\ UNCHANGED <<users, lastUserId, holder, lineVars, pc, registered, identity, granted>>

\* main makes the repository: open and initSchema.
InitSchema ==
    /\ server = "down"
    /\ server' = "schema"
    /\ schema' = TRUE
    /\ UNCHANGED <<users, lastUserId, holder, lineVars, pc, registered, identity, granted>>

\* INSERT OR REPLACE INTO users.
BadInitUsers ==
    /\ server = "schema"
    /\ server' = "serving"
    /\ users' = {r \in users : r.name # "admin"} \cup {Administrator(lastUserId + 1)}
    /\ lastUserId' = lastUserId + 1
    /\ UNCHANGED <<schema, holder, lineVars, pc, registered, identity, granted>>

\* initUsers: INSERT OR IGNORE of the administrator; then the server accepts
\* connections.
InitUsers ==
    /\ server = "schema"
    /\ server' = "serving"
    /\ IF UserExists("admin") THEN UNCHANGED <<users, lastUserId>>
       ELSE /\ users' = users \cup {Administrator(lastUserId + 1)}
            /\ lastUserId' = lastUserId + 1
    /\ UNCHANGED <<schema, holder, lineVars, pc, registered, identity, granted>>

\* The process ends: its sessions and its mutex are gone, the database stays.
Ends ==
    /\ server' = "down"
    /\ holder' = None
    /\ pc' = [s \in Sessions |-> "idle"]
    /\ registered' = [s \in Sessions |-> 0]
    /\ identity' = [s \in Sessions |-> Anonymous]
    /\ UNCHANGED <<tableVars, lineVars, granted>>

Crash == server # "down" /\ Ends

-----------------------------------------------------------------------------
(* The handlers.                                                           *)

\* A session reads a LOGIN or a REGISTER line.
ReceiveRequest(s) ==
    /\ server = "serving"
    /\ pc[s] = "idle"
    /\ received < MaxRequests
    /\ received' = received + 1
    /\ \E c \in Credentials : request' = [request EXCEPT ![s] = c]
    /\ \E op \in {"login", "register"} : pc' = [pc EXCEPT ![s] = op]
    /\ UNCHANGED <<tableVars, server, holder, registered, identity, granted>>

\* handleLogin: authenticateUser, under the lock from its first line to its
\* last; the identity changes only when the credentials are an account's.
HandleLogin(s) ==
    /\ pc[s] = "login"
    /\ holder = None
    /\ pc' = [pc EXCEPT ![s] = "idle"]
    /\ IF Matching(request[s]) = {} THEN UNCHANGED identity
       ELSE \E r \in Matching(request[s]) :
                identity' = [identity EXCEPT ![s] =
                    [user |-> r.id, node |-> r.name, isAdmin |-> r.role = "admin"]]
    /\ UNCHANGED <<tableVars, server, holder, lineVars, registered, granted>>

\* registerUser without its scoped_lock.
BadRegisterCheckUnlocked(s) ==
    /\ pc[s] = "register"
    /\ pc' = [pc EXCEPT ![s] = IF UserExists(request[s].name) THEN "idle" ELSE "insert"]
    /\ UNCHANGED <<tableVars, server, lineVars, holder, registered, identity, granted>>

\* The early return of registerUser keeps the mutex.
BadRegisterCheckKeeps(s) ==
    /\ pc[s] = "register"
    /\ holder = None
    /\ pc' = [pc EXCEPT ![s] = IF UserExists(request[s].name) THEN "idle" ELSE "insert"]
    /\ holder' = s
    /\ UNCHANGED <<tableVars, server, lineVars, registered, identity, granted>>

\* handleRegister goes on after "Username already taken".
BadRegisterCheckGoesOn(s) ==
    /\ pc[s] = "register"
    /\ holder = None
    /\ IF UserExists(request[s].name)
       THEN pc' = [pc EXCEPT ![s] = "answer"] /\ UNCHANGED holder
       ELSE pc' = [pc EXCEPT ![s] = "insert"] /\ holder' = s
    /\ UNCHANGED <<tableVars, server, lineVars, registered, identity, granted>>

\* registerUser: the lock is taken, and the name looked up; when it is taken
\* the lock is released and the answer is "Username already taken".
RegisterCheck(s) ==
    /\ pc[s] = "register"
    /\ holder = None
    /\ IF UserExists(request[s].name)
       THEN pc' = [pc EXCEPT ![s] = "idle"] /\ UNCHANGED holder
       ELSE pc' = [pc EXCEPT ![s] = "insert"] /\ holder' = s
    /\ UNCHANGED <<tableVars, server, lineVars, registered, identity, granted>>

\* The largest id of the table is taken, without the one more.
BadNewRow(s) ==
    [id |-> lastUserId, name |-> request[s].name,
     password |-> request[s].password, role |-> "user"]

\* The row of an ordinary user.
NewRow(s) ==
    [id |-> lastUserId + 1, name |-> request[s].name,
     password |-> request[s].password, role |-> "user"]

\* registerUser: the row is inserted, its id read with last_insert_rowid, and
\* the lock released.  A name that is in the table breaks the UNIQUE
\* constraint: the exception leaves the handler and the process ends.
RegisterInsert(s) ==
    /\ pc[s] = "insert"
    /\ IF UserExists(request[s].name)
       THEN Ends
       ELSE /\ users' = users \cup {NewRow(s)}
            /\ lastUserId' = lastUserId + 1
            /\ registered' = [registered EXCEPT ![s] = lastUserId + 1]
            /\ holder' = None
            /\ pc' = [pc EXCEPT ![s] = "answer"]
            /\ UNCHANGED <<schema, server, lineVars, identity, granted>>

\* last_insert_rowid is read after the lock is released.
BadRegisterAnswer(s) ==
    /\ pc[s] = "answer"
    /\ identity' = [identity EXCEPT ![s] =
           [user |-> lastUserId, node |-> request[s].name, isAdmin |-> FALSE]]
    /\ granted' = [granted EXCEPT ![request[s].name] = @ + 1]
    /\ pc' = [pc EXCEPT ![s] = "idle"]
    /\ UNCHANGED <<tableVars, server, holder, lineVars, registered>>

\* handleRegister: the answer is sent, and the session is the new user's.
RegisterAnswer(s) ==
    /\ pc[s] = "answer"
    /\ identity' = [identity EXCEPT ![s] =
           [user |-> registered[s], node |-> request[s].name, isAdmin |-> FALSE]]
    /\ granted' = [granted EXCEPT ![request[s].name] = @ + 1]
    /\ pc' = [pc EXCEPT ![s] = "idle"]
    /\ UNCHANGED <<tableVars, server, holder, lineVars, registered>>

\* The handler of a session goes on.
Handle(s) ==
    \/ HandleLogin(s)
    \/ RegisterCheck(s)
    \/ RegisterInsert(s)
    \/ RegisterAnswer(s)

Next ==
    \/ InitSchema
    \/ InitUsers
    \/ Crash
    \/ \E s \in Sessions : ReceiveRequest(s) \/ Handle(s)

Spec == Init /\ [][Next]_vars

\* A thread of the io_context goes on with a handler it began, and takes the
\* mutex when the mutex stays free.
FairSpec == Spec /\ \A s \in Sessions : WF_vars(Handle(s))

-----------------------------------------------------------------------------
(* Properties.                                                             *)

\* The type of the state; ids of accounts are unique and start at 1,
\* for 0 is nobody's.
TypeOK ==
    /\ users \subseteq Account
    /\ lastUserId \in Nat /\ \A r \in users : r.id \in 1 .. lastUserId
    /\ \A r, q \in users : r.id = q.id => r = q
    /\ schema \in BOOLEAN
    /\ server \in {"down", "schema", "serving"}
    /\ holder \in Sessions \cup {None}
    /\ request \in [Sessions -> Credentials]
    /\ pc \in [Sessions -> {"idle", "login", "register", "insert", "answer"}]
    /\ registered \in [Sessions -> Nat]
    /\ identity \in [Sessions -> Identity]
    /\ received \in 0 .. MaxRequests
    /\ granted \in [Names -> Nat]

\* Between the look-up of a name and its insertion no other thread inserts it:
\* the UNIQUE constraint never fails, which would end the process.
InsertNeverConflicts == \A s \in Sessions : pc[s] = "insert" => ~UserExists(request[s].name)

\* A serving server has its administrator account with the built-in password,
\* wherever an earlier start was interrupted and whoever registered since.
AdminAvailable ==
    server = "serving" =>
        \E r \in Matching([name |-> "admin", password |-> "admin"]) : r.role = "admin"

\* A session that acts for a user acts for one account of the table: with its
\* id, its node and its rights, also when registrations on other threads come
\* between the insertion of the row and the answer, and when the session
\* changed users before.  No registration makes an administrator.
IdentityBacked ==
    \A s \in Sessions : identity[s] # Anonymous =>
        \E r \in users : /\ r.id = identity[s].user
                         /\ r.name = identity[s].node
                         /\ identity[s].isAdmin <=> r.role = "admin"
                         /\ r.role = "admin" <=> r.name = "admin"

\* A name is granted to one registration, however sessions race for it and the
\* server restarts; a client that is told "ok" has the account.
GrantedOnce == \A n \in Names : granted[n] <= 1 /\ (granted[n] = 1 => UserExists(n))

\* An account is never changed or removed, by a restart least of all: the rows
\* of the metrics table refer to its id.
AccountsPermanent == [][users \subseteq users']_users

\* A session gets through with every request, unless the process ends: the
\* mutex is released on every path, so that a thread waits for it only while
\* other requests are handled.
RequestsAreAnswered ==
    \A s \in Sessions : pc[s] # "idle" ~> pc[s] = "idle"

\* tests/server/test_auth_service.cpp, RegularUserLogin: a repository that was
\* just made accepts the credentials user1, user1 of an ordinary user.
RegularUserLogin ==
    server = "serving" =>
        \E r \in Matching([name |-> "user1", password |-> "user1"]) : r.role = "user"
=============================================================================
