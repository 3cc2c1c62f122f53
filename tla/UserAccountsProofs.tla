------------------------- MODULE UserAccountsProofs -------------------------
(***************************************************************************)
(* Proofs about UserAccounts, for any sets of sessions, names and          *)
(* passwords and any number of requests and restarts.                      *)
(***************************************************************************)
EXTENDS UserAccounts, TLAPS

-----------------------------------------------------------------------------
(* The inductive invariant.                                                *)

\* The parts of the type invariant: the table, the handlers, and the rest.
TableTyped ==
    /\ users \subseteq Account
    /\ lastUserId \in Nat /\ \A r \in users : r.id \in 1 .. lastUserId
    /\ \A r, q \in users : r.id = q.id => r = q
HandlersTyped ==
    /\ request \in [Sessions -> Credentials]
    /\ pc \in [Sessions -> {"idle", "login", "register", "insert", "answer"}]
    /\ registered \in [Sessions -> Nat]
    /\ identity \in [Sessions -> Identity]
ProcessTyped ==
    /\ schema \in BOOLEAN
    /\ server \in {"down", "schema", "serving"}
    /\ holder \in Sessions \cup {None}
    /\ received \in 0 .. MaxRequests
    /\ granted \in [Names -> Nat]

\* m_mutex is held by the one session that is between look-up and insertion.
LockInv == \A s \in Sessions : pc[s] = "insert" <=> holder = s

\* Handlers run only in a serving process, and that has its administrator.
ServingInv ==
    /\ \A s \in Sessions : pc[s] # "idle" => server = "serving"
    /\ server = "serving" => UserExists("admin")

\* Names are unique; the one administrator is the built-in one.
NamesInv ==
    /\ \A r, q \in users : r.name = q.name => r = q
    /\ \A r \in users : /\ r.role = "admin" <=> r.name = "admin"
                        /\ r.name = "admin" => r.password = "admin"

\* A handler about to answer "ok" has made a row that nobody was granted yet, and
\* no other handler made one of that name.
AnswerInv ==
    \A s \in Sessions : pc[s] = "answer" =>
        /\ \E r \in users : r.id = registered[s] /\ r.name = request[s].name
        /\ request[s].name # "admin"
        /\ granted[request[s].name] = 0
        /\ \A t \in Sessions \ {s} : pc[t] = "answer" => request[t].name # request[s].name

IInv ==
    /\ TableTyped /\ HandlersTyped /\ ProcessTyped
    /\ LockInv /\ ServingInv /\ NamesInv /\ InsertNeverConflicts
    /\ AnswerInv /\ GrantedOnce /\ IdentityBacked

LEMMA TypeParts == TypeOK <=> TableTyped /\ HandlersTyped /\ ProcessTyped
BY DEF TypeOK, TableTyped, HandlersTyped, ProcessTyped

-----------------------------------------------------------------------------
LEMMA InitEstablishes == Init => IInv
<1> SUFFICES ASSUME Init PROVE IInv
  OBVIOUS
<1>1. TableTyped /\ ProcessTyped
  <2>1. TableTyped
    BY DEF Init, TableTyped
  <2>2. 0 \in 0 .. MaxRequests
    BY RequestsAssumption
  <2>3. granted \in [Names -> Nat]
    BY DEF Init
  <2>4. ProcessTyped
    BY <2>2, <2>3, Zenon DEF Init, ProcessTyped
  <2> QED
    BY <2>1, <2>4
<1>2. HandlersTyped
  BY NamesAssumption, PasswordsAssumption
     DEF Init, HandlersTyped, Credentials, Identity, Anonymous
<1>3. LockInv
  BY SessionsAssumption DEF Init, LockInv
<1>4. ServingInv /\ NamesInv /\ InsertNeverConflicts /\ AnswerInv
  BY DEF Init, ServingInv, NamesInv, InsertNeverConflicts, AnswerInv
<1>5. GrantedOnce
  BY DEF Init, GrantedOnce
<1>6. IdentityBacked
  BY DEF Init, IdentityBacked
<1> QED
  BY <1>1, <1>2, <1>3, <1>4, <1>5, <1>6 DEF IInv

\* The end of the process keeps what the table and the clients know.
LEMMA EndsPreserves ==
    ASSUME IInv, Ends
    PROVE  IInv'
<1>0. /\ TableTyped /\ HandlersTyped /\ ProcessTyped
      /\ NamesInv /\ GrantedOnce
  BY DEF IInv
<1>1. /\ UNCHANGED <<users, lastUserId, schema, request, received, granted>>
      /\ server' = "down" /\ holder' = None
      /\ pc' = [s \in Sessions |-> "idle"]
      /\ registered' = [s \in Sessions |-> 0]
      /\ identity' = [s \in Sessions |-> Anonymous]
  BY DEF Ends, tableVars, lineVars
<1>2. TableTyped' /\ ProcessTyped' /\ NamesInv'
  BY <1>0, <1>1 DEF TableTyped, ProcessTyped, NamesInv
<1>3. HandlersTyped'
  BY <1>0, <1>1 DEF HandlersTyped, Identity, Anonymous
<1>4. LockInv'
  BY <1>1, SessionsAssumption DEF LockInv
<1>5. ServingInv' /\ InsertNeverConflicts' /\ AnswerInv'
  BY <1>1 DEF ServingInv, InsertNeverConflicts, AnswerInv
<1>6. GrantedOnce'
  BY <1>0, <1>1 DEF GrantedOnce, UserExists
<1>7. IdentityBacked'
  BY <1>1 DEF IdentityBacked
<1> QED
  BY <1>2, <1>3, <1>4, <1>5, <1>6, <1>7 DEF IInv

\* Starting the server: the schema, then the administrator unless it is there.
LEMMA StartPreserves ==
    ASSUME IInv, InitSchema \/ InitUsers
    PROVE  IInv'
<1>0. /\ TableTyped /\ HandlersTyped /\ ProcessTyped /\ LockInv /\ ServingInv
      /\ NamesInv /\ InsertNeverConflicts /\ AnswerInv /\ GrantedOnce /\ IdentityBacked
  BY DEF IInv
<1>1. /\ UNCHANGED <<holder, request, received, pc, registered, identity, granted>>
      /\ server # "serving"
  BY DEF InitSchema, InitUsers, lineVars
<1>2. \A s \in Sessions : pc[s] = "idle"
  BY <1>0, <1>1 DEF ServingInv
<1>3. HandlersTyped' /\ LockInv'
  BY <1>0, <1>1 DEF HandlersTyped, LockInv
<1>4. InsertNeverConflicts' /\ AnswerInv'
  BY <1>1, <1>2 DEF InsertNeverConflicts, AnswerInv
<1>5. CASE UNCHANGED <<users, lastUserId>>
  <2>1. TableTyped' /\ NamesInv'
    BY <1>0, <1>5 DEF TableTyped, NamesInv
  <2>2. ProcessTyped'
    BY <1>0, <1>1 DEF ProcessTyped, InitSchema, InitUsers
  <2>3. server' = "serving" => UserExists("admin")
    <3>1. lastUserId + 1 # lastUserId
      BY <1>0 DEF TableTyped
    <3> QED
      BY <1>5, <3>1 DEF InitSchema, InitUsers
  <2>4. ServingInv'
    BY <1>1, <1>2, <1>5, <2>3 DEF ServingInv, UserExists
  <2>5. GrantedOnce' /\ IdentityBacked'
    BY <1>0, <1>1, <1>5 DEF GrantedOnce, IdentityBacked, UserExists
  <2> QED
    BY <1>3, <1>4, <2>1, <2>2, <2>4, <2>5 DEF IInv
<1>6. CASE /\ InitUsers /\ ~UserExists("admin")
  <2> DEFINE new == Administrator(lastUserId + 1)
  <2>1. /\ users' = users \cup {new} /\ lastUserId' = lastUserId + 1
        /\ server' = "serving" /\ schema' = schema
    BY <1>6 DEF InitUsers
  <2>2. /\ new.id = lastUserId + 1 /\ new.name = "admin"
        /\ new.password = "admin" /\ new.role = "admin"
    BY DEF Administrator
  <2>3. lastUserId \in Nat /\ lastUserId + 1 \in Nat
    BY <1>0 DEF TableTyped
  <2>4. new \in Account
    BY <2>3, NamesAssumption, PasswordsAssumption DEF Account, Administrator, Roles
  <2> HIDE DEF new
  <2>5. TableTyped'
    BY <1>0, <2>1, <2>2, <2>3, <2>4 DEF TableTyped
  <2>6. ProcessTyped'
    BY <1>0, <1>1, <2>1 DEF ProcessTyped
  <2>7. NamesInv'
    BY <1>0, <1>6, <2>1, <2>2 DEF NamesInv, UserExists
  <2>8. ServingInv'
    BY <1>1, <1>2, <2>1, <2>2 DEF ServingInv, UserExists
  <2>9. GrantedOnce'
    BY <1>0, <1>1, <2>1 DEF GrantedOnce, UserExists
  <2>10. IdentityBacked'
    BY <1>0, <1>1, <2>1 DEF IdentityBacked
  <2> QED
    BY <1>3, <1>4, <2>5, <2>6, <2>7, <2>8, <2>9, <2>10 DEF IInv
<1> QED
  BY <1>5, <1>6 DEF InitSchema, InitUsers

\* A line arrives, is a login, or a registration whose name is looked up.
LEMMA RequestPreserves ==
    ASSUME IInv, NEW s \in Sessions, ReceiveRequest(s) \/ HandleLogin(s) \/ RegisterCheck(s)
    PROVE  IInv'
<1>0. /\ TableTyped /\ HandlersTyped /\ ProcessTyped /\ LockInv /\ ServingInv
      /\ NamesInv /\ InsertNeverConflicts /\ AnswerInv /\ GrantedOnce /\ IdentityBacked
  BY DEF IInv
<1>1. UNCHANGED <<users, lastUserId, schema, server, registered, granted>>
  BY DEF ReceiveRequest, HandleLogin, RegisterCheck, tableVars
<1>2. TableTyped' /\ NamesInv' /\ GrantedOnce'
  BY <1>0, <1>1 DEF TableTyped, NamesInv, GrantedOnce, UserExists
<1>3. CASE ReceiveRequest(s)
  <2>1. PICK c \in Credentials, op \in {"login", "register"} :
           request' = [request EXCEPT ![s] = c] /\ pc' = [pc EXCEPT ![s] = op]
    BY <1>3 DEF ReceiveRequest
  <2>2. server = "serving" /\ pc[s] = "idle" /\ UNCHANGED <<holder, identity>>
        /\ received < MaxRequests /\ received' = received + 1
    BY <1>3 DEF ReceiveRequest
  <2>3. HandlersTyped'
    BY <1>0, <1>1, <2>1, <2>2 DEF HandlersTyped
  <2>4. ProcessTyped'
    BY <1>0, <1>1, <2>2, RequestsAssumption DEF ProcessTyped
  <2>5. LockInv' /\ ServingInv' /\ InsertNeverConflicts'
    BY <1>0, <1>1, <2>1, <2>2
       DEF HandlersTyped, LockInv, ServingInv, InsertNeverConflicts, UserExists
  <2>6. AnswerInv'
    BY <1>0, <1>1, <2>1, <2>2 DEF HandlersTyped, AnswerInv
  <2>7. IdentityBacked'
    BY <1>0, <1>1, <2>2 DEF IdentityBacked
  <2> QED
    BY <1>2, <2>3, <2>4, <2>5, <2>6, <2>7 DEF IInv
<1>4. CASE HandleLogin(s)
  <2>1. /\ pc[s] = "login" /\ pc' = [pc EXCEPT ![s] = "idle"]
        /\ UNCHANGED <<holder, request, received>>
    BY <1>4 DEF HandleLogin, lineVars
  <2>2. \/ UNCHANGED identity
        \/ \E r \in users : identity' = [identity EXCEPT ![s] =
               [user |-> r.id, node |-> r.name, isAdmin |-> r.role = "admin"]]
    BY <1>4 DEF HandleLogin, Matching
  <2>3. identity' \in [Sessions -> Identity] /\ IdentityBacked'
    <3>1. CASE UNCHANGED identity
      BY <1>0, <1>1, <3>1 DEF HandlersTyped, IdentityBacked
    <3>2. CASE ~UNCHANGED identity
      <4>1. PICK r \in users : identity' = [identity EXCEPT ![s] =
                [user |-> r.id, node |-> r.name, isAdmin |-> r.role = "admin"]]
        BY <2>2, <3>2
      <4>2. r.id \in Nat /\ r.name \in Names
        BY <1>0 DEF TableTyped, Account
      <4>3. identity' \in [Sessions -> Identity]
        BY <1>0, <4>1, <4>2 DEF HandlersTyped, Identity
      <4>4. IdentityBacked'
        BY <1>0, <1>1, <4>1 DEF HandlersTyped, IdentityBacked, NamesInv
      <4> QED
        BY <4>3, <4>4
    <3> QED
      BY <3>1, <3>2
  <2>4. HandlersTyped' /\ ProcessTyped'
    BY <1>0, <1>1, <2>1, <2>3 DEF HandlersTyped, ProcessTyped
  <2>5. LockInv' /\ ServingInv' /\ InsertNeverConflicts'
    BY <1>0, <1>1, <2>1
       DEF HandlersTyped, LockInv, ServingInv, InsertNeverConflicts, UserExists
  <2>6. AnswerInv'
    BY <1>0, <1>1, <2>1 DEF HandlersTyped, AnswerInv
  <2> QED
    BY <1>2, <2>3, <2>4, <2>5, <2>6 DEF IInv
<1>5. CASE RegisterCheck(s)
  <2>1. /\ pc[s] = "register" /\ holder = None
        /\ UNCHANGED <<request, received, identity>>
        /\ \/ /\ UserExists(request[s].name)
              /\ pc' = [pc EXCEPT ![s] = "idle"] /\ holder' = holder
           \/ /\ ~UserExists(request[s].name)
              /\ pc' = [pc EXCEPT ![s] = "insert"] /\ holder' = s
    BY <1>5 DEF RegisterCheck, lineVars
  <2>2. HandlersTyped' /\ ProcessTyped' /\ IdentityBacked'
    BY <1>0, <1>1, <2>1 DEF HandlersTyped, ProcessTyped, IdentityBacked
  <2>3. LockInv'
    BY <1>0, <2>1, SessionsAssumption DEF HandlersTyped, LockInv
  <2>4. ServingInv'
    BY <1>0, <1>1, <2>1 DEF HandlersTyped, ServingInv, UserExists
  <2>5. InsertNeverConflicts'
    BY <1>0, <1>1, <2>1 DEF HandlersTyped, InsertNeverConflicts, UserExists
  <2>6. AnswerInv'
    BY <1>0, <1>1, <2>1 DEF HandlersTyped, AnswerInv
  <2> QED
    BY <1>2, <2>2, <2>3, <2>4, <2>5, <2>6 DEF IInv
<1> QED
  BY <1>3, <1>4, <1>5

\* The row is inserted: the session that holds the mutex is the only one that can.
LEMMA RegisterInsertPreserves ==
    ASSUME IInv, NEW s \in Sessions, RegisterInsert(s)
    PROVE  IInv'
<1>0. /\ TableTyped /\ HandlersTyped /\ ProcessTyped /\ LockInv /\ ServingInv
      /\ NamesInv /\ InsertNeverConflicts /\ AnswerInv /\ GrantedOnce /\ IdentityBacked
  BY DEF IInv
<1> DEFINE new == NewRow(s)
           name == request[s].name
<1>1. pc[s] = "insert" /\ ~UserExists(name) /\ holder = s
  BY <1>0 DEF RegisterInsert, InsertNeverConflicts, LockInv
<1>2. /\ users' = users \cup {new} /\ lastUserId' = lastUserId + 1
      /\ registered' = [registered EXCEPT ![s] = lastUserId + 1]
      /\ holder' = None /\ pc' = [pc EXCEPT ![s] = "answer"]
      /\ UNCHANGED <<schema, server, request, received, identity, granted>>
  BY <1>1 DEF RegisterInsert, lineVars
<1>3. /\ new.id = lastUserId + 1 /\ new.name = name /\ new.role = "user"
  BY DEF NewRow
<1>4. lastUserId \in Nat /\ lastUserId + 1 \in Nat /\ name \in Names
  BY <1>0 DEF TableTyped, HandlersTyped, Credentials
<1>5. new \in Account
  BY <1>0, <1>4 DEF HandlersTyped, Credentials, Account, NewRow, Roles
<1>6. name # "admin"
  BY <1>0, <1>1 DEF ServingInv
<1>7. \A t \in Sessions \ {s} : pc[t] # "insert" /\ pc'[t] = pc[t] /\ registered'[t] = registered[t]
  BY <1>0, <1>1, <1>2 DEF LockInv, HandlersTyped
<1>8. pc'[s] = "answer" /\ registered'[s] = lastUserId + 1
  BY <1>0, <1>2 DEF HandlersTyped
<1> HIDE DEF new, name
<1>9. TableTyped'
  BY <1>0, <1>2, <1>3, <1>4, <1>5 DEF TableTyped
<1>10. HandlersTyped' /\ ProcessTyped'
  BY <1>0, <1>2, <1>4 DEF HandlersTyped, ProcessTyped
<1>11. LockInv'
  BY <1>2, <1>7, <1>8, SessionsAssumption DEF LockInv
<1>12. ServingInv'
  BY <1>0, <1>1, <1>2, <1>7, <1>8 DEF ServingInv, UserExists
<1>13. NamesInv'
  BY <1>0, <1>1, <1>2, <1>3, <1>6 DEF NamesInv, UserExists
<1>14. InsertNeverConflicts'
  BY <1>7, <1>8 DEF InsertNeverConflicts
<1>15. granted[name] = 0
  BY <1>0, <1>1, <1>4 DEF GrantedOnce, ProcessTyped
<1>16. \A t \in Sessions \ {s} : pc[t] = "answer" => request[t].name # name
  BY <1>0, <1>1 DEF AnswerInv, UserExists
<1>17. AnswerInv'
  <2> SUFFICES ASSUME NEW t \in Sessions, pc'[t] = "answer"
               PROVE  /\ \E r \in users' : r.id = registered'[t] /\ r.name = request[t].name
                      /\ request[t].name # "admin"
                      /\ granted[request[t].name] = 0
                      /\ \A u \in Sessions \ {t} :
                             pc'[u] = "answer" => request[u].name # request[t].name
    BY <1>2 DEF AnswerInv
  <2>1. CASE t = s
    BY <1>2, <1>3, <1>6, <1>7, <1>8, <1>15, <1>16, <2>1 DEF name
  <2>2. CASE t # s
    BY <1>0, <1>2, <1>7, <1>16, <2>2 DEF AnswerInv, name
  <2> QED
    BY <2>1, <2>2
<1>18. GrantedOnce'
  BY <1>0, <1>2 DEF GrantedOnce, UserExists
<1>19. IdentityBacked'
  BY <1>0, <1>2 DEF IdentityBacked
<1> QED
  BY <1>9, <1>10, <1>11, <1>12, <1>13, <1>14, <1>17, <1>18, <1>19 DEF IInv

\* The answer is sent: the name is granted for the first and last time.
LEMMA RegisterAnswerPreserves ==
    ASSUME IInv, NEW s \in Sessions, RegisterAnswer(s)
    PROVE  IInv'
<1>0. /\ TableTyped /\ HandlersTyped /\ ProcessTyped /\ LockInv /\ ServingInv
      /\ NamesInv /\ InsertNeverConflicts /\ AnswerInv /\ GrantedOnce /\ IdentityBacked
  BY DEF IInv
<1> DEFINE name == request[s].name
           new == [user |-> registered[s], node |-> name, isAdmin |-> FALSE]
<1>1. /\ pc[s] = "answer" /\ pc' = [pc EXCEPT ![s] = "idle"]
      /\ identity' = [identity EXCEPT ![s] = new]
      /\ granted' = [granted EXCEPT ![name] = @ + 1]
      /\ UNCHANGED <<users, lastUserId, schema, server, holder, request, received, registered>>
  BY DEF RegisterAnswer, tableVars, lineVars
<1>2. /\ \E r \in users : r.id = registered[s] /\ r.name = name
      /\ name # "admin" /\ granted[name] = 0 /\ name \in Names
      /\ \A t \in Sessions \ {s} : pc[t] = "answer" => request[t].name # name
  BY <1>0, <1>1 DEF AnswerInv, HandlersTyped, Credentials
<1>3. new \in Identity
  BY <1>0, <1>2 DEF HandlersTyped, Identity
<1>4. new.user = registered[s] /\ new.node = name /\ new.isAdmin = FALSE
  OBVIOUS
<1> HIDE DEF new, name
<1>5. \A t \in Sessions \ {s} : pc'[t] = pc[t] /\ identity'[t] = identity[t]
  BY <1>0, <1>1 DEF HandlersTyped
<1>6. pc'[s] = "idle" /\ identity'[s] = new
  BY <1>0, <1>1 DEF HandlersTyped
<1>7. granted' \in [Names -> Nat] /\ granted'[name] = 1
      /\ \A n \in Names \ {name} : granted'[n] = granted[n]
  BY <1>0, <1>1, <1>2 DEF ProcessTyped
<1>8. TableTyped' /\ NamesInv'
  BY <1>0, <1>1 DEF TableTyped, NamesInv
<1>9. HandlersTyped'
  BY <1>0, <1>1, <1>3 DEF HandlersTyped
<1>10. ProcessTyped'
  BY <1>0, <1>1, <1>7 DEF ProcessTyped
<1>11. LockInv' /\ ServingInv' /\ InsertNeverConflicts'
  BY <1>0, <1>1, <1>5, <1>6 DEF LockInv, ServingInv, InsertNeverConflicts, UserExists
<1>12. AnswerInv'
  <2> SUFFICES ASSUME NEW t \in Sessions, pc'[t] = "answer"
               PROVE  /\ \E r \in users : r.id = registered[t] /\ r.name = request[t].name
                      /\ request[t].name # "admin"
                      /\ granted'[request[t].name] = 0
                      /\ \A u \in Sessions \ {t} :
                             pc'[u] = "answer" => request[u].name # request[t].name
    BY <1>1 DEF AnswerInv
  <2>1. t # s /\ pc[t] = "answer"
    BY <1>5, <1>6
  <2>2. request[t].name \in Names \ {name}
    BY <1>0, <1>2, <2>1 DEF HandlersTyped, Credentials
  <2>3. \A u \in Sessions : pc'[u] = "answer" => pc[u] = "answer"
    BY <1>5, <1>6
  <2> QED
    BY <1>0, <1>7, <2>1, <2>2, <2>3 DEF AnswerInv
<1>13. GrantedOnce'
  <2>1. UserExists(name)
    BY <1>2 DEF UserExists
  <2>2. \A n \in Names : UserExists(n)' <=> UserExists(n)
    BY <1>1 DEF UserExists
  <2> QED
    BY <1>0, <1>7, <2>1, <2>2 DEF GrantedOnce
<1>14. IdentityBacked'
  BY <1>0, <1>1, <1>2, <1>4, <1>5, <1>6 DEF IdentityBacked, NamesInv
<1> QED
  BY <1>8, <1>9, <1>10, <1>11, <1>12, <1>13, <1>14 DEF IInv

LEMMA NextPreserves == IInv /\ [Next]_vars => IInv'
<1> SUFFICES ASSUME IInv, [Next]_vars PROVE IInv'
  OBVIOUS
<1>1. CASE UNCHANGED vars
  BY <1>1 DEF IInv, TableTyped, HandlersTyped, ProcessTyped, LockInv, ServingInv, NamesInv,
              InsertNeverConflicts, AnswerInv, GrantedOnce, IdentityBacked, UserExists, vars
<1>2. CASE InitSchema \/ InitUsers
  BY <1>2, StartPreserves
<1>3. CASE Crash
  BY <1>3, EndsPreserves DEF Crash
<1>4. ASSUME NEW s \in Sessions, ReceiveRequest(s) \/ Handle(s) PROVE IInv'
  BY <1>4, RequestPreserves, RegisterInsertPreserves, RegisterAnswerPreserves DEF Handle
<1> QED
  BY <1>1, <1>2, <1>3, <1>4 DEF Next

-----------------------------------------------------------------------------
(* Theorems.                                                               *)

\* The inductive invariant.
THEOREM Invariance == Spec => []IInv
<1> QED
  BY InitEstablishes, NextPreserves, PTL DEF Spec

\* The type invariant, for any sessions, names and passwords.
THEOREM TypeCorrect == Spec => []TypeOK
<1>1. IInv => TypeOK
  BY TypeParts DEF IInv
<1> QED
  BY <1>1, Invariance, PTL

\* registerUser's insertion never meets the UNIQUE constraint.
THEOREM NoConflict == Spec => []InsertNeverConflicts
<1>1. IInv => InsertNeverConflicts
  BY DEF IInv
<1> QED
  BY <1>1, Invariance, PTL

\* A name is granted to one registration at most.
THEOREM OneOwner == Spec => []GrantedOnce
<1>1. IInv => GrantedOnce
  BY DEF IInv
<1> QED
  BY <1>1, Invariance, PTL

\* A session acts with the id, the node and the rights of one account.
THEOREM IdentityIsAccount == Spec => []IdentityBacked
<1>1. IInv => IdentityBacked
  BY DEF IInv
<1> QED
  BY <1>1, Invariance, PTL

\* A serving server has its administrator.
THEOREM AdminIsThere == Spec => []AdminAvailable
<1>1. IInv => AdminAvailable
  BY DEF IInv, ServingInv, NamesInv, UserExists, AdminAvailable, Matching
<1> QED
  BY <1>1, Invariance, PTL

\* No step changes or removes an account.
THEOREM AccountsKept == Spec => AccountsPermanent
<1>1. [Next]_vars => [users \subseteq users']_users
  BY DEF Next, vars, InitSchema, InitUsers, Crash, Ends, ReceiveRequest, Handle, HandleLogin,
         RegisterCheck, RegisterInsert, RegisterAnswer, tableVars
<1> QED
  BY <1>1, PTL DEF Spec, AccountsPermanent
=============================================================================
