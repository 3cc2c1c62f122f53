------------------------- MODULE ClientSessionProofs -------------------------
(***************************************************************************)
(* Proofs about ClientSession, for any names and any number of requests    *)
(* and answers on their way.                                               *)
(***************************************************************************)
EXTENDS ClientSession, TLAPS

-----------------------------------------------------------------------------
(* The type of the state.                                                  *)

Flags == {fragment, tab, logout, role, worker, answered, orphan}

LEMMA GarbledIsAnswer ==
    ASSUME NEW line, line.user \in Names
    PROVE  \A g \in Garbled(line) : g \in Answer /\ ~g.ok
  BY DEF Garbled, Answer

LEMMA RequestFacts ==
    \A line \in Request : /\ line.type \in {"LOGIN", "REGISTER", "ADMIN"}
                          /\ line.type \in {"LOGIN", "REGISTER"} => line.user \in Names
  BY DEF Request

\* What the session's handlers answer is an answer.
LEMMA AnswersAreAnswers ==
    ASSUME TypeOK, HandleLogin \/ HandleRegister
    PROVE  \E a \in Answer :
              /\ a.user = Head(requests).user
              /\ responses' = Append(responses, a)
              /\ account' = IF a.ok THEN a.user ELSE account
              /\ a.ok => a.user \in accounts'
              /\ accounts' = accounts \/ accounts' = accounts \cup {a.user}
              /\ a.type = "REGISTER_RESP" /\ a.ok => a.user \notin accounts
<1> DEFINE name == Head(requests).user
<1>1. Head(requests) \in Request /\ name \in Names
  BY RequestFacts DEF TypeOK, HandleLogin, HandleRegister
<1>2. CASE HandleLogin
  <2>1. PICK ok \in BOOLEAN :
            /\ ok => name \in accounts
            /\ account' = AccountAfter(Head(requests), ok)
            /\ responses' = Append(responses, [type |-> "LOGIN_RESP", ok |-> ok, user |-> name])
    BY <1>2 DEF HandleLogin
  <2>2. accounts' = accounts
    BY <1>2 DEF HandleLogin
  <2> DEFINE a == [type |-> "LOGIN_RESP", ok |-> ok, user |-> name]
  <2>3. a \in Answer /\ a.user = name /\ a.ok = ok /\ a.type = "LOGIN_RESP"
    BY <1>1 DEF Answer
  <2> HIDE DEF a
  <2> QED
    BY <2>1, <2>2, <2>3 DEF AccountAfter, a
<1>3. CASE HandleRegister
  <2> DEFINE ok == name \notin accounts
             a == [type |-> "REGISTER_RESP", ok |-> ok, user |-> name]
  <2>1. /\ accounts' = accounts \cup {name}
        /\ account' = AccountAfter(Head(requests), ok)
        /\ responses' = Append(responses, a)
    BY <1>3 DEF HandleRegister
  <2>2. a \in Answer /\ a.user = name /\ a.ok = ok /\ a.type = "REGISTER_RESP"
    BY <1>1 DEF Answer
  <2>3. account' = IF ok THEN name ELSE account
    BY <2>1 DEF AccountAfter
  <2> HIDE DEF a
  <2> QED
    BY <2>1, <2>2, <2>3
<1> QED
  BY <1>2, <1>3

LEMMA InitType == Init => TypeOK
<1> SUFFICES ASSUME Init PROVE TypeOK
  OBVIOUS
<1>1. \A flag \in Flags : flag = FALSE
  BY DEF Init, Flags
<1>2. requests \in Seq(Request) /\ responses \in Seq(Answer) /\ buffer \in Seq(Answer)
      /\ dialog \in Seq(Answer)
  BY DEF Init
<1>3. accounts \subseteq Names /\ "admin" \in accounts /\ account = Nobody /\ user = Nobody
  BY NamesAssumption DEF Init
<1> QED
  BY <1>1, <1>2, <1>3 DEF Init, TypeOK, Flags

LEMMA TypeStep ==
    ASSUME TypeOK, [Next]_vars
    PROVE  TypeOK'
<1>1. CASE UNCHANGED vars
  BY <1>1 DEF vars, TypeOK, Connected
<1>2. CASE HandleLogin \/ HandleRegister
  <2>1. PICK a \in Answer :
              /\ a.user = Head(requests).user
              /\ responses' = Append(responses, a)
              /\ account' = IF a.ok THEN a.user ELSE account
              /\ a.ok => a.user \in accounts'
              /\ accounts' = accounts \/ accounts' = accounts \cup {a.user}
    BY <1>2, AnswersAreAnswers
  <2>2. a.user \in Names
    BY DEF Answer
  <2>3. /\ accounts' \subseteq Names /\ "admin" \in accounts'
        /\ account' \in accounts' \cup {Nobody}
        /\ responses' \in Seq(Answer)
    BY <2>1, <2>2 DEF TypeOK
  <2>4. /\ requests # << >> /\ requests' = Tail(requests)
        /\ UNCHANGED <<socket, fragment, buffer, dialog, windowVars, serviceVars>>
    BY <1>2 DEF HandleLogin, HandleRegister
  <2>5. requests' \in Seq(Request) /\ Connected /\ Connected'
    BY <2>4 DEF TypeOK, Connected
  <2> QED
    BY <2>3, <2>4, <2>5 DEF TypeOK, windowVars, serviceVars
<1>3. CASE HandleAdmin
  <2>1. requests # << >> /\ requests' = Tail(requests) /\ socket' = socket
    BY <1>3 DEF HandleAdmin
  <2>2. requests' \in Seq(Request) /\ Connected /\ Connected'
    BY <2>1 DEF TypeOK, Connected
  <2> QED
    BY <1>3, <2>2 DEF HandleAdmin, TypeOK, readerVars, windowVars, serviceVars
<1>4. CASE OtherRegisters
  BY <1>4 DEF OtherRegisters, TypeOK, Connected, readerVars, windowVars, serviceVars
<1>5. CASE OnReadyRead \/ GarbleOther
  <2>1. /\ Connected /\ Connected' /\ fragment' = FALSE
        /\ UNCHANGED <<socket, sessionVars, dialog, windowVars, serviceVars>>
    BY <1>5 DEF OnReadyRead, GarbleOther, Connected
  <2>2. responses' \in Seq(Answer) /\ buffer' \in Seq(Answer)
    <3>1. CASE OnReadyRead
      <4>1. PICK n \in 1 .. Len(responses) :
                /\ responses' = SubSeq(responses, n + 1, Len(responses))
                /\ IF fragment
                   THEN \E line \in Garbled(Head(responses)) :
                            buffer' = <<line>> \o SubSeq(responses, 2, n)
                   ELSE buffer' = SubSeq(responses, 1, n)
        BY <3>1 DEF OnReadyRead
      <4>2. responses \in Seq(Answer) /\ Head(responses) \in Answer
        BY <4>1 DEF TypeOK
      <4>3. /\ SubSeq(responses, n + 1, Len(responses)) \in Seq(Answer)
            /\ SubSeq(responses, 2, n) \in Seq(Answer) /\ SubSeq(responses, 1, n) \in Seq(Answer)
        BY <4>1, <4>2
      <4>4. \A g \in Answer : <<g>> \o SubSeq(responses, 2, n) \in Seq(Answer)
        BY <4>3
      <4> QED
        <5>1. Head(responses).user \in Names
          BY <4>2 DEF Answer
        <5> QED
          BY <4>1, <4>3, <4>4, <5>1, GarbledIsAnswer
    <3>2. CASE GarbleOther
      <4>1. PICK line \in Garbled([user |-> "admin"]) : buffer' = <<line>>
        BY <3>2 DEF GarbleOther
      <4>2. line \in Answer
        BY NamesAssumption, GarbledIsAnswer
      <4> QED
        BY <3>2, <4>1, <4>2 DEF GarbleOther, TypeOK
    <3> QED
      BY <1>5, <3>1, <3>2
  <2> QED
    BY <2>1, <2>2 DEF TypeOK, sessionVars, windowVars, serviceVars
<1>6. CASE OnLoginResponse \/ OnRegisterResponse \/ CloseDialog
  <2>1. socket' = socket /\ UNCHANGED <<sessionVars, responses, fragment>>
    BY <1>6 DEF OnLoginResponse, OnRegisterResponse, CloseDialog
  <2>2. buffer' \in Seq(Answer) /\ dialog' \in Seq(Answer)
    <3>1. CASE buffer # << >> /\ buffer' = Tail(buffer) /\ dialog' \in {dialog, <<Head(buffer)>>}
      <4>1. buffer \in Seq(Answer) /\ dialog \in Seq(Answer)
        BY DEF TypeOK
      <4>2. Tail(buffer) \in Seq(Answer) /\ Head(buffer) \in Answer
        BY <3>1, <4>1
      <4>3. <<Head(buffer)>> \in Seq(Answer)
        BY <4>2
      <4> QED
        BY <3>1, <4>1, <4>2, <4>3
    <3>2. CASE buffer' = buffer /\ dialog' = << >>
      BY <3>2 DEF TypeOK
    <3> QED
      BY <1>6, <3>1, <3>2 DEF OnLoginResponse, OnRegisterResponse, CloseDialog
  <2>3. \/ UNCHANGED <<windowVars, serviceVars>>
        \/ \E line \in Answer, isAdmin \in BOOLEAN :
               /\ UpdateAdminState(isAdmin) /\ label' = (IF isAdmin THEN "admin" ELSE "user")
               /\ Accept(line)
    <3>1. CASE OnLoginResponse
      <4>1. Head(buffer) \in Answer /\ (Head(buffer).user = "admin") \in BOOLEAN
        BY <3>1 DEF OnLoginResponse, TypeOK
      <4> QED
        BY <3>1, <4>1 DEF OnLoginResponse
    <3>2. CASE OnRegisterResponse
      BY <3>2 DEF OnRegisterResponse
    <3>3. CASE CloseDialog
      <4>1. Head(dialog) \in Answer
        BY <3>3 DEF CloseDialog, TypeOK
      <4> QED
        BY <3>3, <4>1 DEF CloseDialog
    <3> QED
      BY <1>6, <3>1, <3>2, <3>3
  <2>4. /\ label' \in {"none", "user", "admin"} /\ user' \in Names \cup {Nobody}
        /\ \A flag \in {tab', logout', role', worker', answered', orphan'} : flag \in BOOLEAN
    <3>1. CASE UNCHANGED <<windowVars, serviceVars>>
      BY <3>1 DEF TypeOK, windowVars, serviceVars
    <3>2. CASE \E line \in Answer, isAdmin \in BOOLEAN :
               /\ UpdateAdminState(isAdmin) /\ label' = (IF isAdmin THEN "admin" ELSE "user")
               /\ Accept(line)
      <4>1. PICK line \in Answer, isAdmin \in BOOLEAN :
                 /\ UpdateAdminState(isAdmin) /\ label' = (IF isAdmin THEN "admin" ELSE "user")
                 /\ Accept(line)
        BY <3>2
      <4>2. label' \in {"none", "user", "admin"} /\ user' \in Names \cup {Nobody}
        BY <4>1 DEF Accept, Answer
      <4>3. tab' \in BOOLEAN /\ logout' \in BOOLEAN /\ orphan' \in BOOLEAN
        BY <4>1, Zenon DEF UpdateAdminState, Connected
      <4>4. role' \in BOOLEAN /\ worker' \in BOOLEAN /\ answered' \in BOOLEAN
        BY <4>1, Zenon DEF Accept, Connected
      <4> QED
        BY <4>2, <4>3, <4>4
    <3> QED
      BY <2>3, <3>1, <3>2
  <2> QED
    BY <2>1, <2>2, <2>4 DEF TypeOK, sessionVars, Connected
<1>7. CASE Connect
  BY <1>7 DEF Connect, UpdateConnectionState, TypeOK, Connected, sessionVars, readerVars,
     serviceVars
<1>8. CASE OnDisconnectClicked \/ OnLogoutClicked
  <2>1. /\ Connected /\ Connected' /\ socket' \in {"connected", "closing"}
        /\ UNCHANGED <<sessionVars, readerVars, user, answered>>
        /\ label' = "none" /\ UpdateAdminState(FALSE)
        /\ role' = FALSE /\ worker' \in {worker, FALSE}
    BY <1>8 DEF OnDisconnectClicked, OnLogoutClicked, Connected, TypeOK
  <2> QED
    BY <2>1 DEF UpdateAdminState, TypeOK, sessionVars, readerVars
<1>9. CASE SendCredentials \/ SendAdminRequest
  <2>1. PICK line \in Request : requests' = Append(requests, line)
    <3>1. CASE SendCredentials
      BY <3>1 DEF SendCredentials, Request
    <3>2. CASE SendAdminRequest
      <4>1. [type |-> "ADMIN", offered |-> Quiet /\ ~orphan] \in Request
        BY DEF Request
      <4> QED
        BY <3>2, <4>1 DEF SendAdminRequest
    <3> QED
      BY <1>9, <3>1, <3>2
  <2>2. /\ Connected /\ Connected'
        /\ UNCHANGED <<socket, account, accounts, readerVars, windowVars, serviceVars>>
    BY <1>9 DEF SendCredentials, SendAdminRequest, Connected
  <2> QED
    BY <2>1, <2>2 DEF TypeOK, readerVars, windowVars, serviceVars
<1>10. CASE OnDisconnected \/ Restart
  <2>1. /\ socket' = "unconnected" /\ requests' = << >> /\ responses' = << >>
        /\ account' = Nobody /\ accounts' = accounts
        /\ buffer' \in {buffer, << >>} /\ dialog' \in {dialog, << >>}
        /\ label' \in {label, "none"} /\ user' \in {user, Nobody}
    BY <1>10 DEF OnDisconnected, Restart
  <2>2. \A flag \in Flags' : flag \in BOOLEAN
    <3>1. fragment' \in BOOLEAN /\ role' \in BOOLEAN /\ worker' \in BOOLEAN
          /\ answered' \in BOOLEAN /\ orphan' \in BOOLEAN
      BY <1>10 DEF OnDisconnected, Restart, TypeOK
    <3>2. tab' \in BOOLEAN /\ logout' \in BOOLEAN
      BY <1>10, Zenon DEF OnDisconnected, Restart, UpdateConnectionState
    <3> QED
      BY <3>1, <3>2 DEF Flags
  <2>3. /\ accounts' \subseteq Names /\ "admin" \in accounts'
    BY <2>1 DEF TypeOK
  <2>5. /\ requests' \in Seq(Request) /\ responses' \in Seq(Answer)
        /\ buffer' \in Seq(Answer) /\ dialog' \in Seq(Answer)
    <3>1. buffer \in Seq(Answer) /\ dialog \in Seq(Answer)
      BY DEF TypeOK
    <3>2. << >> \in Seq(Request) /\ << >> \in Seq(Answer)
      OBVIOUS
    <3> QED
      BY <2>1, <3>1, <3>2
  <2>4. label' \in {"none", "user", "admin"} /\ user' \in Names \cup {Nobody}
    BY <2>1 DEF TypeOK
  <2> QED
    BY <2>1, <2>2, <2>3, <2>4, <2>5 DEF TypeOK, Flags
<1> QED
  BY <1>1, <1>2, <1>3, <1>4, <1>5, <1>6, <1>7, <1>8, <1>9, <1>10 DEF Next

\* The state has its type: a connection that ended leaves nothing on its way,
\* and only an account, or nobody, is logged in.
THEOREM TypeCorrect == Spec => []TypeOK
  BY InitType, TypeStep, PTL DEF Spec

-----------------------------------------------------------------------------
(* What the window shows, and what the answers on their way will make of   *)
(* it.                                                                     *)

\* Label, role and user change together, but for the click that empties the
\* window.  The tab is an administrator's, and is enabled by an answer of this
\* connection, if not by an orphan; from such an answer on it stays enabled
\* until the label goes, and the worker runs until the user disconnects.
WindowInv ==
    /\ label = "admin" => role /\ user = "admin"
    /\ label = "user" => ~role /\ user # "admin"
    /\ label = "none" => ~role
    /\ tab => label = "admin"
    /\ answered => Connected
    /\ answered /\ label = "admin" => tab
    /\ answered /\ socket = "connected" => worker
    /\ tab /\ ~orphan => answered

\* At most one message box is open, of a registration.
DialogInv == dialog # << >> => dialog = <<dialog[1]>> /\ dialog[1].type = "REGISTER_RESP"

\* Nobody registers as the administrator.
Plain(q) == \A i \in DOMAIN q : q[i].type = "REGISTER_RESP" /\ q[i].ok => q[i].user # "admin"
RegisteredInv == Plain(responses) /\ Plain(buffer) /\ Plain(dialog)

\* A fragment is there until the first line of the connection is read.
FragmentInv == Connected /\ fragment => Idle /\ ~answered

\* No answer in q is a success; the last success in q, if any, is of u.
Silent(q) == \A i \in DOMAIN q : ~q[i].ok
LastIs(q, u) ==
    \A i \in DOMAIN q : q[i].ok /\ (\A j \in DOMAIN q : i < j => ~q[j].ok) => q[i].user = u

\* The session's account is the one of its last success, wherever that is on its
\* way to the client: not read, read, in the message box, or taken over, if its
\* name could be read.
AccountInv ==
    Connected =>
        /\ LastIs(responses, account)
        /\ Silent(responses) => LastIs(buffer, account)
        /\ Silent(responses) /\ Silent(buffer) => LastIs(dialog, account)
        /\ Silent(responses) /\ Silent(buffer) /\ Silent(dialog) /\ answered
              => account \in {user} \cup Unreadable

\* A request that was offered is behind none that changes the account.
OfferedInv ==
    \A i \in DOMAIN requests : requests[i].type = "ADMIN" /\ requests[i].offered =>
        /\ account \in {"admin"} \cup Unreadable
        /\ \A j \in 1 .. i : requests[j].type = "ADMIN"

ShownInv == TypeOK /\ WindowInv /\ DialogInv /\ RegisteredInv
IInv == ShownInv /\ FragmentInv /\ AccountInv /\ OfferedInv

\* The session answers.
LEMMA AnswerSent ==
    ASSUME NEW q \in Seq(Answer), NEW a \in Answer, NEW u
    PROVE  /\ Silent(Append(q, a)) => Silent(q) /\ ~a.ok
           /\ LastIs(q, u) => LastIs(Append(q, a), IF a.ok THEN a.user ELSE u)
           /\ Plain(q) /\ (a.type = "REGISTER_RESP" /\ a.ok => a.user # "admin")
                => Plain(Append(q, a))
<1> DEFINE p == Append(q, a)
<1>1. /\ DOMAIN p = DOMAIN q \cup {Len(q) + 1} /\ p[Len(q) + 1] = a
      /\ \A i \in DOMAIN q : p[i] = q[i]
      /\ \A i \in DOMAIN q : i \in Nat /\ i < Len(q) + 1
      /\ Len(q) \in Nat
  OBVIOUS
<1> HIDE DEF p
<1>2. Silent(p) => Silent(q) /\ ~a.ok
  BY <1>1 DEF Silent
<1>3. LastIs(q, u) => LastIs(p, IF a.ok THEN a.user ELSE u)
  <2>1. CASE a.ok
    BY <1>1, <2>1 DEF LastIs
  <2>2. CASE ~a.ok
    BY <1>1, <2>2 DEF LastIs
  <2> QED
    BY <2>1, <2>2
<1>4. Plain(q) /\ (a.type = "REGISTER_RESP" /\ a.ok => a.user # "admin") => Plain(p)
  BY <1>1 DEF Plain
<1> QED
  BY <1>2, <1>3, <1>4 DEF p

\* The client reads the first n answers, or a failure in the place of the first.
LEMMA AnswersRead ==
    ASSUME NEW q \in Seq(Answer), NEW n \in 1 .. Len(q), NEW g \in Answer, ~g.ok,
           NEW p \in {SubSeq(q, 1, n), <<g>> \o SubSeq(q, 2, n)}, NEW u
    PROVE  LET r == SubSeq(q, n + 1, Len(q)) IN
           /\ LastIs(q, u) => LastIs(r, u) /\ (Silent(r) => LastIs(p, u))
           /\ Silent(r) /\ p = SubSeq(q, 1, n) /\ Silent(p) => Silent(q)
           /\ Plain(q) => Plain(r) /\ Plain(p)
<1> DEFINE r == SubSeq(q, n + 1, Len(q))
<1>1. /\ DOMAIN q = 1 .. Len(q) /\ Len(q) \in Nat /\ n \in Nat /\ 1 <= n /\ n <= Len(q)
      /\ DOMAIN r = 1 .. Len(q) - n
      /\ \A i \in 1 .. Len(q) - n : r[i] = q[n + i]
  OBVIOUS
<1>2. /\ DOMAIN p = 1 .. n
      /\ \A i \in 1 .. n : p[i] = q[i] \/ (~p[i].ok /\ i = 1)
      /\ p = SubSeq(q, 1, n) => \A i \in 1 .. n : p[i] = q[i]
  <2>1. CASE p = SubSeq(q, 1, n)
    BY <2>1
  <2>2. CASE p = <<g>> \o SubSeq(q, 2, n)
    <3>1. /\ SubSeq(q, 2, n) \in Seq(Answer) /\ Len(SubSeq(q, 2, n)) = n - 1
          /\ \A i \in 1 .. n - 1 : SubSeq(q, 2, n)[i] = q[i + 1]
      OBVIOUS
    <3>2. DOMAIN p = 1 .. n /\ p[1] = g /\ \A i \in 2 .. n : p[i] = SubSeq(q, 2, n)[i - 1]
      BY <2>2, <3>1
    <3>3. \A i \in 2 .. n : p[i] = q[i]
      BY <3>1, <3>2
    <3>4. p = SubSeq(q, 1, n) => \A i \in 1 .. n : p[i] = q[i]
      OBVIOUS
    <3> QED
      BY <3>2, <3>3, <3>4
  <2> QED
    BY <2>1, <2>2
<1> HIDE DEF r
<1>3. ASSUME LastIs(q, u) PROVE LastIs(r, u)
  <2> SUFFICES ASSUME NEW i \in DOMAIN r, r[i].ok, \A j \in DOMAIN r : i < j => ~r[j].ok
               PROVE  r[i].user = u
    BY DEF LastIs
  <2>1. n + i \in DOMAIN q /\ r[i] = q[n + i]
    BY <1>1
  <2>2. ASSUME NEW j \in DOMAIN q, n + i < j PROVE ~q[j].ok
    <3>1. j - n \in DOMAIN r /\ i < j - n /\ q[j] = r[j - n]
      BY <1>1, <2>2
    <3> QED
      BY <3>1
  <2> QED
    BY <1>3, <2>1, <2>2 DEF LastIs
<1>4. ASSUME Silent(r), NEW j \in DOMAIN q, n < j PROVE ~q[j].ok
  <2>1. j - n \in DOMAIN r /\ q[j] = r[j - n]
    BY <1>1, <1>4
  <2> QED
    BY <1>4, <2>1 DEF Silent
<1>5. ASSUME LastIs(q, u), Silent(r) PROVE LastIs(p, u)
  <2> SUFFICES ASSUME NEW i \in DOMAIN p, p[i].ok, \A j \in DOMAIN p : i < j => ~p[j].ok
               PROVE  p[i].user = u
    BY DEF LastIs
  <2>1. i \in DOMAIN q /\ p[i] = q[i]
    BY <1>1, <1>2
  <2>2. ASSUME NEW j \in DOMAIN q, i < j PROVE ~q[j].ok
    <3>1. CASE n < j
      BY <1>4, <1>5, <3>1
    <3>2. CASE j <= n
      <4>1. j \in DOMAIN p /\ p[j] = q[j]
        BY <1>1, <1>2, <2>2, <3>2
      <4> QED
        BY <2>2, <4>1
    <3> QED
      BY <1>1, <3>1, <3>2
  <2> QED
    BY <1>5, <2>1, <2>2 DEF LastIs
<1>6. ASSUME Silent(r), p = SubSeq(q, 1, n), Silent(p) PROVE Silent(q)
  <2> SUFFICES ASSUME NEW j \in DOMAIN q PROVE ~q[j].ok
    BY DEF Silent
  <2>1. CASE n < j
    BY <1>4, <1>6, <2>1
  <2>2. CASE j <= n
    <3>1. j \in DOMAIN p /\ p[j] = q[j]
      BY <1>1, <1>2, <1>6, <2>2
    <3> QED
      BY <1>6, <3>1 DEF Silent
  <2> QED
    BY <1>1, <2>1, <2>2
<1>7. ASSUME Plain(q) PROVE Plain(r) /\ Plain(p)
  <2>1. \A i \in DOMAIN r : n + i \in DOMAIN q /\ r[i] = q[n + i]
    BY <1>1
  <2>2. \A i \in DOMAIN p : p[i].ok => i \in DOMAIN q /\ p[i] = q[i]
    BY <1>1, <1>2
  <2> QED
    BY <1>7, <2>1, <2>2 DEF Plain
<1> QED
  BY <1>3, <1>5, <1>6, <1>7 DEF r

\* The client handles an answer.
LEMMA AnswerHandled ==
    ASSUME NEW q \in Seq(Answer), q # << >>, NEW u
    PROVE  /\ Head(q) \in Answer /\ Tail(q) \in Seq(Answer)
           /\ LastIs(q, u) => /\ LastIs(Tail(q), u)
                              /\ Silent(Tail(q)) => LastIs(<<Head(q)>>, u)
           /\ Silent(Tail(q)) /\ ~Head(q).ok => Silent(q)
           /\ Plain(q) => Plain(Tail(q)) /\ Plain(<<Head(q)>>)
<1> DEFINE t == Tail(q)
<1>1. /\ Len(q) \in Nat \ {0} /\ DOMAIN q = 1 .. Len(q)
      /\ DOMAIN t = 1 .. Len(q) - 1 /\ t \in Seq(Answer)
      /\ \A i \in 1 .. Len(q) - 1 : t[i] = q[i + 1]
      /\ Head(q) = q[1] /\ Head(q) \in Answer
  OBVIOUS
<1> HIDE DEF t
<1>2. \A i \in DOMAIN t : i \in Nat /\ i + 1 \in DOMAIN q /\ t[i] = q[i + 1]
  BY <1>1
<1>3. \A j \in DOMAIN q : j # 1 => j - 1 \in DOMAIN t /\ j \in Nat /\ q[j] = t[j - 1]
  BY <1>1
<1>4. ASSUME LastIs(q, u) PROVE LastIs(t, u)
  <2> SUFFICES ASSUME NEW i \in DOMAIN t, t[i].ok, \A j \in DOMAIN t : i < j => ~t[j].ok
               PROVE  t[i].user = u
    BY DEF LastIs
  <2>1. ASSUME NEW j \in DOMAIN q, i + 1 < j PROVE ~q[j].ok
    <3>1. j # 1 /\ i < j - 1
      BY <1>1, <1>2, <2>1
    <3> QED
      BY <1>3, <3>1
  <2> QED
    BY <1>2, <1>4, <2>1 DEF LastIs
<1>5. ASSUME LastIs(q, u), Silent(t) PROVE LastIs(<<Head(q)>>, u)
  <2>1. \A j \in DOMAIN q : 1 < j => ~q[j].ok
    BY <1>1, <1>3, <1>5 DEF Silent
  <2>2. 1 \in DOMAIN q
    BY <1>1
  <2>3. Head(q).ok => Head(q).user = u
    BY <1>1, <1>5, <2>1, <2>2 DEF LastIs
  <2>4. \A i \in DOMAIN <<Head(q)>> : <<Head(q)>>[i] = Head(q)
    OBVIOUS
  <2> QED
    BY <2>3, <2>4 DEF LastIs
<1>6. ASSUME Silent(t), ~Head(q).ok PROVE Silent(q)
  BY <1>1, <1>3, <1>6 DEF Silent
<1>7. ASSUME Plain(q) PROVE Plain(t) /\ Plain(<<Head(q)>>)
  <2>1. 1 \in DOMAIN q
    BY <1>1
  <2>2. \A i \in DOMAIN <<Head(q)>> : <<Head(q)>>[i] = Head(q)
    OBVIOUS
  <2> QED
    BY <1>1, <1>2, <1>7, <2>1, <2>2 DEF Plain
<1> QED
  BY <1>1, <1>4, <1>5, <1>6, <1>7 DEF t

LEMMA NoAnswers == Silent(<< >>) /\ Plain(<< >>) /\ \A u : LastIs(<< >>, u)
  BY DEF Silent, Plain, LastIs

LEMMA InitShown == Init => WindowInv /\ DialogInv /\ RegisteredInv
  BY NoAnswers DEF Init, WindowInv, DialogInv, RegisteredInv

\* A success is taken over: the window and the service agree on it.
LEMMA TakenOver ==
    ASSUME TypeOK, NEW line \in Answer, NEW isAdmin \in BOOLEAN, isAdmin <=> line.user = "admin",
           socket' = socket, UpdateAdminState(isAdmin), Accept(line),
           label' = IF isAdmin THEN "admin" ELSE "user"
    PROVE  WindowInv'
<1>1. tab' = isAdmin /\ role' = (line.user = "admin") /\ user' = line.user /\ worker' = TRUE
  BY DEF UpdateAdminState, Accept
<1>2. (orphan' <=> isAdmin /\ ~Connected) /\ (answered' <=> Connected)
      /\ (Connected' <=> Connected)
  BY DEF UpdateAdminState, Accept, Connected
<1>3. CASE isAdmin
  BY <1>1, <1>2, <1>3 DEF WindowInv
<1>4. CASE ~isAdmin
  BY <1>1, <1>2, <1>4 DEF WindowInv
<1> QED
  BY <1>3, <1>4

\* What the loop of onReadyRead does with an answer.
LEMMA AnswerTaken ==
    ASSUME ShownInv, OnLoginResponse \/ CloseDialog
    PROVE  WindowInv'
<1>1. TypeOK /\ WindowInv /\ DialogInv /\ Plain(dialog)
  BY DEF ShownInv, RegisteredInv
<1>2. socket' = socket
  BY DEF OnLoginResponse, CloseDialog
<1>3. CASE UNCHANGED <<windowVars, serviceVars>>
  BY <1>1, <1>2, <1>3 DEF WindowInv, windowVars, serviceVars, Connected
<1>4. CASE OnLoginResponse /\ ReadsOk(Head(buffer))
  <2>1. Head(buffer) \in Answer
    BY <1>1, <1>4 DEF OnLoginResponse, TypeOK
  <2>2. /\ UpdateAdminState(Head(buffer).user = "admin") /\ Accept(Head(buffer))
        /\ label' = IF Head(buffer).user = "admin" THEN "admin" ELSE "user"
    BY <1>4 DEF OnLoginResponse
  <2> QED
    BY <1>1, <1>2, <2>1, <2>2, TakenOver
<1>5. CASE CloseDialog /\ ReadsOk(Head(dialog))
  <2>1. /\ UpdateAdminState(FALSE) /\ Accept(Head(dialog)) /\ label' = "user"
        /\ dialog # << >> /\ Head(dialog).ok
    BY <1>5 DEF CloseDialog, ReadsOk
  <2>2. dialog \in Seq(Answer) /\ dialog = <<dialog[1]>> /\ dialog[1].type = "REGISTER_RESP"
    BY <1>1, <2>1 DEF TypeOK, DialogInv
  <2>3. Head(dialog) \in Answer /\ Head(dialog) = dialog[1] /\ 1 \in DOMAIN dialog
    BY <2>1, <2>2
  <2>4. Head(dialog).user # "admin"
    BY <1>1, <2>1, <2>2, <2>3 DEF Plain
  <2> QED
    BY <1>1, <1>2, <2>1, <2>3, <2>4, TakenOver
<1> QED
  BY <1>3, <1>4, <1>5 DEF OnLoginResponse, CloseDialog

LEMMA WindowStep ==
    ASSUME ShownInv, [Next]_vars
    PROVE  WindowInv'
<1>1. TypeOK /\ WindowInv
  BY DEF ShownInv
<1>2. CASE UNCHANGED <<socket, windowVars, serviceVars>>
  BY <1>1, <1>2 DEF WindowInv, windowVars, serviceVars, Connected
<1>3. CASE OnLoginResponse \/ CloseDialog
  BY <1>3, AnswerTaken
<1>4. CASE Connect
  <2>1. /\ ~Connected /\ ~answered /\ socket' = "connected" /\ (tab' <=> tab)
        /\ UNCHANGED <<label, orphan, role, user, worker, answered>>
    BY <1>1, <1>4 DEF Connect, UpdateConnectionState, WindowInv, serviceVars, TypeOK
  <2> QED
    BY <1>1, <2>1 DEF WindowInv
<1>5. CASE OnDisconnectClicked \/ OnLogoutClicked
  <2>1. /\ label' = "none" /\ role' = FALSE /\ tab' = FALSE /\ answered' = answered
        /\ Connected /\ Connected'
        /\ socket' = "connected" => socket = "connected" /\ worker' = worker
    BY <1>5 DEF OnDisconnectClicked, OnLogoutClicked, UpdateAdminState, Connected
  <2> QED
    BY <1>1, <2>1 DEF WindowInv
<1>6. CASE OnDisconnected
  <2>1. /\ ~tab' /\ answered' = FALSE
        /\ UNCHANGED <<label, role, user>>
    BY <1>6 DEF OnDisconnected, UpdateConnectionState
  <2> QED
    BY <1>1, <2>1 DEF WindowInv
<1>7. CASE Restart
  BY <1>7 DEF Restart, WindowInv
<1> QED
  BY <1>2, <1>3, <1>4, <1>5, <1>6, <1>7
  DEF Next, vars, windowVars, serviceVars, HandleLogin, HandleRegister, HandleAdmin,
      OtherRegisters, OnReadyRead, GarbleOther, OnRegisterResponse, SendCredentials,
      SendAdminRequest

\* How a step changes what is read but not handled.
LEMMA DialogStep ==
    ASSUME TypeOK, DialogInv, [Next]_vars
    PROVE  DialogInv'
<1>1. CASE dialog' \in {dialog, << >>}
  BY <1>1 DEF DialogInv
<1>2. CASE OnRegisterResponse
  <2>1. /\ buffer # << >> /\ Head(buffer).type = "REGISTER_RESP" /\ dialog' = <<Head(buffer)>>
    BY <1>2 DEF OnRegisterResponse
  <2> QED
    BY <2>1 DEF DialogInv
<1> QED
  BY <1>1, <1>2
  DEF Next, vars, readerVars, HandleLogin, HandleRegister, HandleAdmin, OtherRegisters,
      OnReadyRead, GarbleOther, OnLoginResponse, CloseDialog, Connect, OnDisconnectClicked,
      SendCredentials, SendAdminRequest, OnLogoutClicked, OnDisconnected, Restart

\* The ways a step moves answers.
Reads(n, p) ==
    /\ n \in 1 .. Len(responses)
    /\ responses' = SubSeq(responses, n + 1, Len(responses)) /\ buffer' = p
    /\ Idle /\ dialog' = dialog

LEMMA OneGarbled ==
    ASSUME TypeOK, OnReadyRead \/ GarbleOther
    PROVE  \E g \in Answer : /\ ~g.ok
                             /\ \/ \E n \in 1 .. Len(responses) :
                                      \/ ~fragment /\ Reads(n, SubSeq(responses, 1, n))
                                      \/ fragment /\ Reads(n, <<g>> \o SubSeq(responses, 2, n))
                                \/ fragment /\ Idle /\ buffer' = <<g>>
                                     /\ UNCHANGED <<responses, dialog>>
<1>1. CASE OnReadyRead
  <2>1. PICK n \in 1 .. Len(responses) :
            /\ responses' = SubSeq(responses, n + 1, Len(responses))
            /\ IF fragment
               THEN \E line \in Garbled(Head(responses)) :
                        buffer' = <<line>> \o SubSeq(responses, 2, n)
               ELSE buffer' = SubSeq(responses, 1, n)
    BY <1>1 DEF OnReadyRead
  <2>2. Idle /\ dialog' = dialog
    BY <1>1 DEF OnReadyRead
  <2>3. responses \in Seq(Answer) /\ responses # << >>
    BY <2>1 DEF TypeOK
  <2>4. Head(responses) \in Answer
    BY <2>3
  <2>5. Head(responses).user \in Names
    BY <2>4 DEF Answer
  <2>6. CASE ~fragment
    <3> DEFINE g == [type |-> "LOGIN_RESP", ok |-> FALSE, user |-> Head(responses).user]
    <3>1. g \in Answer /\ ~g.ok
      BY <2>5 DEF Answer
    <3> HIDE DEF g
    <3> QED
      BY <2>1, <2>2, <2>6, <3>1 DEF Reads
  <2>7. CASE fragment
    <3>1. PICK g \in Garbled(Head(responses)) : buffer' = <<g>> \o SubSeq(responses, 2, n)
      BY <2>1, <2>7
    <3>2. g \in Answer /\ ~g.ok
      BY <2>5, <3>1, GarbledIsAnswer
    <3> QED
      BY <2>1, <2>2, <2>7, <3>1, <3>2 DEF Reads
  <2> QED
    BY <2>6, <2>7
<1>2. CASE GarbleOther
  <2>1. PICK g \in Garbled([user |-> "admin"]) : buffer' = <<g>>
    BY <1>2 DEF GarbleOther
  <2>2. g \in Answer /\ ~g.ok
    BY NamesAssumption, GarbledIsAnswer
  <2>3. fragment /\ Idle /\ UNCHANGED <<responses, dialog>>
    BY <1>2 DEF GarbleOther
  <2> QED
    BY <2>1, <2>2, <2>3
<1> QED
  BY <1>1, <1>2

LEMMA RegisteredStep ==
    ASSUME TypeOK, RegisteredInv, [Next]_vars
    PROVE  RegisteredInv'
<1>1. /\ responses \in Seq(Answer) /\ buffer \in Seq(Answer) /\ dialog \in Seq(Answer)
      /\ Plain(responses) /\ Plain(buffer) /\ Plain(dialog) /\ Plain(<< >>)
  BY NoAnswers DEF TypeOK, RegisteredInv
<1>2. CASE responses' \in {responses, << >>} /\ buffer' \in {buffer, << >>}
           /\ dialog' \in {dialog, << >>}
  BY <1>1, <1>2 DEF RegisteredInv
<1>3. CASE HandleLogin \/ HandleRegister
  <2>1. PICK a \in Answer :
              /\ responses' = Append(responses, a)
              /\ a.type = "REGISTER_RESP" /\ a.ok => a.user \notin accounts
    BY <1>3, AnswersAreAnswers
  <2>2. Plain(responses')
    BY <1>1, <2>1, AnswerSent DEF TypeOK
  <2>3. buffer' = buffer /\ dialog' = dialog
    BY <1>3 DEF HandleLogin, HandleRegister
  <2> QED
    BY <1>1, <2>2, <2>3 DEF RegisteredInv
<1>4. CASE OnReadyRead \/ GarbleOther
  <2>1. PICK g \in Answer :
              /\ ~g.ok
              /\ \/ \E n \in 1 .. Len(responses) :
                       \/ Reads(n, SubSeq(responses, 1, n))
                       \/ Reads(n, <<g>> \o SubSeq(responses, 2, n))
                 \/ buffer' = <<g>> /\ UNCHANGED <<responses, dialog>>
    BY <1>4, OneGarbled
  <2>2. ASSUME NEW n \in 1 .. Len(responses),
               NEW p \in {SubSeq(responses, 1, n), <<g>> \o SubSeq(responses, 2, n)}, Reads(n, p)
        PROVE  RegisteredInv'
    <3>1. Plain(SubSeq(responses, n + 1, Len(responses))) /\ Plain(p)
      BY <1>1, <2>1, <2>2, AnswersRead
    <3> QED
      BY <1>1, <2>2, <3>1 DEF RegisteredInv, Reads
  <2>3. CASE buffer' = <<g>> /\ UNCHANGED <<responses, dialog>>
    <3>1. Plain(<<g>>)
      BY <2>1 DEF Plain
    <3> QED
      BY <1>1, <2>3, <3>1 DEF RegisteredInv
  <2> QED
    BY <2>1, <2>2, <2>3
<1>5. CASE OnLoginResponse \/ OnRegisterResponse
  <2>1. /\ buffer # << >> /\ buffer' = Tail(buffer) /\ responses' = responses
        /\ dialog' \in {dialog, <<Head(buffer)>>}
    BY <1>5 DEF OnLoginResponse, OnRegisterResponse
  <2>2. Plain(Tail(buffer)) /\ Plain(<<Head(buffer)>>)
    BY <1>1, <2>1, AnswerHandled
  <2> QED
    BY <1>1, <2>1, <2>2 DEF RegisteredInv
<1> QED
  BY <1>2, <1>3, <1>4, <1>5
  DEF Next, vars, readerVars, HandleAdmin, OtherRegisters, CloseDialog, Connect,
      OnDisconnectClicked, SendCredentials, SendAdminRequest, OnLogoutClicked, OnDisconnected,
      Restart

-----------------------------------------------------------------------------
(* The account, which the client misses only when it cannot read the name. *)

LEMMA FragmentStep ==
    ASSUME TypeOK, WindowInv, FragmentInv, [Next]_vars
    PROVE  FragmentInv'
<1>1. CASE UNCHANGED <<socket, fragment, buffer, dialog, answered>>
  BY <1>1 DEF FragmentInv, Connected, Idle
<1>2. CASE fragment' = FALSE \/ socket' = "unconnected"
  BY <1>2 DEF FragmentInv, Connected
<1>3. CASE OnLoginResponse \/ OnRegisterResponse \/ CloseDialog
  <2>1. fragment' = fragment /\ socket' = socket /\ ~Idle
    BY <1>3 DEF OnLoginResponse, OnRegisterResponse, CloseDialog, Idle
  <2> QED
    BY <2>1 DEF FragmentInv, Connected
<1>4. CASE Connect \/ OnDisconnectClicked \/ OnLogoutClicked
  <2>1. /\ Idle /\ UNCHANGED <<fragment, buffer, dialog, answered>>
        /\ Connected \/ ~answered
    BY <1>4 DEF Connect, OnDisconnectClicked, OnLogoutClicked, readerVars, serviceVars, WindowInv
  <2> QED
    BY <2>1 DEF FragmentInv, Idle, WindowInv
<1> QED
  BY <1>1, <1>2, <1>3, <1>4
  DEF Next, vars, readerVars, serviceVars, HandleLogin, HandleRegister, HandleAdmin,
      OtherRegisters, OnReadyRead, GarbleOther, SendCredentials, SendAdminRequest,
      OnDisconnected, Restart

\* A step that leaves alone what AccountInv speaks of.
LEMMA AccountFrame ==
    ASSUME AccountInv, socket' \in {socket, "unconnected"} \/ (Connected /\ Connected'),
           UNCHANGED <<account, responses, buffer, dialog, user, answered>>
    PROVE  AccountInv'
  BY DEF AccountInv, Connected

LEMMA AccountStep ==
    ASSUME IInv, [Next]_vars
    PROVE  AccountInv'
<1> SUFFICES ASSUME Connected' PROVE AccountInv'
  BY DEF AccountInv
<1>1. /\ responses \in Seq(Answer) /\ buffer \in Seq(Answer) /\ dialog \in Seq(Answer)
      /\ AccountInv /\ WindowInv /\ DialogInv /\ FragmentInv
      /\ ~Connected => responses = << >> /\ account = Nobody
      /\ \A line : ReadsOk(line) <=> line.ok /\ line.user \notin Unreadable
  BY DEF IInv, ShownInv, TypeOK, ReadsOk
<1>2. CASE UNCHANGED <<account, responses, buffer, dialog, user, answered>> /\ Connected
  BY <1>1, <1>2, AccountFrame
<1>3. CASE HandleLogin \/ HandleRegister
  <2>1. PICK a \in Answer :
              /\ responses' = Append(responses, a)
              /\ account' = IF a.ok THEN a.user ELSE account
    BY <1>3, AnswersAreAnswers DEF IInv, ShownInv
  <2>2. UNCHANGED <<socket, buffer, dialog, user, answered>>
    BY <1>3 DEF HandleLogin, HandleRegister, serviceVars
  <2>3. Connected
    BY <2>2 DEF Connected
  <2>4. LastIs(responses', account')
    BY <1>1, <2>1, <2>3, AnswerSent DEF AccountInv
  <2>5. Silent(responses') => Silent(responses) /\ account' = account
    BY <1>1, <2>1, AnswerSent
  <2> QED
    BY <1>1, <2>2, <2>3, <2>4, <2>5 DEF AccountInv
<1>4. CASE OnReadyRead \/ GarbleOther
  <2>1. PICK g \in Answer :
              /\ ~g.ok
              /\ \/ \E n \in 1 .. Len(responses) :
                       \/ ~fragment /\ Reads(n, SubSeq(responses, 1, n))
                       \/ fragment /\ Reads(n, <<g>> \o SubSeq(responses, 2, n))
                 \/ fragment /\ Idle /\ buffer' = <<g>> /\ UNCHANGED <<responses, dialog>>
    BY <1>4, OneGarbled DEF IInv, ShownInv
  <2>2. Connected /\ UNCHANGED <<account, user, answered>> /\ Idle /\ dialog' = << >>
    BY <1>4 DEF OnReadyRead, GarbleOther, sessionVars, serviceVars, Idle
  <2>3. LastIs(responses, account) /\ (fragment => ~answered)
    BY <1>1, <2>2 DEF AccountInv, FragmentInv
  <2>4. Silent(responses) /\ answered => account \in {user} \cup Unreadable
    BY <1>1, <2>2, NoAnswers DEF AccountInv, Idle
  <2>5. ASSUME NEW n \in 1 .. Len(responses),
               NEW p \in {SubSeq(responses, 1, n), <<g>> \o SubSeq(responses, 2, n)}, Reads(n, p),
               fragment \/ p = SubSeq(responses, 1, n)
        PROVE  AccountInv'
    <3> DEFINE r == SubSeq(responses, n + 1, Len(responses))
    <3>1. /\ LastIs(r, account) /\ (Silent(r) => LastIs(p, account))
          /\ Silent(r) /\ p = SubSeq(responses, 1, n) /\ Silent(p) => Silent(responses)
      BY <1>1, <2>1, <2>3, AnswersRead
    <3>2. responses' = r /\ buffer' = p
      BY <2>5 DEF Reads
    <3> HIDE DEF r
    <3> QED
      BY <2>2, <2>3, <2>4, <2>5, <3>1, <3>2, NoAnswers DEF AccountInv
  <2>6. CASE fragment /\ buffer' = <<g>> /\ responses' = responses
    <3>1. LastIs(<<g>>, account)
      BY <2>1 DEF LastIs
    <3> QED
      BY <2>2, <2>3, <2>6, <3>1, NoAnswers DEF AccountInv
  <2> QED
    BY <2>1, <2>5, <2>6
<1>5. CASE OnLoginResponse \/ OnRegisterResponse
  <2>1. /\ buffer # << >> /\ buffer' = Tail(buffer) /\ dialog = << >>
        /\ UNCHANGED <<socket, account, responses>>
    BY <1>5 DEF OnLoginResponse, OnRegisterResponse, sessionVars
  <2>2. Connected
    BY <2>1 DEF Connected
  <2>3. Silent(responses) =>
            LastIs(buffer', account) /\ (Silent(buffer') => LastIs(<<Head(buffer)>>, account))
    BY <1>1, <2>1, <2>2, AnswerHandled DEF AccountInv
  <2>4. Silent(buffer') /\ ~Head(buffer).ok => Silent(buffer)
    BY <1>1, <2>1, AnswerHandled
  <2>5. LastIs(responses, account) /\ Silent(dialog)
        /\ (Silent(responses) /\ Silent(buffer) /\ answered
              => account \in {user} \cup Unreadable)
    BY <1>1, <2>1, <2>2, NoAnswers DEF AccountInv
  <2>6. \A a : LastIs(<<a>>, account) /\ a.ok => a.user = account
    BY DEF LastIs
  <2>7. \A a : Silent(<<a>>) => ~a.ok
    BY DEF Silent
  <2>8. CASE OnLoginResponse
    <3>1. dialog' = dialog
      BY <2>8 DEF OnLoginResponse
    <3>2. CASE Head(buffer).ok
      <4>1. Head(buffer).user \in {user'} \cup Unreadable
        BY <1>1, <2>8, <3>2 DEF OnLoginResponse, Accept
      <4> QED
        BY <2>1, <2>3, <2>5, <2>6, <3>1, <3>2, <4>1, NoAnswers DEF AccountInv
    <3>3. CASE ~Head(buffer).ok
      <4>1. user' = user /\ answered' = answered
        BY <1>1, <2>8, <3>3 DEF OnLoginResponse, serviceVars
      <4> QED
        BY <2>1, <2>3, <2>4, <2>5, <3>1, <3>3, <4>1, NoAnswers DEF AccountInv
    <3> QED
      BY <3>2, <3>3
  <2>9. CASE OnRegisterResponse
    <3>1. dialog' = <<Head(buffer)>> /\ user' = user /\ answered' = answered
      BY <2>9 DEF OnRegisterResponse, serviceVars
    <3> QED
      BY <2>1, <2>3, <2>4, <2>5, <2>7, <3>1 DEF AccountInv
  <2> QED
    BY <1>5, <2>8, <2>9
<1>6. CASE CloseDialog
  <2>1. /\ dialog # << >> /\ dialog' = << >>
        /\ UNCHANGED <<socket, account, responses, buffer>>
    BY <1>6 DEF CloseDialog, sessionVars
  <2>2. dialog = <<dialog[1]>> /\ Head(dialog) = dialog[1]
    BY <1>1, <2>1 DEF DialogInv
  <2>3. Connected
    BY <2>1 DEF Connected
  <2>4. dialog[1].ok => ~Silent(dialog) /\ (LastIs(dialog, account) => dialog[1].user = account)
    <3>1. \A a : a.ok /\ LastIs(<<a>>, account) => a.user = account
      BY DEF LastIs
    <3>2. \A a : Silent(<<a>>) => ~a.ok
      BY DEF Silent
    <3> QED
      BY <2>2, <3>1, <3>2
  <2>5. ~dialog[1].ok => Silent(dialog)
    <3>1. \A a : ~a.ok => Silent(<<a>>)
      BY DEF Silent
    <3> QED
      BY <2>2, <3>1
  <2>6. CASE dialog[1].ok
    <3>1. dialog[1].user \in {user'} \cup Unreadable
      BY <1>1, <1>6, <2>2, <2>6 DEF CloseDialog, Accept
    <3> QED
      BY <1>1, <2>1, <2>3, <2>4, <2>6, <3>1, NoAnswers DEF AccountInv
  <2>7. CASE ~dialog[1].ok
    <3>1. user' = user /\ answered' = answered
      BY <1>1, <1>6, <2>2, <2>7 DEF CloseDialog, serviceVars
    <3> QED
      BY <1>1, <2>1, <2>3, <2>5, <2>7, <3>1, NoAnswers DEF AccountInv
  <2> QED
    BY <2>6, <2>7
<1>7. CASE Connect
  <2>1. /\ responses = << >> /\ buffer = << >> /\ dialog = << >> /\ ~answered
        /\ UNCHANGED <<responses, buffer, dialog, answered>>
    BY <1>1, <1>7 DEF Connect, WindowInv, Idle, readerVars, serviceVars
  <2> QED
    BY <2>1, NoAnswers DEF AccountInv
<1> QED
  <2>1. CASE HandleAdmin \/ OtherRegisters \/ UNCHANGED vars
    <3>1. UNCHANGED <<account, responses, buffer, dialog, user, answered, socket>>
      BY <2>1 DEF HandleAdmin, OtherRegisters, vars, readerVars, serviceVars
    <3> QED
      BY <1>2, <3>1 DEF Connected
  <2>2. CASE OnDisconnectClicked \/ SendCredentials \/ SendAdminRequest \/ OnLogoutClicked
    BY <1>2, <2>2 DEF OnDisconnectClicked, SendCredentials, SendAdminRequest, OnLogoutClicked,
       sessionVars, readerVars, serviceVars
  <2>3. CASE OnDisconnected \/ Restart
    BY <2>3 DEF OnDisconnected, Restart, Connected
  <2> QED
    BY <1>3, <1>4, <1>5, <1>6, <1>7, <2>1, <2>2, <2>3 DEF Next

\* The tab is enabled and nothing is on its way: the session is the administrator's,
\* or of a user the client could not read.
LEMMA AdminsTab ==
    ASSUME IInv, tab, ~orphan
    PROVE  Connected /\ (Quiet => account \in {"admin"} \cup Unreadable)
<1>1. answered /\ user = "admin" /\ Connected /\ AccountInv
  BY DEF IInv, ShownInv, WindowInv
<1>2. ASSUME Quiet PROVE account \in {"admin"} \cup Unreadable
  BY <1>1, <1>2, NoAnswers DEF Quiet, Idle, AccountInv
<1> QED
  BY <1>1, <1>2

LEMMA OfferedStep ==
    ASSUME IInv, [Next]_vars
    PROVE  OfferedInv'
<1>1. requests \in Seq(Request) /\ OfferedInv
  BY DEF IInv, ShownInv, TypeOK
<1>2. CASE UNCHANGED <<requests, account>>
  BY <1>1, <1>2 DEF OfferedInv
<1>3. CASE requests' = << >>
  BY <1>3 DEF OfferedInv
<1>4. CASE requests # << >> /\ requests' = Tail(requests)
           /\ (requests[1].type = "ADMIN" => account' = account)
  <2> DEFINE t == Tail(requests)
  <2>1. /\ \A i \in DOMAIN t : /\ i + 1 \in DOMAIN requests /\ t[i] = requests[i + 1]
                               /\ 1 \in 1 .. i + 1
                               /\ \A j \in 1 .. i : j + 1 \in 1 .. i + 1 /\ t[j] = requests[j + 1]
    BY <1>1, <1>4
  <2> HIDE DEF t
  <2> SUFFICES ASSUME NEW i \in DOMAIN t, t[i].type = "ADMIN", t[i].offered
               PROVE  /\ account' \in {"admin"} \cup Unreadable
                      /\ \A j \in 1 .. i : t[j].type = "ADMIN"
    BY <1>4 DEF OfferedInv, t
  <2>2. /\ account \in {"admin"} \cup Unreadable
        /\ \A j \in 1 .. i + 1 : requests[j].type = "ADMIN"
    BY <1>1, <2>1 DEF OfferedInv
  <2> QED
    BY <1>4, <2>1, <2>2
<1>5. CASE SendCredentials \/ SendAdminRequest
  <2>1. PICK line \in Request :
            /\ requests' = Append(requests, line)
            /\ line.type = "ADMIN" /\ line.offered => tab /\ ~orphan /\ Quiet
    <3>1. CASE SendCredentials
      <4>1. PICK line \in [type : {"LOGIN", "REGISTER"}, user : Names] :
                requests' = Append(requests, line)
        BY <3>1 DEF SendCredentials
      <4>2. line \in Request /\ line.type # "ADMIN"
        BY DEF Request
      <4> QED
        BY <4>1, <4>2
    <3>2. CASE SendAdminRequest
      <4> DEFINE offered == Quiet /\ ~orphan
                 line == [type |-> "ADMIN", offered |-> offered]
      <4>1. line \in Request /\ line.offered = offered
        BY DEF Request
      <4>2. requests' = Append(requests, line) /\ tab
        BY <3>2 DEF SendAdminRequest
      <4>3. line.offered => ~orphan /\ Quiet
        BY <4>1
      <4> HIDE DEF line
      <4> QED
        BY <4>1, <4>2, <4>3
    <3> QED
      BY <1>5, <3>1, <3>2
  <2>2. account' = account
    BY <1>5 DEF SendCredentials, SendAdminRequest
  <2>3. line.type = "ADMIN" /\ line.offered =>
            /\ account \in {"admin"} \cup Unreadable
            /\ \A i \in DOMAIN requests : requests[i].type = "ADMIN"
    BY <2>1, AdminsTab DEF Quiet
  <2> DEFINE p == Append(requests, line)
  <2>4. /\ DOMAIN p = DOMAIN requests \cup {Len(requests) + 1} /\ p[Len(requests) + 1] = line
        /\ \A i \in DOMAIN requests : p[i] = requests[i]
        /\ DOMAIN requests = 1 .. Len(requests) /\ Len(requests) \in Nat
    BY <1>1
  <2> HIDE DEF p
  <2> SUFFICES ASSUME NEW i \in DOMAIN p, p[i].type = "ADMIN", p[i].offered
               PROVE  /\ account' \in {"admin"} \cup Unreadable
                      /\ \A j \in 1 .. i : p[j].type = "ADMIN"
    BY <2>1 DEF OfferedInv, p
  <2>5. CASE i \in DOMAIN requests
    <3>1. \A j \in 1 .. i : j \in DOMAIN requests
      BY <2>4, <2>5
    <3> QED
      BY <1>1, <2>2, <2>4, <2>5, <3>1 DEF OfferedInv
  <2>6. CASE i = Len(requests) + 1
    <3>1. \A j \in 1 .. i : j \in DOMAIN requests \/ j = Len(requests) + 1
      BY <2>4, <2>6
    <3> QED
      BY <2>2, <2>3, <2>4, <2>6, <3>1
  <2> QED
    BY <2>4, <2>5, <2>6
<1>6. CASE HandleLogin \/ HandleRegister \/ HandleAdmin
  <2>1. /\ requests # << >> /\ requests' = Tail(requests)
        /\ Head(requests).type = "ADMIN" => account' = account
    BY <1>6 DEF HandleLogin, HandleRegister, HandleAdmin
  <2> QED
    BY <1>1, <1>4, <2>1
<1>7. CASE OnDisconnected \/ Restart
  BY <1>3, <1>7 DEF OnDisconnected, Restart
<1> QED
  BY <1>2, <1>5, <1>6, <1>7
  DEF Next, vars, sessionVars, readerVars, OtherRegisters, OnReadyRead, GarbleOther,
      OnLoginResponse, OnRegisterResponse, CloseDialog, Connect, OnDisconnectClicked,
      OnLogoutClicked

-----------------------------------------------------------------------------
(* What follows.                                                           *)

\* Whatever names the client misreads: label, role and user change together,
\* the tab is never enabled without them, and nobody registers as the
\* administrator.
THEOREM ShownInvariance == Spec => []ShownInv
<1>1. Init => ShownInv
  BY InitType, InitShown DEF ShownInv
<1>2. ShownInv /\ [Next]_vars => ShownInv'
  BY TypeStep, WindowStep, DialogStep, RegisteredStep DEF ShownInv
<1> QED
  BY <1>1, <1>2, PTL DEF Spec

\* Whatever names there are, the session's account is that of the last success on
\* its way to the client, and what the client took over is that account unless its
\* name could not be read.
THEOREM Invariance == Spec => []IInv
<1>1. Init => IInv
  <2> SUFFICES ASSUME Init PROVE IInv
    OBVIOUS
  <2>1. AccountInv /\ OfferedInv /\ FragmentInv
    BY DEF Init, AccountInv, OfferedInv, FragmentInv, Connected
  <2> QED
    BY <2>1, InitType, InitShown DEF IInv, ShownInv
<1>2. IInv /\ [Next]_vars => IInv'
  <2> SUFFICES ASSUME IInv, [Next]_vars PROVE IInv'
    OBVIOUS
  <2>1. ShownInv'
    BY TypeStep, WindowStep, DialogStep, RegisteredStep DEF IInv, ShownInv
  <2>2. FragmentInv' /\ AccountInv' /\ OfferedInv'
    BY FragmentStep, AccountStep, OfferedStep DEF IInv, ShownInv
  <2> QED
    BY <2>1, <2>2 DEF IInv
<1> QED
  BY <1>1, <1>2, PTL DEF Spec

\* The tab is enabled for the administrator only, and what it offers is handled
\* with the administrator's rights, however many requests and answers are on
\* their way; but for an answer that outlived its connection, and for a session
\* that logged in a user whose name the client could not read.
THEOREM AdminsTabBacked == Spec => []TabBacked
<1>1. IInv => TabBacked
  <2> SUFFICES ASSUME IInv PROVE TabBacked
    OBVIOUS
  <2>1. tab => role
    BY DEF IInv, ShownInv, WindowInv
  <2>2. tab /\ ~orphan => Connected /\ (Quiet => account \in {"admin"} \cup Unreadable)
    BY AdminsTab
  <2>3. requests # << >> /\ Head(requests).type = "ADMIN" /\ Head(requests).offered
          => account \in {"admin"} \cup Unreadable
    BY DEF IInv, ShownInv, TypeOK, OfferedInv
  <2> QED
    BY <2>1, <2>2, <2>3 DEF TabBacked
<1> QED
  BY <1>1, Invariance, PTL

\* Once an answer came and none is on its way, session, service and window
\* agree on who is logged in, and the worker collects for that user; only a
\* session whose user has a name the client cannot read is on its own.
THEOREM PartiesAgree == Spec => []Agreement
<1>1. IInv => Agreement
  <2> SUFFICES ASSUME IInv, answered, Quiet
               PROVE  /\ account \in {user} \cup Unreadable
                      /\ label = "none" => ~tab /\ ~role
                      /\ label # "none" => /\ label = IF user = "admin" THEN "admin" ELSE "user"
                                           /\ tab = (user = "admin")
                                           /\ role = tab
                      /\ socket = "connected" => worker
    BY DEF Agreement
  <2>1. TypeOK /\ WindowInv /\ AccountInv
    BY DEF IInv, ShownInv
  <2>2. account \in {user} \cup Unreadable
    BY <2>1, NoAnswers DEF WindowInv, AccountInv, Quiet, Idle
  <2>3. tab \in BOOLEAN /\ role \in BOOLEAN /\ label \in {"none", "user", "admin"}
    BY <2>1 DEF TypeOK
  <2>4. label = "none" => ~tab /\ ~role
    BY <2>1 DEF WindowInv
  <2>5. label = "user" => user # "admin" /\ ~tab /\ ~role
    BY <2>1 DEF WindowInv
  <2>6. label = "admin" => user = "admin" /\ tab /\ role
    BY <2>1 DEF WindowInv
  <2>7. socket = "connected" => worker
    BY <2>1 DEF WindowInv
  <2> QED
    BY <2>2, <2>3, <2>4, <2>5, <2>6, <2>7
<1> QED
  BY <1>1, Invariance, PTL
=============================================================================
