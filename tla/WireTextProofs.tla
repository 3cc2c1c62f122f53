--------------------------- MODULE WireTextProofs ---------------------------
(***************************************************************************)
(* Proof that the lines of WireText arrive as they were sent, for any      *)
(* lists of processes, messages, chunks and connections.                   *)
(***************************************************************************)
EXTENDS WireText, FiniteSetTheorems, WellFoundedInduction, TLAPS

-----------------------------------------------------------------------------
(* Sequences and positions.                                                *)

LEMMA SeqEqual ==
    ASSUME NEW S, NEW q \in Seq(S), NEW t, NEW r \in Seq(t), Len(q) = Len(r),
           \A i \in 1 .. Len(q) : q[i] = r[i]
    PROVE  q = r
  OBVIOUS

LEMMA OneSymbol ==
    ASSUME NEW S, NEW q \in Seq(S), NEW i \in 1 .. Len(q)
    PROVE  SubSeq(q, i, i) = <<q[i]>>
<1>1. SubSeq(q, i, i) \in Seq(S) /\ Len(SubSeq(q, i, i)) = 1 /\ SubSeq(q, i, i)[1] = q[i]
  OBVIOUS
<1>2. <<q[i]>> \in Seq(S) /\ Len(<<q[i]>>) = 1 /\ <<q[i]>>[1] = q[i]
  OBVIOUS
<1>3. \A k \in 1 .. 1 : SubSeq(q, i, i)[k] = <<q[i]>>[k]
  BY <1>1, <1>2
<1> QED
  BY <1>1, <1>2, <1>3, SeqEqual

LEMMA FrontOf ==
    ASSUME NEW S, NEW q \in Seq(S), NEW n \in 0 .. Len(q)
    PROVE  /\ SubSeq(q, 1, n) \in Seq(S) /\ Len(SubSeq(q, 1, n)) = n
           /\ \A i \in 1 .. n : SubSeq(q, 1, n)[i] = q[i]
  OBVIOUS

LEMMA BackOf ==
    ASSUME NEW S, NEW q \in Seq(S), NEW n \in 0 .. Len(q)
    PROVE  LET b == SubSeq(q, n + 1, Len(q))
           IN  /\ b \in Seq(S) /\ Len(b) = Len(q) - n
               /\ \A i \in 1 .. Len(q) - n : b[i] = q[n + i]
  OBVIOUS

LEMMA MiddleOf ==
    ASSUME NEW S, NEW q \in Seq(S), NEW a \in Nat, NEW b \in Nat, a < b, b <= Len(q) + 1
    PROVE  LET c == SubSeq(q, a + 1, b - 1)
           IN  /\ c \in Seq(S) /\ Len(c) = b - 1 - a
               /\ \A i \in 1 .. b - 1 - a : c[i] = q[a + i]
<1> DEFINE c == SubSeq(q, a + 1, b - 1)
<1>1. c \in Seq(S)
  OBVIOUS
<1>2. Len(c) = b - 1 - a
  OBVIOUS
<1>3. \A i \in 1 .. b - 1 - a : c[i] = q[a + i]
  OBVIOUS
<1> QED
  BY <1>1, <1>2, <1>3

LEMMA ConcatOf ==
    ASSUME NEW S, NEW a \in Seq(S), NEW b \in Seq(S)
    PROVE  /\ a \o b \in Seq(S) /\ Len(a \o b) = Len(a) + Len(b)
           /\ \A i \in 1 .. Len(a) : (a \o b)[i] = a[i]
           /\ \A i \in 1 .. Len(b) : (a \o b)[Len(a) + i] = b[i]
  OBVIOUS

LEMMA ConcatThree ==
    ASSUME NEW S, NEW a \in Seq(S), NEW b \in Seq(S), NEW c \in Seq(S)
    PROVE  (a \o b) \o c = a \o (b \o c)
  OBVIOUS

LEMMA Minimum ==
    ASSUME NEW S \in SUBSET Nat, NEW x \in S
    PROVE  \E m \in S : \A i \in S : m <= i
<1>1. PICK m \in S : \A i \in S : <<i, m>> \notin OpToRel(<, Nat)
  BY NatLessThanWellFounded, WFMin
<1>2. \A i \in S : ~(i < m)
  BY <1>1 DEF OpToRel
<1> QED
  BY <1>2

-----------------------------------------------------------------------------
(* Messages and their text.                                                *)

Messages == {Ack} \cup {MetricsResp(collected) : collected \in Collected}

\* What texts are made of.
Symbols ==
    {"ACK", "GET_METRICS", "_RESP", "{", "}", ":", "1", "localId", Quote, Space, Newline}
    \cup UNION {Range(Answer[collected]) : collected \in Collected}

\* What ends neither a type nor a line.
Plain == Symbols \ {Space, Newline}

LEMMA PlainText ==
    ASSUME NEW q \in Seq(Plain)
    PROVE  q \in Seq(Symbols) /\ \A i \in 1 .. Len(q) : q[i] \notin {Space, Newline}
<1>1. \A i \in 1 .. Len(q) : q[i] \in Plain
  OBVIOUS
<1>2. Plain \subseteq Symbols
  BY DEF Plain
<1> QED
  BY <1>1, <1>2 DEF Plain

LEMMA SevenSymbols ==
    ASSUME NEW S, NEW a \in S, NEW b \in S, NEW c \in S, NEW d \in S, NEW e \in S, NEW f \in S
    PROVE  <<a>> \o <<b, c, b, d>> \o <<e, f>> \in Seq(S)
<1>1. <<a>> \in Seq(S)
  OBVIOUS
<1>2. <<b, c, b, d>> \in Seq(S)
  OBVIOUS
<1>3. <<e, f>> \in Seq(S)
  OBVIOUS
<1> QED
  BY <1>1, <1>2, <1>3

LEMMA AckText == Ack.type = <<"ACK">> /\ Ack.payload \in Seq(Plain)
<1>1. /\ Ack.type = <<"ACK">>
      /\ Ack.payload = <<"{">> \o <<Quote, "localId", Quote, ":">> \o <<"1", "}">>
  BY DEF Ack, Key
<1>2. /\ "{" \in Plain /\ Quote \in Plain /\ "localId" \in Plain
      /\ ":" \in Plain /\ "1" \in Plain /\ "}" \in Plain
  BY DEF Plain, Symbols, Quote, Space, Newline
<1>3. <<"{">> \o <<Quote, "localId", Quote, ":">> \o <<"1", "}">> \in Seq(Plain)
  BY <1>2, SevenSymbols, Zenon
<1> QED
  BY <1>1, <1>3, Zenon

\* A type is one symbol or two, and neither it nor a payload has what ends it.
LEMMA MessageText ==
    ASSUME NEW m \in Messages
    PROVE  /\ m = [type |-> m.type, payload |-> m.payload]
           /\ m.type \in Seq(Symbols) /\ Len(m.type) >= 1
           /\ \A i \in 1 .. Len(m.type) : m.type[i] \notin {Space, Newline}
           /\ m.payload \in Seq(Symbols)
           /\ \A i \in 1 .. Len(m.payload) : m.payload[i] # Newline
<1>1. CASE m = Ack
  <2>1. m = [type |-> m.type, payload |-> m.payload]
    BY <1>1 DEF Ack
  <2>2. m.type = <<"ACK">>
    BY <1>1, AckText
  <2>3. m.type \in Seq(Symbols) /\ Len(m.type) = 1 /\ m.type[1] = "ACK"
    BY <2>2 DEF Symbols
  <2>4. \A i \in 1 .. Len(m.type) : m.type[i] \notin {Space, Newline}
    BY <2>3 DEF Space, Newline
  <2> QED
    BY <1>1, <2>1, <2>3, <2>4, AckText, PlainText
<1>2. CASE m # Ack
  <2>1. PICK collected \in Collected : m = MetricsResp(collected)
    BY <1>2 DEF Messages
  <2>2. m = [type |-> m.type, payload |-> m.payload]
    BY <2>1 DEF MetricsResp
  <2>3. m.type = <<"GET_METRICS", "_RESP">> /\ m.payload = Answer[collected]
    BY <2>1 DEF MetricsResp, MetricsRespType
  <2>4. /\ m.type \in Seq(Symbols) /\ Len(m.type) = 2
        /\ m.type[1] = "GET_METRICS" /\ m.type[2] = "_RESP"
    BY <2>3 DEF Symbols
  <2>5. \A i \in 1 .. Len(m.type) : m.type[i] \notin {Space, Newline}
    BY <2>4 DEF Space, Newline
  <2>6. /\ m.payload \in Seq(Range(Answer[collected]) \ {Newline})
        /\ Range(Answer[collected]) \subseteq Symbols
    BY <2>3, AnswersAreLines DEF Symbols
  <2>7. /\ m.payload \in Seq(Symbols)
        /\ \A i \in 1 .. Len(m.payload) : m.payload[i] # Newline
    BY <2>6
  <2> QED
    BY <2>2, <2>4, <2>5, <2>7
<1> QED
  BY <1>1, <1>2

\* The text of a message, symbol by symbol.
LEMMA EncodedText ==
    ASSUME NEW m \in Messages
    PROVE  LET e == EncodeWireMessage(m)
               n == Len(m.type)
           IN  /\ e \in Seq(Symbols) /\ Len(e) = n + Len(m.payload) + 2
               /\ \A i \in 1 .. n : e[i] = m.type[i]
               /\ e[n + 1] = Space
               /\ \A i \in 1 .. Len(m.payload) : e[n + 1 + i] = m.payload[i]
               /\ e[Len(e)] = Newline
               /\ \A i \in 1 .. Len(e) - 1 : e[i] # Newline
<1> DEFINE t == m.type
           p == m.payload
           e == EncodeWireMessage(m)
           n == Len(t)
<1>1. t \in Seq(Symbols) /\ p \in Seq(Symbols) /\ Space \in Symbols /\ Newline \in Symbols
  BY MessageText DEF Symbols
<1>2. e = t \o <<Space>> \o p \o <<Newline>>
  BY DEF EncodeWireMessage
<1>3. \A i \in 1 .. n : t[i] # Newline
  BY MessageText
<1>4. \A i \in 1 .. Len(p) : p[i] # Newline
  BY MessageText
<1>5. Space # Newline
  BY DEF Space, Newline
<1> HIDE DEF t, p, e
<1>6. e \in Seq(Symbols) /\ Len(e) = n + Len(p) + 2
  BY <1>1, <1>2
<1>7. \A i \in 1 .. n : e[i] = t[i]
  BY <1>1, <1>2
<1>8. e[n + 1] = Space
  BY <1>1, <1>2
<1>9. \A i \in 1 .. Len(p) : e[n + 1 + i] = p[i]
  BY <1>1, <1>2
<1>10. e[Len(e)] = Newline
  BY <1>1, <1>2
<1>11. ASSUME NEW i \in 1 .. Len(e) - 1
       PROVE  e[i] # Newline
  <2>1. CASE i \in 1 .. n
    BY <2>1, <1>3, <1>7
  <2>2. CASE i = n + 1
    BY <2>2, <1>5, <1>8
  <2>3. CASE i > n + 1
    <3>1. i - n - 1 \in 1 .. Len(p) /\ i = n + 1 + (i - n - 1)
      BY <2>3, <1>1, <1>6
    <3> QED
      BY <3>1, <1>4, <1>9
  <2> QED
    BY <2>1, <2>2, <2>3, <1>1
<1> QED
  BY <1>6, <1>7, <1>8, <1>9, <1>10, <1>11 DEF e, t, p

-----------------------------------------------------------------------------
(* decodeWireMessage undoes encodeWireMessage.                             *)

Spaces(line) == {i \in 1 .. Len(line) : line[i] = Space}

LEMMA FindSpace ==
    ASSUME NEW line \in Seq(Symbols), Spaces(line) # {}
    PROVE  /\ Find(line, <<Space>>, 1) \in Spaces(line)
           /\ \A i \in Spaces(line) : Find(line, <<Space>>, 1) <= i
<1> DEFINE here == {i \in 1 .. Len(line) + 1 - Len(<<Space>>) :
                        SubSeq(line, i, i + Len(<<Space>>) - 1) = <<Space>>}
           first == CHOOSE i \in here : \A j \in here : i <= j
<1>1. Len(<<Space>>) = 1
  OBVIOUS
<1>2. \A i \in 1 .. Len(line) : SubSeq(line, i, i) = <<Space>> <=> line[i] = Space
  <2>1. \A i \in 1 .. Len(line) : SubSeq(line, i, i) = <<line[i]>>
    BY OneSymbol
  <2> QED
    BY <2>1
<1>3. here = Spaces(line)
  BY <1>1, <1>2 DEF Spaces
<1>4. Find(line, <<Space>>, 1) = IF here = {} THEN Len(line) + 1 ELSE first
  BY DEF Find
<1> HIDE DEF here
<1>5. \E i \in here : \A j \in here : i <= j
  <2>1. here \in SUBSET Nat /\ here # {}
    BY <1>3 DEF Spaces
  <2> QED
    BY <2>1, Minimum
<1>6. first \in here /\ \A j \in here : first <= j
  BY <1>5
<1> HIDE DEF first
<1> QED
  BY <1>3, <1>4, <1>6

\* The first space parts type and payload.
LEMMA DecodeParts ==
    ASSUME NEW t \in Seq(Symbols), NEW p \in Seq(Symbols), NEW line \in Seq(Symbols),
           Len(t) >= 1, \A i \in 1 .. Len(t) : t[i] # Space,
           Len(line) = Len(t) + 1 + Len(p),
           \A i \in 1 .. Len(t) : line[i] = t[i],
           line[Len(t) + 1] = Space,
           \A i \in 1 .. Len(p) : line[Len(t) + 1 + i] = p[i]
    PROVE  DecodeWireMessage(line) = [type |-> t, payload |-> p]
<1> DEFINE n == Len(t)
           at == Find(line, <<Space>>, 1)
           back == SubSeq(line, n + 1 + 1, Len(line))
<1>1. n \in Nat /\ Len(p) \in Nat
  OBVIOUS
<1>2. n + 1 \in Spaces(line)
  <2>1. n + 1 \in 1 .. Len(line)
    BY <1>1
  <2> QED
    BY <2>1 DEF Spaces
<1>3. ASSUME NEW i \in Spaces(line)
      PROVE  n + 1 <= i
  <2>1. i \in Nat /\ i >= 1 /\ line[i] = Space
    BY DEF Spaces
  <2>2. i \notin 1 .. n
    BY <2>1
  <2> QED
    BY <1>1, <2>1, <2>2
<1>4. at \in Spaces(line) /\ \A i \in Spaces(line) : at <= i
  BY <1>2, FindSpace
<1>5. at \in Nat
  BY <1>4 DEF Spaces
<1> HIDE DEF at
<1>6. at = n + 1
  BY <1>1, <1>2, <1>3, <1>4, <1>5
<1>7. DecodeWireMessage(line) = [type |-> SubSeq(line, 1, n), payload |-> back]
  <2>1. at # 1 /\ at # Len(line) + 1 /\ at - 1 = n
    BY <1>1, <1>6
  <2> QED
    BY <1>6, <2>1 DEF DecodeWireMessage, at
<1>8. SubSeq(line, 1, n) = t
  BY FrontOf, SeqEqual
<1>9. back = p
  <2>1. n + 1 \in 0 .. Len(line) /\ Len(line) - (n + 1) = Len(p)
    BY <1>1
  <2>2. back \in Seq(Symbols) /\ Len(back) = Len(p)
    BY <2>1, BackOf
  <2>3. \A i \in 1 .. Len(p) : back[i] = line[n + 1 + i]
    BY <2>1, BackOf
  <2> QED
    BY <2>2, <2>3, SeqEqual
<1> QED
  BY <1>7, <1>8, <1>9

\* A line is decoded as the message it was made of.
LEMMA DecodeLine ==
    ASSUME NEW m \in Messages, NEW line \in Seq(Symbols),
           Len(line) = Len(EncodeWireMessage(m)) - 1,
           \A i \in 1 .. Len(line) : line[i] = EncodeWireMessage(m)[i]
    PROVE  DecodeWireMessage(line) = m
<1> DEFINE t == m.type
           p == m.payload
           e == EncodeWireMessage(m)
<1>1. /\ m = [type |-> t, payload |-> p]
      /\ t \in Seq(Symbols) /\ Len(t) >= 1
      /\ \A i \in 1 .. Len(t) : t[i] # Space
      /\ p \in Seq(Symbols)
  BY MessageText
<1>2. /\ Len(e) = Len(t) + Len(p) + 2
      /\ \A i \in 1 .. Len(t) : e[i] = t[i]
      /\ e[Len(t) + 1] = Space
      /\ \A i \in 1 .. Len(p) : e[Len(t) + 1 + i] = p[i]
  BY EncodedText
<1> HIDE DEF t, p, e
<1>3. Len(t) \in Nat /\ Len(p) \in Nat
  BY <1>1
<1>4. Len(line) = Len(t) + 1 + Len(p) /\ \A i \in 1 .. Len(line) : line[i] = e[i]
  BY <1>2, <1>3 DEF e
<1>5. /\ \A i \in 1 .. Len(t) : i \in 1 .. Len(line)
      /\ Len(t) + 1 \in 1 .. Len(line)
      /\ \A i \in 1 .. Len(p) : Len(t) + 1 + i \in 1 .. Len(line)
  BY <1>3, <1>4
<1>6. /\ \A i \in 1 .. Len(t) : line[i] = t[i]
      /\ line[Len(t) + 1] = Space
      /\ \A i \in 1 .. Len(p) : line[Len(t) + 1 + i] = p[i]
  BY <1>2, <1>4, <1>5
<1>7. DecodeWireMessage(line) = [type |-> t, payload |-> p]
  BY <1>1, <1>4, <1>6, DecodeParts
<1> QED
  BY <1>1, <1>7

LEMMA NoAck == /\ Ack = [type |-> Ack.type, payload |-> Ack.payload]
                /\ Len(Ack.type) = 1
                /\ Ack # NoMessage
<1>1. Ack = [type |-> Ack.type, payload |-> Ack.payload]
  BY DEF Ack
<1>2. Ack.type = <<"ACK">>
  BY AckText
<1>3. Len(Ack.type) = 1
  BY <1>2
<1>4. NoMessage.type = << >>
  BY DEF NoMessage
<1>5. Len(NoMessage.type) = 0
  BY <1>4
<1>6. Len(Ack.type) # Len(NoMessage.type)
  BY <1>3, <1>5
<1> QED
  BY <1>1, <1>3, <1>6, Zenon

\* A space behind the first two symbols is in the payload, or the type is longer
\* than that of an ACK, whose payload has no space.
LEMMA LateSpace ==
    ASSUME NEW line \in Seq(Symbols), NEW k \in 3 .. Len(line), line[k] = Space
    PROVE  DecodeWireMessage(line) # Ack
<1> DEFINE at == Find(line, <<Space>>, 1)
           front(n) == SubSeq(line, 1, n - 1)
           back(n) == SubSeq(line, n + 1, Len(line))
<1>1. k \in Spaces(line)
  BY DEF Spaces
<1>2. at \in Spaces(line)
  BY <1>1, FindSpace
<1>3. at \in 1 .. Len(line)
  BY <1>2 DEF Spaces
<1>4. DecodeWireMessage(line) \in {NoMessage, [type |-> front(at), payload |-> back(at)]}
  BY DEF DecodeWireMessage
<1> HIDE DEF at, front, back
<1> SUFFICES ASSUME DecodeWireMessage(line) = Ack
             PROVE  FALSE
  OBVIOUS
<1>5. [type |-> front(at), payload |-> back(at)] = [type |-> Ack.type, payload |-> Ack.payload]
  BY <1>4, NoAck, Zenon
<1>6. front(at) = Ack.type /\ back(at) = Ack.payload
  BY <1>5
<1>7. at = 2
  <2>1. at - 1 \in 0 .. Len(line)
    BY <1>3
  <2>2. Len(front(at)) = at - 1
    BY <2>1, FrontOf DEF front
  <2>3. at - 1 = 1
    BY <1>6, <2>2, NoAck
  <2> QED
    BY <1>3, <2>3
<1>8. Len(back(2)) = Len(line) - 2 /\ back(2)[k - 2] = line[2 + (k - 2)]
  <2>1. 2 \in 0 .. Len(line) /\ k - 2 \in 1 .. Len(line) - 2
    OBVIOUS
  <2> QED
    BY <2>1, BackOf DEF back
<1>9. back(2)[k - 2] = Space
  <2>1. 2 + (k - 2) = k
    OBVIOUS
  <2> QED
    BY <1>8, <2>1
<1>10. k - 2 \in 1 .. Len(Ack.payload)
  BY <1>6, <1>7, <1>8
<1> QED
  BY <1>6, <1>7, <1>9, <1>10, AckText, PlainText

\* So a message behind a fragment is never decoded as the ACK that is sent.
LEMMA DecodeGlued ==
    ASSUME NEW m \in Messages, NEW g \in Nat, g >= 1, NEW line \in Seq(Symbols),
           Len(line) = g + Len(EncodeWireMessage(m)) - 1,
           \A i \in 1 .. Len(EncodeWireMessage(m)) - 1 :
               line[g + i] = EncodeWireMessage(m)[i]
    PROVE  DecodeWireMessage(line) # Ack
<1> DEFINE e == EncodeWireMessage(m)
           n == Len(m.type)
           l == Len(m.payload)
<1>1. n \in Nat /\ n >= 1 /\ l \in Nat
  BY MessageText
<1>2. Len(e) = n + l + 2
  BY EncodedText
<1>3. e[n + 1] = Space
  BY EncodedText
<1>4. Len(line) = g + Len(e) - 1
  OBVIOUS
<1>5. n + 1 \in 1 .. Len(e) - 1 => line[g + (n + 1)] = e[n + 1]
  OBVIOUS
<1> HIDE DEF e, n, l
<1>6. n + 1 \in 1 .. Len(e) - 1
  BY <1>1, <1>2
<1>7. g + (n + 1) \in 3 .. Len(line)
  BY <1>1, <1>2, <1>4
<1> QED
  BY <1>3, <1>5, <1>6, <1>7, LateSpace

-----------------------------------------------------------------------------
(* The ends of the lines of a text.                                        *)

LEMMA CountedBy ==
    ASSUME NEW n \in Nat, NEW S, NEW f \in [1 .. n -> S],
           \A j, k \in 1 .. n : f[j] = f[k] => j = k,
           \A x \in S : \E k \in 1 .. n : f[k] = x
    PROVE  Cardinality(S) = n
<1>1. f \in Injection(1 .. n, S)
  BY DEF Injection, IsInjective
<1>2. f \in Surjection(1 .. n, S)
  BY DEF Surjection
<1> QED
  BY <1>1, <1>2, FS_CountingElements DEF ExistsBijection, Bijection

Ends(text) == {i \in DOMAIN text : text[i] = Newline}

\* The positions of its newlines in their order.
LEMMA LineEndsAre ==
    ASSUME NEW text, NEW n \in Nat, NEW c \in [1 .. n -> Nat],
           \A j, k \in 1 .. n : j < k => c[j] < c[k],
           \A k \in 1 .. n : c[k] \in Ends(text),
           \A i \in Ends(text) : \E k \in 1 .. n : c[k] = i
    PROVE  LineEnds(text) = c
<1> DEFINE upTo(i) == {j \in Ends(text) : j <= i}
           nth(k) == CHOOSE i \in Ends(text) : Cardinality(upTo(i)) = k
<1>1. \A j, k \in 1 .. n : c[j] = c[k] => j = k
  <2> SUFFICES ASSUME NEW j \in 1 .. n, NEW k \in 1 .. n, c[j] = c[k]
               PROVE  j = k
    OBVIOUS
  <2>1. ~(j < k) /\ ~(k < j)
    OBVIOUS
  <2> QED
    BY <2>1
<1>2. Cardinality(Ends(text)) = n
  <2>1. c \in [1 .. n -> Ends(text)]
    OBVIOUS
  <2> QED
    BY <1>1, <2>1, CountedBy
<1>3. ASSUME NEW k \in 1 .. n
      PROVE  Cardinality(upTo(c[k])) = k
  <2> DEFINE d == [j \in 1 .. k |-> c[j]]
  <2>1. \A j \in 1 .. k : j \in 1 .. n /\ c[j] \in upTo(c[k])
    <3> SUFFICES ASSUME NEW j \in 1 .. k
                 PROVE  j \in 1 .. n /\ c[j] <= c[k]
      OBVIOUS
    <3>1. j \in 1 .. n /\ (j < k \/ j = k)
      OBVIOUS
    <3>2. c[j] \in Nat /\ c[k] \in Nat
      BY <3>1
    <3>3. c[j] < c[k] \/ c[j] = c[k]
      BY <3>1
    <3> QED
      BY <3>1, <3>2, <3>3
  <2>2. d \in [1 .. k -> upTo(c[k])]
    BY <2>1
  <2>3. \A i, j \in 1 .. k : d[i] = d[j] => i = j
    BY <1>1, <2>1
  <2>4. ASSUME NEW x \in upTo(c[k])
        PROVE  \E j \in 1 .. k : d[j] = x
    <3>1. PICK j \in 1 .. n : c[j] = x
      OBVIOUS
    <3>2. c[j] <= c[k] /\ c[j] \in Nat /\ c[k] \in Nat
      BY <3>1
    <3>3. ~(k < j)
      BY <3>2
    <3>4. j \in 1 .. k
      BY <3>3
    <3> QED
      BY <3>1, <3>4
  <2>5. k \in Nat
    OBVIOUS
  <2> HIDE DEF d, upTo
  <2> QED
    BY <2>2, <2>3, <2>4, <2>5, CountedBy
<1>4. ASSUME NEW k \in 1 .. n
      PROVE  nth(k) = c[k]
  <2>1. c[k] \in Ends(text) /\ Cardinality(upTo(c[k])) = k
    BY <1>3
  <2>2. ASSUME NEW i \in Ends(text), Cardinality(upTo(i)) = k
        PROVE  i = c[k]
    <3>1. PICK j \in 1 .. n : c[j] = i
      OBVIOUS
    <3>2. Cardinality(upTo(c[j])) = j
      BY <1>3
    <3> QED
      BY <2>2, <3>1, <3>2
  <2> HIDE DEF upTo
  <2> QED
    BY <2>1, <2>2
<1>5. LineEnds(text) = [k \in 1 .. n |-> nth(k)]
  BY <1>2 DEF LineEnds, Ends
<1> HIDE DEF nth
<1> QED
  BY <1>4, <1>5

-----------------------------------------------------------------------------
(* A text that is cut into the messages that were sent.                    *)

Entries == [message : Messages, of : {<< >>} \cup {<<collected>> : collected \in Collected}]

Code(entry) == EncodeWireMessage(entry.message)

\* Text u is a fragment of g symbols and then the entries of q behind the r-th,
\* where the k-th ends at cut[k], with the newlines of u.
IsCut(u, q, r, g, cut) ==
    /\ cut[r] = g
    /\ cut[Len(q)] = Len(u)
    /\ \A j, k \in r .. Len(q) : j < k => cut[j] < cut[k]
    /\ \A k \in r + 1 .. Len(q) :
          /\ cut[k] = cut[k - 1] + Len(Code(q[k]))
          /\ \A i \in 1 .. Len(Code(q[k])) : u[cut[k - 1] + i] = Code(q[k])[i]
          /\ u[cut[k]] = Newline
    /\ \A i \in 1 .. Len(u) : u[i] = Newline => \E k \in r + 1 .. Len(q) : cut[k] = i

Framed(u, q, r, g) == \E cut \in [r .. Len(q) -> Nat] : IsCut(u, q, r, g, cut)

LEMMA CodeText ==
    ASSUME NEW entry \in Entries
    PROVE  /\ Code(entry) \in Seq(Symbols)
           /\ Len(Code(entry)) \in Nat /\ Len(Code(entry)) >= 2
           /\ Code(entry)[Len(Code(entry))] = Newline
           /\ \A i \in 1 .. Len(Code(entry)) - 1 : Code(entry)[i] # Newline
<1> DEFINE n == Len(entry.message.type)
           l == Len(entry.message.payload)
           C == Len(Code(entry))
<1>1. entry.message \in Messages
  BY DEF Entries
<1>2. n \in Nat /\ l \in Nat
  BY <1>1, MessageText
<1>3. C = n + l + 2
  BY <1>1, EncodedText DEF Code
<1>4. /\ Code(entry) \in Seq(Symbols)
      /\ Code(entry)[C] = Newline
      /\ \A i \in 1 .. C - 1 : Code(entry)[i] # Newline
  BY <1>1, EncodedText DEF Code
<1> HIDE DEF n, l, C
<1>5. C \in Nat /\ C >= 2
  BY <1>2, <1>3
<1> QED
  BY <1>4, <1>5 DEF C

\* A new connection.
LEMMA FramedEmpty ==
    ASSUME NEW u \in Seq(Symbols), \A i \in 1 .. Len(u) : u[i] # Newline
    PROVE  Framed(u, << >>, 0, Len(u))
<1> DEFINE cut == [k \in {0} |-> Len(u)]
<1>1. Len(<< >>) = 0 /\ 0 .. 0 = {0} /\ 0 + 1 .. 0 = {}
  OBVIOUS
<1>2. cut \in [0 .. Len(<< >>) -> Nat]
  BY <1>1
<1>3. cut[0] = Len(u)
  OBVIOUS
<1> HIDE DEF cut
<1>4. IsCut(u, << >>, 0, Len(u), cut)
  BY <1>1, <1>3 DEF IsCut
<1> QED
  BY <1>2, <1>4 DEF Framed

\* A message is sent.
LEMMA FramedAppend ==
    ASSUME NEW u \in Seq(Symbols), NEW q \in Seq(Entries), NEW r \in 0 .. Len(q),
           NEW g, Framed(u, q, r, g), NEW x \in Entries
    PROVE  Framed(u \o Code(x), Append(q, x), r, g)
<1> DEFINE N == Len(q)
           L == Len(u)
           e == Code(x)
           C == Len(e)
           v == u \o e
           p == Append(q, x)
<1>1. PICK cut \in [r .. N -> Nat] : IsCut(u, q, r, g, cut)
  BY DEF Framed
<1> DEFINE new == [k \in r .. N + 1 |-> IF k = N + 1 THEN L + C ELSE cut[k]]
<1>2. /\ e \in Seq(Symbols) /\ C \in Nat /\ C >= 2
      /\ e[C] = Newline /\ \A i \in 1 .. C - 1 : e[i] # Newline
  BY CodeText
<1>3. N \in Nat /\ L \in Nat /\ r \in Nat /\ r <= N
  OBVIOUS
<1>4. /\ Len(p) = N + 1 /\ p[N + 1] = x
      /\ \A k \in 1 .. N : p[k] = q[k]
  OBVIOUS
<1> HIDE DEF e
<1>5. /\ Len(v) = L + C
      /\ \A i \in 1 .. L : v[i] = u[i]
      /\ \A i \in 1 .. C : v[L + i] = e[i]
  BY <1>2
<1>6. /\ cut[r] = g /\ cut[N] = L
      /\ \A j, k \in r .. N : j < k => cut[j] < cut[k]
  BY <1>1 DEF IsCut
<1>7. \A k \in r + 1 .. N :
          /\ cut[k] = cut[k - 1] + Len(Code(q[k]))
          /\ \A i \in 1 .. Len(Code(q[k])) : u[cut[k - 1] + i] = Code(q[k])[i]
          /\ u[cut[k]] = Newline
  BY <1>1 DEF IsCut
<1>8. \A i \in 1 .. L : u[i] = Newline => \E k \in r + 1 .. N : cut[k] = i
  BY <1>1 DEF IsCut
<1>9. \A k \in r + 1 .. N : q[k] \in Entries /\ Len(Code(q[k])) \in Nat /\ Len(Code(q[k])) >= 2
  <2>1. \A k \in r + 1 .. N : k \in 1 .. N
    BY <1>3
  <2> QED
    BY <2>1, CodeText
<1> HIDE DEF N, L, C, v, p
<1>10. \A k \in r .. N : cut[k] \in Nat /\ cut[k] <= L
  BY <1>3, <1>6
<1>11. new \in [r .. N + 1 -> Nat]
  BY <1>2, <1>3
<1>12. new[N + 1] = L + C /\ \A k \in r .. N : new[k] = cut[k]
  BY <1>3
<1> HIDE DEF new
<1>13. new[r] = g
  BY <1>3, <1>6, <1>12
<1>14. ASSUME NEW j \in r .. N + 1, NEW k \in r .. N + 1, j < k
       PROVE  new[j] < new[k]
  <2>1. j \in r .. N /\ new[j] = cut[j]
    BY <1>3, <1>12, <1>14
  <2>2. CASE k = N + 1
    BY <2>1, <2>2, <1>2, <1>3, <1>10, <1>12
  <2>3. CASE k # N + 1
    <3>1. k \in r .. N
      BY <2>3, <1>3
    <3> QED
      BY <2>1, <3>1, <1>6, <1>12, <1>14
  <2> QED
    BY <2>2, <2>3
<1>15. ASSUME NEW k \in r + 1 .. N + 1
       PROVE  /\ new[k] = new[k - 1] + Len(Code(p[k]))
              /\ \A i \in 1 .. Len(Code(p[k])) : v[new[k - 1] + i] = Code(p[k])[i]
              /\ v[new[k]] = Newline
  <2>1. CASE k = N + 1
    <3>1. N \in r .. N /\ k - 1 = N
      BY <2>1, <1>3
    <3>2. p[k] = x /\ new[k - 1] = L /\ new[k] = L + C
      BY <2>1, <3>1, <1>4, <1>6, <1>12
    <3>3. Code(p[k]) = e /\ Len(Code(p[k])) = C
      BY <3>2 DEF e, C
    <3>4. v[L + C] = e[C]
      <4>1. C \in 1 .. C
        BY <1>2
      <4> QED
        BY <4>1, <1>5
    <3> QED
      BY <3>2, <3>3, <3>4, <1>2, <1>5
  <2>2. CASE k # N + 1
    <3>1. k \in r + 1 .. N /\ k \in r .. N /\ k - 1 \in r .. N /\ k \in 1 .. N
      BY <2>2, <1>3
    <3>2. p[k] = q[k] /\ new[k] = cut[k] /\ new[k - 1] = cut[k - 1]
      BY <3>1, <1>4, <1>12
    <3>3. /\ cut[k] \in Nat /\ cut[k] <= L /\ cut[k - 1] \in Nat
          /\ Len(Code(q[k])) \in Nat /\ Len(Code(q[k])) >= 2
          /\ cut[k] = cut[k - 1] + Len(Code(q[k]))
      BY <3>1, <1>7, <1>9, <1>10
    <3>4. ASSUME NEW i \in 1 .. Len(Code(q[k]))
          PROVE  v[cut[k - 1] + i] = Code(q[k])[i]
      <4>1. cut[k - 1] + i \in 1 .. L
        <5>1. \A a, b, c, n \in Nat : c = a + n /\ c <= b => \A j \in 1 .. n : a + j \in 1 .. b
          OBVIOUS
        <5> HIDE DEF new
        <5> QED
          BY <3>3, <1>3, <5>1
      <4> QED
        BY <3>1, <4>1, <1>5, <1>7
    <3>5. cut[k] \in 1 .. L
      BY <3>3, <1>3
    <3>6. v[cut[k]] = Newline
      BY <3>1, <3>5, <1>5, <1>7
    <3> QED
      BY <3>2, <3>3, <3>4, <3>6
  <2> QED
    BY <2>1, <2>2
<1>16. ASSUME NEW i \in 1 .. L + C, v[i] = Newline
       PROVE  \E k \in r + 1 .. N + 1 : new[k] = i
  <2>1. CASE i \in 1 .. L
    <3>1. PICK k \in r + 1 .. N : cut[k] = i
      BY <2>1, <1>5, <1>8, <1>16
    <3>2. k \in r .. N /\ k \in r + 1 .. N + 1
      BY <1>3
    <3> QED
      BY <3>1, <3>2, <1>12
  <2>2. CASE i \notin 1 .. L
    <3>1. i - L \in 1 .. C /\ i = L + (i - L)
      BY <2>2, <1>2, <1>3
    <3>2. e[i - L] = Newline
      BY <3>1, <1>5, <1>16
    <3>3. i - L = C
      BY <3>1, <3>2, <1>2
    <3>4. i = L + C /\ N + 1 \in r + 1 .. N + 1
      BY <3>1, <3>3, <1>2, <1>3
    <3> QED
      BY <3>4, <1>12
  <2> QED
    BY <2>1, <2>2
<1>17. IsCut(v, p, r, g, new)
  BY <1>4, <1>5, <1>12, <1>13, <1>14, <1>15, <1>16 DEF IsCut
<1> QED
  BY <1>4, <1>11, <1>17 DEF Framed, v, p, e

\* What a cut says of the positions, without the texts.
LEMMA CutBounds ==
    ASSUME NEW u \in Seq(Symbols), NEW q \in Seq(Entries), NEW r \in 0 .. Len(q),
           NEW g, NEW cut \in [r .. Len(q) -> Nat], IsCut(u, q, r, g, cut)
    PROVE  \A k \in r + 1 .. Len(q) :
               /\ cut[k - 1] \in Nat /\ cut[k] \in 1 .. Len(u)
               /\ cut[k] >= cut[k - 1] + 2
               /\ k \in 1 .. Len(q) /\ q[k] \in Entries
<1> SUFFICES ASSUME NEW k \in r + 1 .. Len(q)
             PROVE  /\ cut[k - 1] \in Nat /\ cut[k] \in 1 .. Len(u)
                    /\ cut[k] >= cut[k - 1] + 2
                    /\ k \in 1 .. Len(q) /\ q[k] \in Entries
  OBVIOUS
<1> DEFINE N == Len(q)
           L == Len(u)
           C == Len(Code(q[k]))
<1>1. N \in Nat /\ L \in Nat /\ r \in Nat
  OBVIOUS
<1>2. k \in 1 .. N /\ k \in r .. N /\ k - 1 \in r .. N /\ N \in r .. N
  BY <1>1
<1>3. q[k] \in Entries /\ C \in Nat /\ C >= 2
  BY <1>2, CodeText
<1>4. cut[k] = cut[k - 1] + C
  BY DEF IsCut
<1>5. cut[N] = L /\ (k < N => cut[k] < cut[N])
  BY <1>2 DEF IsCut
<1>6. cut[k] \in Nat /\ cut[k - 1] \in Nat /\ cut[N] \in Nat
  BY <1>2
<1> HIDE DEF N, L, C
<1>7. cut[k] <= L
  <2>1. k < N \/ k = N
    BY <1>1, <1>2
  <2> QED
    BY <2>1, <1>1, <1>5, <1>6
<1>8. cut[k] \in 1 .. L /\ cut[k] >= cut[k - 1] + 2
  BY <1>1, <1>3, <1>4, <1>6, <1>7
<1> QED
  BY <1>2, <1>3, <1>6, <1>8 DEF N, L

\* The n lines behind the r-th are complete in text, and no other is.
Complete(text, r, cut, n) ==
    /\ LineEnds(text) = [k \in 1 .. n |-> cut[r + k]]
    /\ \A k \in r + 1 .. r + n : cut[k] <= Len(text)
    /\ \A i \in 1 .. Len(text) :
          text[i] = Newline => \E k \in r + 1 .. r + n : cut[k] = i

\* The lines that are complete in the first symbols of a text.
LEMMA FramedPrefix ==
    ASSUME NEW u \in Seq(Symbols), NEW q \in Seq(Entries), NEW r \in 0 .. Len(q),
           NEW g, NEW cut \in [r .. Len(q) -> Nat], IsCut(u, q, r, g, cut),
           NEW text \in Seq(Symbols), Len(text) <= Len(u),
           \A i \in 1 .. Len(text) : text[i] = u[i]
    PROVE  \E n \in 0 .. Len(q) - r : Complete(text, r, cut, n)
<1> DEFINE N == Len(q)
           L == Len(u)
           T == Len(text)
           over == {k \in r + 1 .. N : cut[k] > T}
<1>1. N \in Nat /\ L \in Nat /\ T \in Nat /\ r \in Nat /\ r <= N /\ T <= L
  OBVIOUS
<1>2. \A j, k \in r .. N : j < k => cut[j] < cut[k]
  BY DEF IsCut
<1>3. \A k \in r + 1 .. N : u[cut[k]] = Newline
  BY DEF IsCut
<1>4. \A i \in 1 .. L : u[i] = Newline => \E k \in r + 1 .. N : cut[k] = i
  BY DEF IsCut
<1>5. \A k \in r + 1 .. N :
          cut[k] \in 1 .. L /\ cut[k] \in Nat /\ k \in r .. N /\ k \in Nat
  <2>1. \A k \in r + 1 .. N : k \in r .. N /\ k \in Nat
    BY <1>1
  <2>2. \A k \in r + 1 .. N : cut[k] \in 1 .. L
    BY CutBounds
  <2>3. \A k \in r .. N : cut[k] \in Nat
    OBVIOUS
  <2> QED
    BY <2>1, <2>2, <2>3
<1>6. \A i \in 1 .. T : text[i] = u[i] /\ i \in 1 .. L
  BY <1>1
<1>7. DOMAIN text = 1 .. T
  OBVIOUS
<1> HIDE DEF N, L, T
<1>8. \E n \in 0 .. N - r : /\ \A k \in r + 1 .. r + n : cut[k] <= T
                            /\ \A k \in r + n + 1 .. N : cut[k] > T
  <2>1. CASE over = {}
    <3>1. N - r \in 0 .. N - r /\ r + (N - r) = N /\ r + (N - r) + 1 .. N = {}
      BY <1>1
    <3>2. ASSUME NEW k \in r + 1 .. N
          PROVE  cut[k] <= T
      <4>1. cut[k] \in Nat /\ ~(cut[k] > T)
        BY <2>1, <1>5
      <4> QED
        BY <4>1, <1>1
    <3> QED
      BY <3>1, <3>2
  <2>2. CASE over # {}
    <3>1. PICK m \in over : \A k \in over : m <= k
      <4>1. over \in SUBSET Nat
        BY <1>5
      <4> HIDE DEF over
      <4> QED
        BY <2>2, <4>1, Minimum
    <3>2. m - r - 1 \in 0 .. N - r /\ r + (m - r - 1) = m - 1 /\ m \in r + 1 .. N
      BY <1>1
    <3>3. \A k \in r + 1 .. m - 1 : cut[k] <= T
      <4> SUFFICES ASSUME NEW k \in r + 1 .. m - 1
                   PROVE  cut[k] <= T
        OBVIOUS
      <4>1. k \in r + 1 .. N /\ ~(m <= k)
        BY <1>1, <3>2
      <4>2. k \notin over
        BY <3>1, <4>1
      <4> QED
        BY <1>1, <1>5, <4>1, <4>2
    <3>4. \A k \in m .. N : cut[k] > T
      <4> SUFFICES ASSUME NEW k \in m .. N
                   PROVE  cut[k] > T
        OBVIOUS
      <4>1. k \in r + 1 .. N /\ k \in r .. N /\ m \in r .. N /\ (k = m \/ m < k)
        BY <1>1, <3>2
      <4>2. cut[m] > T /\ cut[m] \in Nat /\ cut[k] \in Nat
        BY <1>5, <3>1, <3>2, <4>1
      <4>3. m < k => cut[m] < cut[k]
        BY <1>2, <4>1
      <4> QED
        BY <1>1, <4>1, <4>2, <4>3
    <3>5. r + (m - r - 1) + 1 = m
      BY <1>1, <3>2
    <3> QED
      BY <3>2, <3>3, <3>4, <3>5
  <2> QED
    BY <2>1, <2>2
<1>9. PICK n \in 0 .. N - r : /\ \A k \in r + 1 .. r + n : cut[k] <= T
                              /\ \A k \in r + n + 1 .. N : cut[k] > T
  BY <1>8
<1> DEFINE c == [k \in 1 .. n |-> cut[r + k]]
<1>10. \A k \in 1 .. n : r + k \in r + 1 .. r + n /\ r + k \in r + 1 .. N /\ r + k \in r .. N
  BY <1>1, <1>9
<1>11. n \in Nat
  BY <1>1
<1>12. c \in [1 .. n -> Nat]
  <2>1. \A k \in 1 .. n : cut[r + k] \in Nat
    BY <1>5, <1>10
  <2> QED
    BY <2>1
<1>13. ASSUME NEW j \in 1 .. n, NEW k \in 1 .. n, j < k
       PROVE  c[j] < c[k]
  <2>1. r + j < r + k
    BY <1>1, <1>13
  <2> QED
    BY <2>1, <1>2, <1>10
<1>14. ASSUME NEW k \in 1 .. n
       PROVE  c[k] \in Ends(text)
  <2>1. cut[r + k] \in 1 .. T
    BY <1>1, <1>5, <1>9, <1>10
  <2>2. text[cut[r + k]] = Newline
    BY <2>1, <1>3, <1>6, <1>10
  <2> QED
    BY <2>1, <2>2, <1>7 DEF Ends
<1>15. ASSUME NEW i \in 1 .. T, text[i] = Newline
       PROVE  \E k \in r + 1 .. r + n : cut[k] = i
  <2>1. u[i] = Newline /\ i \in 1 .. L
    BY <1>6, <1>15
  <2>2. PICK k \in r + 1 .. N : cut[k] = i
    BY <2>1, <1>4
  <2>3. k \notin r + n + 1 .. N
    BY <2>2, <1>1, <1>9
  <2>4. k \in r + 1 .. r + n
    BY <2>3, <1>1, <1>11
  <2> QED
    BY <2>2, <2>4
<1>16. ASSUME NEW i \in Ends(text)
       PROVE  \E k \in 1 .. n : c[k] = i
  <2>1. i \in 1 .. T /\ text[i] = Newline
    BY <1>7 DEF Ends
  <2>2. PICK k \in r + 1 .. r + n : cut[k] = i
    BY <2>1, <1>15
  <2>3. k - r \in 1 .. n /\ r + (k - r) = k
    BY <1>1, <1>11
  <2> QED
    BY <2>2, <2>3
<1>17. LineEnds(text) = c
  <2> HIDE DEF c
  <2> QED
    BY <1>11, <1>12, <1>13, <1>14, <1>16, LineEndsAre
<1> QED
  BY <1>9, <1>15, <1>17 DEF Complete, N, T

LEMMA ShiftedPiece ==
    ASSUME NEW z \in Nat, NEW L \in Nat, NEW a \in Nat, NEW b \in Nat, NEW C \in Nat,
           z <= a, C >= 2, b = a + C, b <= L
    PROVE  /\ b - z = (a - z) + C /\ b - z \in 1 .. L - z /\ z + (b - z) = b
           /\ \A i \in 1 .. C : (a - z) + i \in 1 .. L - z /\ z + ((a - z) + i) = a + i
  OBVIOUS

\* The lines are taken from a text.
LEMMA FramedRest ==
    ASSUME NEW u \in Seq(Symbols), NEW q \in Seq(Entries), NEW r \in 0 .. Len(q),
           NEW g, NEW cut \in [r .. Len(q) -> Nat], IsCut(u, q, r, g, cut),
           NEW s \in r + 1 .. Len(q), NEW v, Len(v) = Len(u) - cut[s],
           \A i \in 1 .. Len(u) - cut[s] : v[i] = u[cut[s] + i]
    PROVE  Framed(v, q, s, 0)
<1> DEFINE N == Len(q)
           L == Len(u)
           z == cut[s]
           V == Len(v)
           new == [k \in s .. N |-> cut[k] - z]
<1>1. N \in Nat /\ L \in Nat /\ r \in Nat /\ s \in Nat /\ r < s /\ s <= N
  OBVIOUS
<1>2. \A j, k \in r .. N : j < k => cut[j] < cut[k]
  BY DEF IsCut
<1>3. \A k \in r + 1 .. N :
          /\ cut[k] = cut[k - 1] + Len(Code(q[k]))
          /\ \A i \in 1 .. Len(Code(q[k])) : u[cut[k - 1] + i] = Code(q[k])[i]
          /\ u[cut[k]] = Newline
  BY DEF IsCut
<1>4. \A i \in 1 .. L : u[i] = Newline => \E k \in r + 1 .. N : cut[k] = i
  BY DEF IsCut
<1>5. cut[N] = L
  BY DEF IsCut
<1>6. \A k \in r + 1 .. N :
          /\ cut[k] \in 1 .. L /\ cut[k - 1] \in Nat /\ Len(Code(q[k])) \in Nat
          /\ Len(Code(q[k])) >= 2
  BY CutBounds, CodeText
<1>7. z \in Nat /\ z <= L /\ V = L - z
  BY <1>1, <1>6
<1>8. \A i \in 1 .. V : v[i] = u[z + i]
  BY <1>7
<1>z. z = cut[s]
  OBVIOUS
<1>n. \A k \in r .. N : cut[k] \in Nat
  OBVIOUS
<1> HIDE DEF N, L, z, V
<1>9. \A k \in s .. N : k \in r + 1 .. N /\ k \in r .. N /\ cut[k] \in Nat /\ cut[k] >= z
  <2> SUFFICES ASSUME NEW k \in s .. N
               PROVE  k \in r + 1 .. N /\ k \in r .. N /\ cut[k] \in Nat /\ cut[k] >= z
    OBVIOUS
  <2>1. k \in r + 1 .. N /\ k \in r .. N /\ s \in r .. N /\ (k = s \/ s < k)
    BY <1>1
  <2>2. s < k => z < cut[k]
    <3>1. s < k => cut[s] < cut[k]
      BY <1>2, <2>1
    <3> QED
      BY <3>1, <1>z
  <2>3. cut[k] \in Nat
    BY <1>n, <2>1
  <2> QED
    BY <1>7, <1>z, <2>1, <2>2, <2>3
<1>10. new \in [s .. N -> Nat]
  BY <1>7, <1>9
<1>11. \A k \in s .. N : new[k] = cut[k] - z
  OBVIOUS
<1> HIDE DEF new
<1>12. new[s] = 0 /\ new[N] = V
  <2>1. s \in s .. N /\ N \in s .. N
    BY <1>1
  <2> QED
    BY <2>1, <1>5, <1>7, <1>11, <1>z
<1>13. ASSUME NEW j \in s .. N, NEW k \in s .. N, j < k
       PROVE  new[j] < new[k]
  <2>1. cut[j] < cut[k]
    BY <1>2, <1>9, <1>13
  <2> QED
    BY <2>1, <1>7, <1>9, <1>11
<1>14. ASSUME NEW k \in s + 1 .. N
       PROVE  /\ new[k] = new[k - 1] + Len(Code(q[k]))
              /\ \A i \in 1 .. Len(Code(q[k])) : v[new[k - 1] + i] = Code(q[k])[i]
              /\ v[new[k]] = Newline
  <2>1. k \in s .. N /\ k - 1 \in s .. N /\ k \in r + 1 .. N
    BY <1>1
  <2> DEFINE C == Len(Code(q[k]))
             a == cut[k - 1]
             b == cut[k]
  <2>2. new[k] = b - z /\ new[k - 1] = a - z
    BY <2>1, <1>11
  <2>3. a \in Nat /\ b \in Nat /\ a >= z
    BY <2>1, <1>9
  <2>4. C \in Nat /\ C >= 2 /\ b \in 1 .. L
    BY <2>1, <1>6
  <2>5. b = a + C
    BY <2>1, <1>3
  <2> HIDE DEF C, a, b
  <2>6. z <= a /\ b <= L
    BY <1>7, <2>3, <2>4
  <2>7. /\ b - z = (a - z) + C /\ b - z \in 1 .. V /\ z + (b - z) = b
        /\ \A i \in 1 .. C : (a - z) + i \in 1 .. V /\ z + ((a - z) + i) = a + i
    BY <1>1, <1>7, <2>3, <2>4, <2>5, <2>6, ShiftedPiece
  <2>8. ASSUME NEW i \in 1 .. C
        PROVE  v[new[k - 1] + i] = Code(q[k])[i]
    <3>1. v[new[k - 1] + i] = u[a + i]
      BY <2>2, <2>7, <1>8
    <3> QED
      BY <2>1, <3>1, <1>3 DEF a, C
  <2>9. v[new[k]] = Newline
    <3>1. v[new[k]] = u[b]
      BY <2>2, <2>7, <1>8
    <3> QED
      BY <2>1, <3>1, <1>3 DEF b
  <2> QED
    BY <2>2, <2>7, <2>8, <2>9 DEF C
<1>15. ASSUME NEW i \in 1 .. V, v[i] = Newline
       PROVE  \E k \in s + 1 .. N : new[k] = i
  <2>1. z + i \in 1 .. L /\ u[z + i] = Newline
    BY <1>1, <1>7, <1>8, <1>15
  <2>2. PICK k \in r + 1 .. N : cut[k] = z + i
    BY <2>1, <1>4
  <2>3. k \in s + 1 .. N
    <3>1. k \in r .. N /\ s \in r .. N /\ cut[k] > z
      BY <2>2, <1>1, <1>7
    <3>2. k # s /\ ~(k < s)
      BY <3>1, <1>2, <1>7, <1>z, <2>2
    <3> QED
      BY <3>1, <3>2, <1>1
  <2>4. new[k] = i
    BY <2>2, <2>3, <1>1, <1>7, <1>11
  <2> QED
    BY <2>3, <2>4
<1>16. IsCut(v, q, s, 0, new)
  BY <1>12, <1>13, <1>14, <1>15 DEF IsCut, N, V
<1> QED
  BY <1>10, <1>16 DEF Framed, N

LEMMA PieceBounds ==
    ASSUME NEW a \in Nat, NEW b \in Nat, NEW C \in Nat, NEW T \in Nat, b = a + C, b <= T,
           NEW i \in 1 .. C - 1
    PROVE  /\ i \in 1 .. b - 1 - a /\ i \in 1 .. C
           /\ a + i \in 1 .. T /\ a + i \in 1 .. b - 1 - 0 /\ 0 + (a + i) = a + i
  OBVIOUS

\* A line that is taken from its beginning is the message that was sent.
LEMMA TakenLine ==
    ASSUME NEW u \in Seq(Symbols), NEW q \in Seq(Entries), NEW r \in 0 .. Len(q),
           NEW g, NEW cut \in [r .. Len(q) -> Nat], IsCut(u, q, r, g, cut),
           NEW text \in Seq(Symbols), \A i \in 1 .. Len(text) : text[i] = u[i],
           NEW k \in r + 1 .. Len(q), cut[k] <= Len(text)
    PROVE  LET line == SubSeq(text, cut[k - 1] + 1, cut[k] - 1)
           IN  line \in Seq(Symbols) /\ DecodeWireMessage(line) = q[k].message
<1> DEFINE a == cut[k - 1]
           b == cut[k]
           e == Code(q[k])
           C == Len(e)
           line == SubSeq(text, a + 1, b - 1)
           T == Len(text)
<1>1. a \in Nat /\ b \in Nat /\ q[k] \in Entries
  BY CutBounds
<1>2. C \in Nat /\ C >= 2 /\ q[k].message \in Messages
  BY <1>1, CodeText DEF Entries
<1>3. b = a + C /\ \A i \in 1 .. C : u[a + i] = e[i]
  BY DEF IsCut
<1>4. T \in Nat /\ b <= T /\ \A i \in 1 .. T : text[i] = u[i]
  OBVIOUS
<1>5. a < b /\ b <= T + 1
  <2> HIDE DEF a, b, C, T
  <2> QED
    BY <1>1, <1>2, <1>3, <1>4
<1>e. e = EncodeWireMessage(q[k].message)
  BY DEF Code
<1> HIDE DEF a, b
<1>6. /\ line \in Seq(Symbols) /\ Len(line) = b - 1 - a
      /\ \A i \in 1 .. b - 1 - a : line[i] = text[a + i]
  BY <1>1, <1>5, MiddleOf
<1> HIDE DEF e, C, T, line
<1>7. Len(line) = C - 1
  BY <1>1, <1>2, <1>3, <1>6
<1>8. ASSUME NEW i \in 1 .. Len(line)
      PROVE  line[i] = e[i]
  <2>1. i \in 1 .. C - 1
    BY <1>7
  <2>2. i \in 1 .. b - 1 - a /\ i \in 1 .. C /\ a + i \in 1 .. T
    BY <1>1, <1>2, <1>3, <1>4, <2>1, PieceBounds
  <2> QED
    BY <2>2, <1>3, <1>4, <1>6
<1>9. DecodeWireMessage(line) = q[k].message
  BY <1>2, <1>6, <1>7, <1>8, <1>e, DecodeLine DEF C
<1> QED
  BY <1>6, <1>9 DEF line, a, b

\* A line that is taken with a fragment before it is not the text of an ACK.
LEMMA TakenGlued ==
    ASSUME NEW u \in Seq(Symbols), NEW q \in Seq(Entries), NEW r \in 0 .. Len(q),
           NEW g, NEW cut \in [r .. Len(q) -> Nat], IsCut(u, q, r, g, cut),
           NEW text \in Seq(Symbols), \A i \in 1 .. Len(text) : text[i] = u[i],
           NEW k \in r + 1 .. Len(q), cut[k] <= Len(text), cut[k - 1] >= 1
    PROVE  LET line == SubSeq(text, 1, cut[k] - 1)
           IN  line \in Seq(Symbols) /\ DecodeWireMessage(line) # Ack
<1> DEFINE a == cut[k - 1]
           b == cut[k]
           e == Code(q[k])
           C == Len(e)
           line == SubSeq(text, 0 + 1, b - 1)
           T == Len(text)
<1>1. a \in Nat /\ a >= 1 /\ b \in Nat /\ q[k] \in Entries
  <2>1. a \in Nat /\ b \in Nat /\ q[k] \in Entries
    BY CutBounds
  <2> QED
    BY <2>1
<1>2. C \in Nat /\ C >= 2 /\ q[k].message \in Messages
  BY <1>1, CodeText DEF Entries
<1>3. b = a + C /\ \A i \in 1 .. C : u[a + i] = e[i]
  BY DEF IsCut
<1>4. T \in Nat /\ b <= T /\ \A i \in 1 .. T : text[i] = u[i]
  OBVIOUS
<1>5. 0 < b /\ b <= T + 1
  <2> HIDE DEF a, b, C, T
  <2> QED
    BY <1>1, <1>2, <1>3, <1>4
<1>6. /\ line \in Seq(Symbols) /\ Len(line) = b - 1 - 0
      /\ \A i \in 1 .. b - 1 - 0 : line[i] = text[0 + i]
  BY <1>1, <1>5, MiddleOf
<1>e. e = EncodeWireMessage(q[k].message)
  BY DEF Code
<1>l. line = SubSeq(text, 1, cut[k] - 1)
  OBVIOUS
<1> HIDE DEF a, b, e, C, T, line
<1>7. Len(line) = a + C - 1
  BY <1>1, <1>2, <1>3, <1>6
<1>8. ASSUME NEW i \in 1 .. C - 1
      PROVE  line[a + i] = e[i]
  <2>1. a + i \in 1 .. b - 1 - 0 /\ i \in 1 .. C /\ a + i \in 1 .. T /\ 0 + (a + i) = a + i
    BY <1>1, <1>2, <1>3, <1>4, PieceBounds
  <2> QED
    BY <2>1, <1>3, <1>4, <1>6
<1>9. DecodeWireMessage(line) # Ack
  BY <1>1, <1>2, <1>6, <1>7, <1>8, <1>e, DecodeGlued DEF C
<1> QED
  BY <1>6, <1>9, <1>l

-----------------------------------------------------------------------------
(* The invariant.                                                          *)

Taken == {Message(line) : line \in Seq(Symbols)}

TypeInv ==
    /\ sent \in Seq(Entries)
    /\ stream \in Seq(Symbols) /\ buffer \in Seq(Symbols) /\ glue \in Seq(Symbols)
    /\ received \in Seq(Taken)

\* m_buffer keeps no complete line.
BufferInv == \A i \in 1 .. Len(buffer) : buffer[i] # Newline

\* The text that has not been taken is what was sent behind what was received, with
\* the fragment of an earlier connection before it while nothing was.
FramingInv ==
    Framed(buffer \o stream, sent, Len(received), IF received = << >> THEN Len(glue) ELSE 0)

ReceivedInv ==
    /\ Len(received) <= Len(sent)
    /\ \A i \in 1 .. Len(received) :
          IF i > 1 \/ glue = << >> THEN received[i].message = sent[i].message
          ELSE received[i].message # Ack

IInv == TypeInv /\ BufferInv /\ FramingInv /\ ReceivedInv

LEMMA InitIInv == Init => IInv
<1> SUFFICES ASSUME Init PROVE IInv
  OBVIOUS
<1>1. /\ sent = << >> /\ stream = << >> /\ buffer = << >> /\ received = << >> /\ glue = << >>
      /\ << >> \o << >> = << >> /\ Len(<< >>) = 0
  BY DEF Init
<1>2. TypeInv
  BY <1>1 DEF TypeInv
<1>3. BufferInv /\ ReceivedInv
  BY <1>1 DEF BufferInv, ReceivedInv
<1>4. Framed(<< >>, << >>, 0, Len(<< >>))
  <2>1. << >> \in Seq(Symbols) /\ \A i \in 1 .. Len(<< >>) : << >>[i] # Newline
    OBVIOUS
  <2> QED
    BY <2>1, FramedEmpty
<1>5. FramingInv
  BY <1>1, <1>4 DEF FramingInv
<1> QED
  BY <1>2, <1>3, <1>5 DEF IInv

LEMMA WriteIInv == IInv /\ Write => IInv'
<1> SUFFICES ASSUME IInv, Write PROVE IInv'
  OBVIOUS
<1>1. PICK x \in Entries : sent' = Append(sent, x) /\ stream' = stream \o Code(x)
  <2>1. CASE /\ sent' = Append(sent, [message |-> Ack, of |-> << >>])
             /\ stream' = stream \o EncodeWireMessage(Ack)
    <3>1. [message |-> Ack, of |-> << >>] \in Entries
      BY DEF Entries, Messages
    <3>2. Code([message |-> Ack, of |-> << >>]) = EncodeWireMessage(Ack)
      BY DEF Code
    <3> QED
      BY <2>1, <3>1, <3>2
  <2>2. ASSUME NEW collected \in Collected,
               sent' = Append(sent, [message |-> MetricsResp(collected), of |-> <<collected>>]),
               stream' = stream \o EncodeWireMessage(MetricsResp(collected))
        PROVE  \E x \in Entries : sent' = Append(sent, x) /\ stream' = stream \o Code(x)
    <3> DEFINE x == [message |-> MetricsResp(collected), of |-> <<collected>>]
    <3>1. x \in Entries
      BY DEF Entries, Messages
    <3>2. Code(x) = EncodeWireMessage(MetricsResp(collected))
      BY DEF Code
    <3> HIDE DEF x
    <3> QED
      BY <2>2, <3>1, <3>2 DEF x
  <2> QED
    BY <2>1, <2>2 DEF Write
<1>2. UNCHANGED <<buffer, received, glue>>
  BY DEF Write
<1>3. /\ sent \in Seq(Entries) /\ stream \in Seq(Symbols) /\ buffer \in Seq(Symbols)
      /\ glue \in Seq(Symbols) /\ received \in Seq(Taken)
  BY DEF IInv, TypeInv
<1>4. Code(x) \in Seq(Symbols)
  BY CodeText
<1>5. TypeInv'
  BY <1>1, <1>2, <1>3, <1>4 DEF TypeInv
<1>6. BufferInv'
  BY <1>2 DEF IInv, BufferInv
<1>7. FramingInv'
  <2> DEFINE g == IF received = << >> THEN Len(glue) ELSE 0
             r == Len(received)
             u == buffer \o stream
  <2>1. u \in Seq(Symbols) /\ r \in 0 .. Len(sent)
    BY <1>3 DEF IInv, ReceivedInv
  <2>2. Framed(u, sent, r, g)
    BY DEF IInv, FramingInv
  <2> HIDE DEF g, r, u
  <2>3. Framed(u \o Code(x), Append(sent, x), r, g)
    BY <1>3, <2>1, <2>2, FramedAppend
  <2>4. u \o Code(x) = buffer \o (stream \o Code(x))
    <3>1. stream \in Seq(Symbols) /\ buffer \in Seq(Symbols)
      BY <1>3
    <3>2. (buffer \o stream) \o Code(x) = buffer \o (stream \o Code(x))
      BY <1>4, <3>1, ConcatThree
    <3> QED
      BY <3>2 DEF u
  <2> QED
    BY <1>1, <1>2, <2>3, <2>4 DEF FramingInv, g, r
<1>8. ReceivedInv'
  <2>1. /\ Len(sent') = Len(sent) + 1
        /\ \A i \in 1 .. Len(sent) : sent'[i] = sent[i]
    BY <1>1, <1>3
  <2>2. Len(received) \in Nat /\ Len(sent) \in Nat
    BY <1>3
  <2> QED
    BY <1>2, <2>1, <2>2 DEF IInv, ReceivedInv
<1> QED
  BY <1>5, <1>6, <1>7, <1>8 DEF IInv

LEMMA ReconnectIInv == IInv /\ Reconnect => IInv'
<1> SUFFICES ASSUME IInv, Reconnect PROVE IInv'
  OBVIOUS
<1>1. /\ sent' = << >> /\ stream' = << >> /\ received' = << >>
      /\ glue' = buffer /\ buffer' = buffer
  BY DEF Reconnect
<1>2. buffer \in Seq(Symbols) /\ Len(<< >>) = 0
  BY DEF IInv, TypeInv
<1>3. TypeInv'
  BY <1>1, <1>2 DEF TypeInv
<1>4. BufferInv'
  BY <1>1 DEF IInv, BufferInv
<1>5. ReceivedInv'
  BY <1>1, <1>2 DEF ReceivedInv
<1>6. FramingInv'
  <2>1. Framed(buffer, << >>, 0, Len(buffer))
    BY <1>2, FramedEmpty DEF IInv, BufferInv
  <2>2. buffer \o << >> = buffer
    BY <1>2
  <2> QED
    BY <1>1, <1>2, <2>1, <2>2 DEF FramingInv
<1> QED
  BY <1>3, <1>4, <1>5, <1>6 DEF IInv

\* Reading a chunk takes the lines that end in m_buffer and the chunk, and keeps the
\* rest.
LEMMA OnReadyReadIInv == IInv /\ OnReadyRead => IInv'
<1> SUFFICES ASSUME IInv, OnReadyRead PROVE IInv'
  OBVIOUS
<1> DEFINE B == Len(buffer)
           S == Len(stream)
           N == Len(sent)
           r == Len(received)
           g == IF received = << >> THEN Len(glue) ELSE 0
           u == buffer \o stream
           L == Len(u)
           chunk(n) == SubSeq(stream, 1, n)
           text(n) == buffer \o chunk(n)
           rest(n) == SubSeq(stream, n + 1, Len(stream))
           line(t, k) ==
               SubSeq(t, IF k = 1 THEN 1 ELSE LineEnds(t)[k - 1] + 1, LineEnds(t)[k] - 1)
<1>1. PICK n \in DOMAIN stream :
         /\ stream' = rest(n)
         /\ buffer' = IF LineEnds(text(n)) = << >> THEN text(n)
                      ELSE SubSeq(text(n), LineEnds(text(n))[Len(LineEnds(text(n)))] + 1,
                                  Len(text(n)))
         /\ received' =
               received \o [k \in DOMAIN LineEnds(text(n)) |-> Message(line(text(n), k))]
         /\ UNCHANGED <<sent, glue>>
  BY DEF OnReadyRead
<1> DEFINE txt == text(n)
           T == Len(txt)
<1>2. /\ sent \in Seq(Entries) /\ stream \in Seq(Symbols) /\ buffer \in Seq(Symbols)
      /\ glue \in Seq(Symbols) /\ received \in Seq(Taken)
  BY DEF IInv, TypeInv
<1>3. B \in Nat /\ S \in Nat /\ N \in Nat /\ r \in Nat /\ g \in Nat /\ n \in 1 .. S
  BY <1>2
<1>4. r <= N /\ r \in 0 .. N
  BY <1>3 DEF IInv, ReceivedInv
<1>5. /\ chunk(n) \in Seq(Symbols) /\ Len(chunk(n)) = n
      /\ \A i \in 1 .. n : chunk(n)[i] = stream[i]
  <2>1. n \in 0 .. S
    BY <1>3
  <2> QED
    BY <1>2, <2>1, FrontOf
<1>6. /\ rest(n) \in Seq(Symbols) /\ Len(rest(n)) = S - n
      /\ \A i \in 1 .. S - n : rest(n)[i] = stream[n + i]
  <2>1. n \in 0 .. S
    BY <1>3
  <2> QED
    BY <1>2, <2>1, BackOf
<1>7. /\ u \in Seq(Symbols) /\ L = B + S
      /\ \A i \in 1 .. B : u[i] = buffer[i]
      /\ \A i \in 1 .. S : u[B + i] = stream[i]
  BY <1>2
<1> HIDE DEF chunk, rest
<1>8. /\ txt \in Seq(Symbols) /\ T = B + n
      /\ \A i \in 1 .. B : txt[i] = buffer[i]
      /\ \A i \in 1 .. n : txt[B + i] = chunk(n)[i]
  BY <1>2, <1>3, <1>5
<1>9. Framed(u, sent, r, g)
  BY DEF IInv, FramingInv
<1>10. stream' = rest(n) /\ sent' = sent /\ glue' = glue
  BY <1>1
<1>11. buffer' = IF LineEnds(txt) = << >> THEN txt
                 ELSE SubSeq(txt, LineEnds(txt)[Len(LineEnds(txt))] + 1, T)
  BY <1>1
<1>12. received' = received \o [k \in DOMAIN LineEnds(txt) |-> Message(line(txt, k))]
  BY <1>1
<1> HIDE DEF B, S, N, r, g, u, L, text, txt, T, line
<1>13. T \in Nat /\ T <= L /\ L \in Nat /\ L - T = S - n
  BY <1>3, <1>7, <1>8
<1>14. ASSUME NEW i \in 1 .. T
       PROVE  txt[i] = u[i]
  <2>1. CASE i \in 1 .. B
    BY <2>1, <1>7, <1>8
  <2>2. CASE i \notin 1 .. B
    <3>1. i - B \in 1 .. n /\ i - B \in 1 .. S /\ B + (i - B) = i
      BY <2>2, <1>3, <1>8
    <3>2. txt[i] = chunk(n)[i - B] /\ u[i] = stream[i - B]
      BY <3>1, <1>7, <1>8
    <3> QED
      BY <3>1, <3>2, <1>5
  <2> QED
    BY <2>1, <2>2
<1>15. ASSUME NEW i \in 1 .. L - T
       PROVE  rest(n)[i] = u[T + i]
  <2>1. i \in 1 .. S - n
    BY <1>13
  <2>3. n + i \in 1 .. S
    BY <1>3, <2>1
  <2>4. B + (n + i) = T + i
    BY <1>3, <1>8, <2>1
  <2>2. u[T + i] = stream[n + i]
    BY <2>3, <2>4, <1>7
  <2> QED
    BY <2>1, <2>2, <1>6
<1>16. PICK cut \in [r .. N -> Nat] : IsCut(u, sent, r, g, cut)
  BY <1>9 DEF Framed, N
<1>a. /\ r \in 0 .. Len(sent) /\ cut \in [r .. Len(sent) -> Nat] /\ Len(txt) <= Len(u)
      /\ \A i \in 1 .. Len(txt) : txt[i] = u[i]
  BY <1>4, <1>13, <1>14 DEF N, T, L
<1>b. sent \in Seq(Entries) /\ u \in Seq(Symbols) /\ txt \in Seq(Symbols)
  BY <1>2, <1>7, <1>8
<1>17. PICK m \in 0 .. N - r :
          /\ LineEnds(txt) = [k \in 1 .. m |-> cut[r + k]]
          /\ \A k \in r + 1 .. r + m : cut[k] <= T
          /\ \A i \in 1 .. T : txt[i] = Newline => \E k \in r + 1 .. r + m : cut[k] = i
  <2>1. \E m \in 0 .. Len(sent) - r : Complete(txt, r, cut, m)
    BY <1>16, <1>a, <1>b, FramedPrefix
  <2> QED
    BY <2>1 DEF Complete, N, T
<1>18. m \in Nat /\ r + m <= N
  BY <1>3
<1> DEFINE z == IF m = 0 THEN 0 ELSE cut[r + m]
<1>19. m > 0 => r + m \in r + 1 .. N /\ r + m \in r .. N /\ cut[r + m] \in Nat /\ cut[r + m] <= T
  BY <1>3, <1>17, <1>18
<1>20. z \in Nat /\ z <= T
  BY <1>13, <1>18, <1>19
<1>21. /\ LineEnds(txt) \in Seq(Nat) /\ DOMAIN LineEnds(txt) = 1 .. m /\ Len(LineEnds(txt)) = m
       /\ \A k \in 1 .. m : LineEnds(txt)[k] = cut[r + k]
  <2>1. \A k \in 1 .. m : cut[r + k] \in Nat
    <3>1. \A k \in 1 .. m : r + k \in r .. N
      BY <1>3, <1>18
    <3> QED
      BY <3>1
  <2>2. [k \in 1 .. m |-> cut[r + k]] \in Seq(Nat) /\ Len([k \in 1 .. m |-> cut[r + k]]) = m
    BY <1>18, <2>1
  <2> QED
    BY <1>17, <2>2
<1>22. buffer' \in Seq(Symbols) /\ Len(buffer') = T - z /\ \A i \in 1 .. T - z : buffer'[i] = txt[z + i]
  <2>1. CASE m = 0
    <3>1. LineEnds(txt) = << >>
      BY <2>1, <1>21
    <3>2. buffer' = txt /\ z = 0
      BY <2>1, <3>1, <1>11
    <3> QED
      BY <3>2, <1>8, <1>13 DEF T
  <2>2. CASE m # 0
    <3>1. LineEnds(txt) # << >> /\ m \in 1 .. m
      BY <2>2, <1>18, <1>21
    <3>2. LineEnds(txt)[m] = z
      BY <2>2, <3>1, <1>21
    <3>3. buffer' = SubSeq(txt, z + 1, T)
      BY <3>1, <3>2, <1>11, <1>21
    <3>4. z \in 0 .. T
      BY <1>13, <1>20
    <3> HIDE DEF z
    <3> QED
      BY <3>3, <3>4, <1>8, BackOf DEF T
  <2> QED
    BY <2>1, <2>2
<1> HIDE DEF z
<1> DEFINE v == buffer' \o stream'
<1>23. /\ v \in Seq(Symbols) /\ Len(v) = L - z
       /\ \A i \in 1 .. L - z : v[i] = u[z + i]
  <2>1. /\ v \in Seq(Symbols) /\ Len(v) = (T - z) + (S - n)
        /\ \A i \in 1 .. T - z : v[i] = buffer'[i]
        /\ \A i \in 1 .. S - n : v[(T - z) + i] = rest(n)[i]
    <3>1. /\ v \in Seq(Symbols) /\ Len(v) = Len(buffer') + Len(stream')
          /\ \A i \in 1 .. Len(buffer') : v[i] = buffer'[i]
          /\ \A i \in 1 .. Len(stream') : v[Len(buffer') + i] = stream'[i]
      <4>1. buffer' \in Seq(Symbols) /\ stream' \in Seq(Symbols)
        BY <1>6, <1>10, <1>22
      <4> QED
        BY <4>1, ConcatOf
    <3> HIDE DEF v
    <3> QED
      BY <3>1, <1>6, <1>10, <1>22
  <2> HIDE DEF v
  <2>2. Len(v) = L - z
    BY <2>1, <1>13, <1>20
  <2>3. ASSUME NEW i \in 1 .. L - z
        PROVE  v[i] = u[z + i]
    <3>1. CASE i \in 1 .. T - z
      <4>1. z + i \in 1 .. T
        BY <3>1, <1>13, <1>20
      <4> QED
        BY <3>1, <4>1, <2>1, <1>14, <1>22
    <3>2. CASE i \notin 1 .. T - z
      <4> DEFINE j == i - (T - z)
      <4>1. j \in 1 .. L - T /\ (T - z) + j = i /\ T + j = z + i
        BY <3>2, <1>13, <1>20
      <4> HIDE DEF j
      <4>2. j \in 1 .. S - n
        BY <4>1, <1>13
      <4>3. v[i] = rest(n)[j] /\ rest(n)[j] = u[T + j]
        BY <4>1, <4>2, <2>1, <1>15
      <4> QED
        BY <4>1, <4>3
    <3> QED
      BY <3>1, <3>2
  <2> QED
    BY <2>1, <2>2, <2>3
<1> HIDE DEF v
<1> DEFINE a(k) == IF k = 1 THEN 0 ELSE cut[r + k - 1]
           ln(k) == SubSeq(txt, a(k) + 1, cut[r + k] - 1)
<1>24. ASSUME NEW k \in 1 .. m
       PROVE  line(txt, k) = ln(k)
  <2>1. CASE k = 1
    <3>1. line(txt, k) = SubSeq(txt, 1, cut[r + k] - 1)
      BY <2>1, <1>21 DEF line
    <3>2. a(k) + 1 = 1
      BY <2>1
    <3> QED
      BY <3>1, <3>2
  <2>2. CASE k # 1
    <3>1. k - 1 \in 1 .. m /\ r + (k - 1) = r + k - 1
      BY <2>2, <1>3, <1>18
    <3>2. LineEnds(txt)[k - 1] = cut[r + k - 1] /\ LineEnds(txt)[k] = cut[r + k]
      BY <3>1, <1>21
    <3> QED
      BY <2>2, <3>2 DEF line
  <2> QED
    BY <2>1, <2>2
<1>25. ASSUME NEW k \in 1 .. m
       PROVE  /\ ln(k) \in Seq(Symbols)
              /\ IF r + k > 1 \/ glue = << >> THEN DecodeWireMessage(ln(k)) = sent[r + k].message
                 ELSE DecodeWireMessage(ln(k)) # Ack
  <2>1. /\ r + k \in r + 1 .. N /\ r + k \in r + 1 .. r + m
        /\ k \in Nat /\ k >= 1 /\ r + k - 1 \in r .. N
    BY <1>3, <1>18
  <2>2. cut[r + k] <= T /\ cut[r + k - 1] \in Nat
    BY <2>1, <1>17
  <2>3. cut[r] = g
    BY <1>16 DEF IsCut
  <2>4. CASE r + k > 1 \/ glue = << >>
    <3>1. a(k) = cut[r + k - 1]
      <4>1. CASE k # 1
        BY <4>1
      <4>2. CASE k = 1
        <5>1. r + k - 1 = r
          BY <4>2, <1>3
        <5>2. g = 0
          <6>1. CASE glue = << >>
            BY <6>1 DEF g
          <6>2. CASE r + k > 1
            <7>1. r # 0
              BY <4>2, <6>2, <1>3
            <7>2. received # << >>
              BY <7>1 DEF r
            <7> QED
              BY <7>2 DEF g
          <6> QED
            BY <2>4, <6>1, <6>2
        <5> QED
          BY <4>2, <5>1, <5>2, <2>3
      <4> QED
        BY <4>1, <4>2
    <3> HIDE DEF a
    <3>2. LET l == SubSeq(txt, cut[r + k - 1] + 1, cut[r + k] - 1)
          IN  l \in Seq(Symbols) /\ DecodeWireMessage(l) = sent[r + k].message
      <4> DEFINE s == r + k
      <4>1. s \in r + 1 .. Len(sent) /\ cut[s] <= Len(txt)
        BY <2>1, <2>2 DEF N, T
      <4>3. s = r + k /\ s - 1 = r + k - 1
        BY <1>3, <2>1
      <4> HIDE DEF s
      <4>2. LET l == SubSeq(txt, cut[s - 1] + 1, cut[s] - 1)
            IN  l \in Seq(Symbols) /\ DecodeWireMessage(l) = sent[s].message
        BY <1>16, <1>a, <1>b, <4>1, TakenLine
      <4> QED
        BY <4>2, <4>3
    <3> QED
      BY <2>4, <3>1, <3>2
  <2>5. CASE ~(r + k > 1 \/ glue = << >>)
    <3>1. r = 0 /\ k = 1
      BY <2>1, <2>5, <1>3
    <3>2. cut[r + k - 1] >= 1
      <4>1. r + k - 1 = r
        BY <3>1
      <4>2. received = << >> /\ glue # << >>
        BY <2>5, <3>1, <1>2 DEF r
      <4>3. Len(glue) >= 1
        BY <4>2, <1>2
      <4> QED
        BY <4>1, <4>2, <4>3, <2>3 DEF g
    <3>3. a(k) = 0 /\ 0 + 1 = 1
      BY <3>1
    <3> HIDE DEF a
    <3>4. LET l == SubSeq(txt, 1, cut[r + k] - 1)
          IN  l \in Seq(Symbols) /\ DecodeWireMessage(l) # Ack
      <4> DEFINE s == r + k
      <4>1. s \in r + 1 .. Len(sent) /\ cut[s] <= Len(txt)
        BY <2>1, <2>2 DEF N, T
      <4>3. s = r + k /\ s - 1 = r + k - 1
        BY <1>3, <2>1
      <4> HIDE DEF s
      <4>2. LET l == SubSeq(txt, 1, cut[s] - 1)
            IN  l \in Seq(Symbols) /\ DecodeWireMessage(l) # Ack
        BY <3>2, <1>16, <1>a, <1>b, <4>1, <4>3, TakenGlued
      <4> QED
        BY <4>2, <4>3
    <3> QED
      BY <2>5, <3>3, <3>4
  <2> QED
    BY <2>4, <2>5
<1> DEFINE taken == [k \in 1 .. m |-> Message(ln(k))]
<1>26. received' = received \o taken
  BY <1>12, <1>21, <1>24
<1>27. /\ taken \in Seq(Taken) /\ Len(taken) = m
       /\ \A k \in 1 .. m : taken[k].message = DecodeWireMessage(ln(k))
  <2> HIDE DEF ln
  <2>1. \A k \in 1 .. m : Message(ln(k)) \in Taken
    BY <1>25 DEF Taken
  <2>2. \A k \in 1 .. m : Message(ln(k)).message = DecodeWireMessage(ln(k))
    BY DEF Message
  <2> QED
    BY <1>18, <2>1, <2>2
<1> HIDE DEF taken, ln, a
<1>28. /\ received' \in Seq(Taken)
       /\ Len(received') = r + m
       /\ \A i \in 1 .. r : received'[i] = received[i]
       /\ \A k \in 1 .. m : received'[r + k] = taken[k]
  <2>1. /\ received \o taken \in Seq(Taken)
        /\ Len(received \o taken) = r + Len(taken)
        /\ \A i \in 1 .. r : (received \o taken)[i] = received[i]
        /\ \A k \in 1 .. Len(taken) : (received \o taken)[r + k] = taken[k]
    <3>1. /\ received \in Seq(Taken)
          /\ taken \in Seq(Taken)
      BY <1>2, <1>27
    <3> QED
      BY <3>1, ConcatOf DEF r
  <2> QED
    BY <2>1, <1>26, <1>27
<1>29. TypeInv'
  BY <1>2, <1>6, <1>10, <1>22, <1>28 DEF TypeInv
<1>30. BufferInv'
  <2> SUFFICES ASSUME NEW i \in 1 .. T - z, buffer'[i] = Newline
               PROVE  FALSE
    BY <1>22 DEF BufferInv
  <2>1. z + i \in 1 .. T /\ z + i > z
    BY <1>13, <1>20
  <2>2. txt[z + i] = Newline
    BY <1>22
  <2>3. PICK k \in r + 1 .. r + m : cut[k] = z + i
    BY <2>1, <2>2, <1>17
  <2>4. m # 0 /\ k \in r .. N /\ r + m \in r .. N /\ (k = r + m \/ k < r + m)
    BY <2>3, <1>3, <1>18
  <2>5. z = cut[r + m]
    BY <2>4 DEF z
  <2>6. k < r + m => cut[k] < cut[r + m]
    BY <2>4, <1>16 DEF IsCut, N
  <2> QED
    BY <2>1, <2>3, <2>4, <2>5, <2>6, <1>20
<1>31. FramingInv'
  <2>1. CASE m = 0
    <3>1. z = 0 /\ L - z = L
      BY <2>1, <1>13 DEF z
    <3>2. Len(v) = Len(u) /\ \A i \in 1 .. Len(u) : v[i] = u[i]
      BY <3>1, <1>13, <1>23 DEF L
    <3>3. v = u
      BY <3>2, <1>7, <1>23, SeqEqual
    <3>4. received' = received
      <4>1. Len(received') = Len(received)
        BY <2>1, <1>3, <1>28 DEF r
      <4> QED
        BY <4>1, <1>2, <1>28, SeqEqual DEF r
    <3> QED
      BY <3>3, <3>4, <1>9, <1>10 DEF FramingInv, v, r, g
  <2>2. CASE m # 0
    <3>1. r + m \in r + 1 .. N /\ z = cut[r + m] /\ r + m # 0
      BY <2>2, <1>3, <1>18 DEF z
    <3>2. Framed(v, sent, r + m, 0)
      BY <3>1, <1>2, <1>4, <1>7, <1>16, <1>23, FramedRest DEF N, L
    <3>3. received' # << >>
      BY <3>1, <1>28
    <3> QED
      BY <3>2, <3>3, <1>10, <1>28 DEF FramingInv, v
  <2> QED
    BY <2>1, <2>2
<1>32. ReceivedInv'
  <2>1. ASSUME NEW i \in 1 .. r + m
        PROVE  IF i > 1 \/ glue = << >> THEN received'[i].message = sent[i].message
               ELSE received'[i].message # Ack
    <3>1. CASE i \in 1 .. r
      BY <3>1, <1>28 DEF IInv, ReceivedInv, r
    <3>2. CASE i \notin 1 .. r
      <4>1. i - r \in 1 .. m /\ r + (i - r) = i
        BY <3>2, <1>3, <1>18
      <4>2. received'[i].message = DecodeWireMessage(ln(i - r))
        BY <4>1, <1>27, <1>28
      <4> QED
        BY <4>1, <4>2, <1>25
    <3> QED
      BY <3>1, <3>2
  <2> QED
    BY <2>1, <1>10, <1>18, <1>28 DEF ReceivedInv, N
<1> QED
  BY <1>29, <1>30, <1>31, <1>32 DEF IInv

\* The invariant holds in every reachable state.
THEOREM Invariance == Spec => []IInv
<1>1. IInv /\ UNCHANGED vars => IInv'
  BY DEF vars, IInv, TypeInv, BufferInv, FramingInv, ReceivedInv
<1>2. IInv /\ [Next]_vars => IInv'
  BY <1>1, WriteIInv, OnReadyReadIInv, ReconnectIInv DEF Next
<1> QED
  BY <1>2, InitIInv, PTL DEF Spec

\* Whatever chunks the stream comes in, the messages of a connection are taken as they
\* were sent, and none is left when all is read; what is glued to a fragment of an
\* earlier connection is never the text of an ACK.
THEOREM FramesKept == Spec => []FramesIntact
<1>1. IInv => FramesIntact
  <2> SUFFICES ASSUME IInv PROVE FramesIntact
    OBVIOUS
  <2> DEFINE r == Len(received)
             N == Len(sent)
             g == IF received = << >> THEN Len(glue) ELSE 0
             u == buffer \o stream
  <2>1. /\ sent \in Seq(Entries) /\ stream \in Seq(Symbols) /\ buffer \in Seq(Symbols)
        /\ glue \in Seq(Symbols) /\ received \in Seq(Taken)
    BY DEF IInv, TypeInv
  <2>2. r \in Nat /\ N \in Nat /\ r <= N /\ r \in 0 .. N
    BY <2>1 DEF IInv, ReceivedInv
  <2>3. \A i \in DOMAIN received :
           IF i > 1 \/ glue = << >> THEN received[i].message = sent[i].message
           ELSE received[i].message # Ack
    <3>1. DOMAIN received = 1 .. Len(received)
      BY <2>1
    <3> QED
      BY <3>1 DEF IInv, ReceivedInv
  <2>4. ASSUME stream = << >>
        PROVE  r = N /\ (sent # << >> => buffer = << >>)
    <3>1. u = buffer
      BY <2>1, <2>4
    <3>2. PICK cut \in [r .. N -> Nat] : IsCut(buffer, sent, r, g, cut)
      BY <3>1 DEF IInv, FramingInv, Framed
    <3>3. r = N
      <4> SUFFICES ASSUME r # N PROVE FALSE
        OBVIOUS
      <4>1. N \in r + 1 .. N
        BY <2>2
      <4>2. cut[N] \in 1 .. Len(buffer)
        BY <2>1, <2>2, <3>2, <4>1, CutBounds
      <4>3. buffer[cut[N]] = Newline
        BY <3>2, <4>1 DEF IsCut
      <4> QED
        BY <4>2, <4>3 DEF IInv, BufferInv
    <3>4. sent # << >> => buffer = << >>
      <4> SUFFICES ASSUME sent # << >> PROVE buffer = << >>
        OBVIOUS
      <4>1. N # 0
        BY <2>1
      <4>2. received # << >>
        BY <3>3, <4>1
      <4>3. cut[r] = 0 /\ cut[N] = Len(buffer)
        BY <3>2, <4>2 DEF IsCut
      <4> QED
        BY <2>1, <3>3, <4>3
    <3> QED
      BY <3>3, <3>4
  <2> QED
    BY <2>2, <2>3, <2>4 DEF FramesIntact
<1> QED
  BY <1>1, Invariance, PTL

\* What the client makes of a message depends on that message alone: neither the
\* chunks nor the messages around it change what an ACK names or an answer shows.
THEOREM ReadAsSent ==
    Spec => [](\A i \in DOMAIN received :
                  i > 1 \/ glue = << >> => received[i].read = Read(sent[i].message))
<1> DEFINE P == \A i \in DOMAIN received :
                   i > 1 \/ glue = << >> => received[i].read = Read(sent[i].message)
<1>1. IInv => P
  <2> SUFFICES ASSUME IInv, NEW i \in DOMAIN received, i > 1 \/ glue = << >>
               PROVE  received[i].read = Read(sent[i].message)
    OBVIOUS
  <2>1. received \in Seq(Taken)
    BY DEF IInv, TypeInv
  <2>2. i \in 1 .. Len(received) /\ received[i] \in Taken
    BY <2>1
  <2>3. PICK line \in Seq(Symbols) : received[i] = Message(line)
    BY <2>2 DEF Taken
  <2>4. received[i].read = Read(received[i].message)
    BY <2>3 DEF Message
  <2>5. received[i].message = sent[i].message
    BY <2>2 DEF IInv, ReceivedInv
  <2> QED
    BY <2>4, <2>5
<1> QED
  BY <1>1, Invariance, PTL
=============================================================================
