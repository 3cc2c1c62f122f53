------------------------------- MODULE WireText -------------------------------
(***************************************************************************)
(* The text between server and client: lines of a type, a space and a      *)
(* payload, read from chunks that may end anywhere, and the process list   *)
(* of a node, which becomes text three times before an administrator sees  *)
(* it: METRICS line, column of the table, answer, the last two by hand.    *)
(*                                                                         *)
(* A text is a sequence of symbols: a character that a reader looks for, a *)
(* key, a number or a letter.  Of a snapshot the node's name and the       *)
(* processes are kept, of the server's messages the ACK and the answer to  *)
(* GET_METRICS.  Names have no newline: no escaping in the code is about   *)
(* one.  Definitions named Bad... are plausible mistakes in the definition *)
(* that follows them, and no specification uses them.                      *)
(***************************************************************************)
EXTENDS Naturals, FiniteSets, Sequences, SequencesExt

CONSTANTS
    Collected,     \* the node names and process lists that are asked for
    NegativePids,  \* the pids, of those in Collected, that are negative
    MaxProcesses,  \* processes in a snapshot: 50 in the code
    MaxMessages,   \* bound: messages of the server
    MaxConnections, \* bound: connections
    MaxChunk,      \* bound: symbols that are read at once
    Unreadable     \* what QJsonDocument makes of a text that is no JSON

VARIABLES
    sent,      \* what the server sent on this connection
    stream,    \* of that, the text which has not been read
    buffer,    \* m_buffer of ClientChannel
    received,  \* lines taken from m_buffer on this connection, decoded and read
    glue,      \* m_buffer when this connection was made
    written,   \* messages of the server so far
    made       \* connections so far

vars == <<sent, stream, buffer, received, glue, written, made>>

Quote == "quote"
Backslash == "backslash"
Space == "space"
Newline == "newline"

Init ==
    /\ sent = << >>
    /\ stream = << >>
    /\ buffer = << >>
    /\ received = << >>
    /\ glue = << >>
    /\ written = 0
    /\ made = 1

-----------------------------------------------------------------------------
(* JSON.                                                                   *)

\* A name in toJson's text and in the column of insertSnapshot.
Escaped(name) ==
    FlattenSeq([i \in DOMAIN name |->
        IF name[i] \in {Quote, Backslash} THEN <<Backslash, name[i]>> ELSE <<name[i]>>])

Joined(texts) ==
    FlattenSeq([i \in DOMAIN texts |-> IF i = 1 THEN texts[i] ELSE <<",">> \o texts[i]])

Key(key) == <<Quote, key, Quote, ":">>
String(name) == <<Quote>> \o name \o <<Quote>>

\* A list of processes, with the names as they are.
ListText(list) ==
    <<"[">>
    \o Joined([i \in DOMAIN list |->
        <<"{">> \o Key("pid") \o <<list[i].pid, ",">>
        \o Key("name") \o String(list[i].name) \o <<"}">>])
    \o <<"]">>

\* A snapshot, with the names as they are.
SnapshotText(snapshot) ==
    <<"{">> \o Key("nodeName") \o String(snapshot.node) \o <<",">>
    \o Key("processes") \o ListText(snapshot.processes) \o <<"}">>

EscapedList(list) ==
    [i \in DOMAIN list |-> [list[i] EXCEPT !.name = Escaped(@)]]

\* collectProcesses takes the first processes the system names.
Limited(list) == SubSeq(list, 1, IF Len(list) < MaxProcesses THEN Len(list) ELSE MaxProcesses)

\* toJson; the order of the keys plays no part.
ToJson(snapshot) ==
    SnapshotText([node |-> Escaped(snapshot.node), processes |-> EscapedList(snapshot.processes)])

\* What QJsonDocument makes of the next symbol: a string goes on to the next
\* quotation mark without a backslash before it.  Behind a backslash, an n is a
\* newline, a u is an error, for no four digits follow it in these texts, and any
\* other symbol is itself.  read_json knows fewer escapes, and meets only toJson's.
Scan(state, symbol) ==
    CASE state.mode = "outside" /\ symbol = Quote ->
            [state EXCEPT !.mode = "string", !.text = << >>]
      [] state.mode = "outside" /\ symbol # Quote ->
            [state EXCEPT !.tokens = Append(@, [kind |-> "sign", text |-> <<symbol>>])]
      [] state.mode = "string" /\ symbol = Quote ->
            [state EXCEPT !.mode = "outside",
                          !.tokens = Append(@, [kind |-> "string", text |-> state.text])]
      [] state.mode = "string" /\ symbol = Backslash -> [state EXCEPT !.mode = "escape"]
      [] state.mode = "string" /\ symbol \notin {Quote, Backslash} ->
            [state EXCEPT !.text = Append(@, symbol)]
      [] state.mode = "escape" /\ symbol # "u" ->
            [state EXCEPT !.mode = "string",
                          !.text = Append(@, IF symbol = "n" THEN Newline ELSE symbol)]
      [] OTHER -> [state EXCEPT !.mode = "error"]

Tokens(text) ==
    LET scanned[i \in 0 .. Len(text)] ==
            IF i = 0 THEN [mode |-> "outside", text |-> << >>, tokens |-> << >>]
            ELSE Scan(scanned[i - 1], text[i])
        end == scanned[Len(text)]
    IN  IF end.mode = "outside" THEN end.tokens ELSE << >>

\* QJsonDocument::fromJson and read_json, of a snapshot.  Its tokens are those
\* of some snapshot: 9 around a list and 10 for each process.
FromJson(text) ==
    LET tokens == Tokens(text)
        processes ==
            [i \in 1 .. (Len(tokens) - 9) \div 10 |->
                [pid |-> tokens[10 * i + 2].text[1], name |-> tokens[10 * i + 6].text]]
        snapshot == [node |-> tokens[4].text, processes |-> processes]
    IN  IF Len(tokens) >= 10 /\ tokens = Tokens(ToJson(snapshot)) THEN snapshot ELSE Unreadable

-----------------------------------------------------------------------------
(* The column processes_json of the metrics table.                         *)

\* Where symbols stands in text, from position from on; behind it if nowhere.
Find(text, symbols, from) ==
    LET here == {i \in from .. Len(text) + 1 - Len(symbols) :
                    SubSeq(text, i, i + Len(symbols) - 1) = symbols}
    IN  IF here = {} THEN Len(text) + 1 ELSE CHOOSE i \in here : \A j \in here : i <= j

\* A name of the column ends at the next quotation mark.
ColumnName(text, from) == SubSeq(text, from, Find(text, <<Quote>>, from) - 1)

\* getLatestSnapshotForNode: a pid is made of digits; escapes stay as they are.
FromColumn(text) ==
    LET pids == {i \in DOMAIN text : i > 4 /\ SubSeq(text, i - 4, i - 1) = Key("pid")}
        taken == SetToSortSeq({i \in pids : text[i] \notin NegativePids}, <)
        nameAt(i) == Find(text, Key("name") \o <<Quote>>, i) + 5
    IN  [k \in DOMAIN taken |->
            [pid |-> text[taken[k]], name |-> ColumnName(text, nameAt(taken[k]))]]

\* What insertSnapshot keeps of a METRICS line.
Stored(snapshot) == ListText(EscapedList(FromJson(ToJson(snapshot)).processes))

\* Every name is escaped, as insertSnapshot does.
BadBuildMetricsJson(snapshot) == ToJson(snapshot)

\* buildMetricsJson: no name is escaped.
BuildMetricsJson(snapshot) == SnapshotText(snapshot)

\* handleGetMetrics, of the snapshot the node collected last.
Answer ==
    [collected \in Collected |->
        LET snapshot == [collected EXCEPT !.processes = Limited(@)]
        IN  BuildMetricsJson([snapshot EXCEPT !.processes = FromColumn(Stored(snapshot))])]

\* No answer has a newline: names have none, and no conversion makes one, for toJson
\* escapes a backslash before an n could be read behind it.
ASSUME AnswersAreLines ==
    \A collected \in Collected : Answer[collected] \in Seq(Range(Answer[collected]) \ {Newline})

-----------------------------------------------------------------------------
(* Lines.                                                                  *)

Ack == [type |-> <<"ACK">>, payload |-> <<"{">> \o Key("localId") \o <<"1", "}">>]
MetricsRespType == <<"GET_METRICS", "_RESP">>
MetricsResp(collected) == [type |-> MetricsRespType, payload |-> Answer[collected]]

EncodeWireMessage(message) == message.type \o <<Space>> \o message.payload \o <<Newline>>

NoMessage == [type |-> << >>, payload |-> << >>]

\* decodeWireMessage: the first space ends the type; without a type there is
\* no message.  No payload ends in the carriage returns that it takes off.
DecodeWireMessage(line) ==
    LET at == Find(line, <<Space>>, 1)
    IN  IF at \in {1, Len(line) + 1} THEN NoMessage
        ELSE [type |-> SubSeq(line, 1, at - 1), payload |-> SubSeq(line, at + 1, Len(line))]

\* sendMessage and doWrite.
Write ==
    /\ written < MaxMessages
    /\ written' = written + 1
    /\ \/ /\ sent' = Append(sent, [message |-> Ack, of |-> << >>])
          /\ stream' = stream \o EncodeWireMessage(Ack)
       \/ \E collected \in Collected :
            LET message == MetricsResp(collected)
            IN  /\ sent' = Append(sent, [message |-> message, of |-> <<collected>>])
                /\ stream' = stream \o EncodeWireMessage(message)
    /\ UNCHANGED <<buffer, received, glue, made>>

\* The localId of a payload; what has none, or is no JSON, gives 0, which erases no row.
LocalId(payload) == IF Tokens(payload) = Tokens(Ack.payload) THEN <<"1">> ELSE <<"0">>

\* What the client makes of a message: the localId of whatever has the type of an
\* ACK, the snapshot of an answer; other types are ignored, and a line that is no
\* message is passed over.
Read(message) ==
    CASE message.type = Ack.type -> LocalId(message.payload)
      [] message.type = MetricsRespType -> FromJson(message.payload)
      [] OTHER -> Unreadable

\* onReadyRead and onMessageReceived, of a line.
Message(line) ==
    LET decoded == DecodeWireMessage(line) IN [message |-> decoded, read |-> Read(decoded)]

\* Where the lines of a text end, from the first to the last.
LineEnds(text) ==
    LET ends == {i \in DOMAIN text : text[i] = Newline}
    IN  [k \in 1 .. Cardinality(ends) |->
            CHOOSE i \in ends : Cardinality({j \in ends : j <= i}) = k]

\* The chunk is taken for one line, and what is behind it is dropped.
BadOnReadyRead ==
    \E n \in DOMAIN stream \cap 1 .. MaxChunk :
        LET text == buffer \o SubSeq(stream, 1, n)
            ends == LineEnds(text)
        IN  /\ stream' = SubSeq(stream, n + 1, Len(stream))
            /\ buffer' = IF ends = << >> THEN text ELSE << >>
            /\ received' =
                  IF ends = << >> THEN received
                  ELSE Append(received, Message(SubSeq(text, 1, ends[1] - 1)))
            /\ UNCHANGED <<sent, glue, written, made>>

\* onReadyRead: every line that is complete is taken, the rest is kept.
OnReadyRead ==
    \E n \in DOMAIN stream \cap 1 .. MaxChunk :
        LET text == buffer \o SubSeq(stream, 1, n)
            ends == LineEnds(text)
            line(k) == SubSeq(text, IF k = 1 THEN 1 ELSE ends[k - 1] + 1, ends[k] - 1)
        IN  /\ stream' = SubSeq(stream, n + 1, Len(stream))
            /\ buffer' = IF ends = << >> THEN text
                         ELSE SubSeq(text, ends[Len(ends)] + 1, Len(text))
            /\ received' = received \o [k \in DOMAIN ends |-> Message(line(k))]
            /\ UNCHANGED <<sent, glue, written, made>>

\* The connection ends and another is made: m_buffer is not cleared.
Reconnect ==
    /\ made < MaxConnections
    /\ made' = made + 1
    /\ sent' = << >>
    /\ stream' = << >>
    /\ received' = << >>
    /\ glue' = buffer
    /\ UNCHANGED <<buffer, written>>

Next == Write \/ OnReadyRead \/ Reconnect

Spec == Init /\ [][Next]_vars

-----------------------------------------------------------------------------
(* Properties.                                                             *)

\* Wherever the chunks end, the client takes the messages that were sent, each
\* once and in their order, and none is left when all is read.  Only the first
\* message of a connection is lost when m_buffer held a fragment of an earlier
\* one, and what the two make together is never the text of an ACK.
FramesIntact ==
    /\ Len(received) <= Len(sent)
    /\ stream = << >> => Len(received) = Len(sent) /\ (sent # << >> => buffer = << >>)
    /\ \A i \in DOMAIN received :
          IF i > 1 \/ glue = << >> THEN received[i].message = sent[i].message
          ELSE received[i].message # Ack

\* Processes whose names have no quotation mark, but perhaps spaces and
\* backslashes, are shown as they were collected, but those with a negative pid:
\* a name is escaped by two of the six conversions on its way and unescaped by
\* two others.  What cannot be read back, and a message behind a fragment of
\* another, is shown as nothing, never as another list of processes; where the
\* two look like an ACK, it names no row of the outbox that could be erased.
ShownAsCollected ==
    \A i \in DOMAIN received :
        IF i = 1 /\ glue # << >>
        THEN received[i].read = IF received[i].message.type = Ack.type THEN <<"0">> ELSE Unreadable
        ELSE sent[i].of # << >> =>
            LET collected == sent[i].of[1]
                shown == received[i].read
                list == SelectSeq(Limited(collected.processes),
                                  LAMBDA p : p.pid \notin NegativePids)
                quoted == \E k \in DOMAIN list : Contains(list[k].name, Quote)
            IN  /\ shown # Unreadable => ~quoted /\ shown.processes = list
                /\ ~Contains(collected.node, Quote) /\ ~Contains(collected.node, Backslash) =>
                      IF quoted THEN shown = Unreadable ELSE shown.node = collected.node
=============================================================================
