------------------------------ MODULE MCWireText ------------------------------
(***************************************************************************)
(* The node names and process lists that WireText is checked with.         *)
(***************************************************************************)
EXTENDS WireText

P(pid, name) == [pid |-> pid, name |-> name]

\* More processes than a snapshot takes, one of them with a negative pid.
Long ==
    [node |-> <<"a">>,
     processes |-> <<P("-1", <<"a">>), P("1", <<"a", Space, Backslash, "n">>), P("2", <<Quote>>)>>]

\* Names with a quotation mark, one of which looks like a key.
Quoted == [node |-> <<"a">>, processes |-> <<P("1", Key("pid")), P("2", <<Quote>>)>>]

\* A node whose name has a backslash, in front of a letter that QJsonDocument
\* takes for a newline, for itself, or for the begin of an escape it cannot read.
Domain(letter) == [node |-> <<Backslash, letter>>, processes |-> <<P("1", <<Backslash>>)>>]

Lists == {Long, Quoted, Domain("n"), Domain("a"), Domain("u")}
Negatives == {"-1"}
=============================================================================
