-------------------------- MODULE SnapshotDelivery --------------------------
(***************************************************************************)
(* What store-and-forward of metric snapshots promises, without outbox     *)
(* rows, sockets or acknowledgements: snapshots are accepted in the order  *)
(* they were collected, each is stored (any number of times) or refused by *)
(* the server, and the client lets go of a snapshot only when it is the    *)
(* oldest one it still holds and the server has dealt with it.             *)
(*                                                                         *)
(* OutboxSync implements this specification.                               *)
(***************************************************************************)
EXTENDS Naturals

VARIABLES
    accepted,   \* how many snapshots the client has accepted, numbered 1, 2, ...
    held,       \* the snapshots the client still holds
    stored,     \* the snapshots in the server's metrics table
    refused     \* the snapshots whose insertion failed at the server

vars == <<accepted, held, stored, refused>>

Init ==
    /\ accepted = 0
    /\ held = {}
    /\ stored = {}
    /\ refused = {}

\* The client takes in the next snapshot and holds it.
Accept ==
    /\ accepted' = accepted + 1
    /\ held' = held \cup {accepted + 1}
    /\ UNCHANGED <<stored, refused>>

\* The server stores a snapshot.  A late copy may be stored after the client
\* has let the snapshot go.
Store(s) ==
    /\ stored' = stored \cup {s}
    /\ UNCHANGED <<accepted, held, refused>>

\* The server fails to store a snapshot, and the failure is final for this copy.
Refuse(s) ==
    /\ refused' = refused \cup {s}
    /\ UNCHANGED <<accepted, held, stored>>

\* The client lets go of the oldest snapshot it holds.
Release(s) ==
    /\ s \in held
    /\ \A t \in held : s <= t
    /\ s \in stored \cup refused
    /\ held' = held \ {s}
    /\ UNCHANGED <<accepted, stored, refused>>

Next ==
    \/ Accept
    \/ \E s \in 1 .. accepted : Store(s) \/ Refuse(s) \/ Release(s)

Spec == Init /\ [][Next]_vars
=============================================================================
