---------------------------- MODULE MCOutboxSync ----------------------------
(* TLC instances of OutboxSync: the bounds are given in the .cfg files.    *)
EXTENDS OutboxSync
=============================================================================
