--------------------------- MODULE MCUserAccounts ---------------------------
(* TLC instances of UserAccounts.                                          *)
EXTENDS UserAccounts
=============================================================================
