--------------------------- MODULE MCSharedOutbox ---------------------------
(* TLC instances of SharedOutbox.                                          *)
EXTENDS SharedOutbox, TLC

ProcessSymmetry == Permutations(Processes)
=============================================================================
