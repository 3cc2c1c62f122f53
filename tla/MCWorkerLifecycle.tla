------------------------- MODULE MCWorkerLifecycle -------------------------
(* TLC instances of WorkerLifecycle: the bounds are given in the .cfg.     *)
EXTENDS WorkerLifecycle
=============================================================================
