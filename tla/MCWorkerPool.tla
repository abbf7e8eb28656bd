---------------------------- MODULE MCWorkerPool ----------------------------
(* The worker pool for TLC: the constants are given in the .cfg files.    *)
EXTENDS WorkerPool
=============================================================================
