----------------------------- MODULE MCWorkerPool -----------------------------
(* TLC instance of WorkerPool, and with it of ConnectionManager.            *)
EXTENDS WorkerPool

CONSTANTS c1, c2, k1, k2, m1
=============================================================================
