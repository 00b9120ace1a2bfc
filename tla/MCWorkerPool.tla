---------------------------- MODULE MCWorkerPool ----------------------------
(* Model-checking instance of WorkerPool: a small pool and a few requests.  *)
EXTENDS WorkerPool

CONSTANTS r1, r2, r3

\* Three requests: enough for two to sit in the queue while a third is taken.
MCRequests == {r1, r2, r3}
=============================================================================
