---------------------------- MODULE MCWorkerPool ----------------------------
(* Model checking instance of WorkerPool: two workers, and three structs of *)
(* one task, so that two can be worked on at once while one is queued.      *)
EXTENDS WorkerPool

=============================================================================
