---------------------------- MODULE MCQueueLock ----------------------------
(* Model checking instance of QueueLock: three goroutines and one task, so  *)
(* that a reader, a remover and an adder can meet on one mutex.             *)
EXTENDS QueueLock

=============================================================================
