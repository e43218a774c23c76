--------------------------- MODULE MCSchedulerNode ---------------------------
(* Model checking instances of SchedulerNode.  MCSchedulerRestart.cfg: one  *)
(* task, a storage that may answer any write with an error, clients that    *)
(* update and delete the task, a process that dies once, and both kinds of  *)
(* queue.  MCSchedulerLoss.cfg: nothing fails but the process, once.        *)
EXTENDS SchedulerNode

==============================================================================
