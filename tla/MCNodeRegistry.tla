--------------------------- MODULE MCNodeRegistry ---------------------------
(* Model checking instances of NodeRegistry: one unit of time is 5 s, so    *)
(* that heartbeat, check, expiry and limit stand to each other as in the    *)
(* code; a call to the store may take a unit.  One node is watched by       *)
(* another.  MCNodeRegistry.cfg: both may die and come back, and the        *)
(* watcher may be given a task.  MCRedisDeaths.cfg: Redis alone, one death. *)
EXTENDS NodeRegistry

=============================================================================
