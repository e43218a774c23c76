-------------------------- MODULE MCHybridStorage --------------------------
(* Model checking instances of HybridStorage: three clients, so that a read *)
(* and a deletion can meet a write; stores that fail in MCHybridStorage.cfg,*)
(* stores that never do in MCHybridDelete.cfg.                              *)
EXTENDS HybridStorage

\* A status in the middle, the last one, and a number that is no status.
GivenStatuses == <<StatusFailed, StatusTimeout, StatusTimeout + 1>>
GivenPending == <<StatusPending>>

=============================================================================
