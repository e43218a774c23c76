--------------------------- MODULE MCPriorityQueue ---------------------------
(* Model checking instance of PriorityQueue: three ids that may be queued   *)
(* twice each, two priorities and a tie that CreatedAt has to break.  Six   *)
(* items are the fewest for which heap.Remove has to sift upwards.          *)
EXTENDS PriorityQueue, TLC

Key(p, t) == [priority |-> p, created |-> t]

IdSymmetry == Permutations(Ids)

MCKeys == {Key(0, 0), Key(0, 1), Key(1, 0)}

==============================================================================
