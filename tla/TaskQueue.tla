----------------------------- MODULE TaskQueue -----------------------------
(****************************************************************************)
(* What internal/queue promises its callers: a collection of tasks from     *)
(* which Remove takes one that no other task should run before.             *)
(*                                                                          *)
(* An operation takes effect at some instant between its call and its       *)
(* return; at most one is in progress, the caller holding pq.mu.            *)
(****************************************************************************)
EXTENDS Integers

CONSTANTS
    Ids,         \* task ids
    Copies,      \* how many items with one id may be queued at a time
    Keys,        \* what Less looks at: priorities and creation times
    None         \* no item

\* A *TaskItem.  An id may be queued more than once (recovery and
\* reassignment add tasks without looking), so the pointer is an id and a
\* copy number.
Items == Ids \X (1..Copies)

VARIABLES
    queued,  \* the items in the queue
    key,     \* the sort key of every queued item
    op,      \* the operation in progress, "none" if there is none
    target   \* the item a RemoveByID in progress is after, else None

vars == <<queued, key, op, target>>

\* Higher priority first; the older task first among equals.
Before(a, b) ==
    \/ a.priority > b.priority
    \/ a.priority = b.priority /\ a.created < b.created

\* The queued items that may run next.
Foremost(Q, k) == {x \in Q : \A y \in Q : ~Before(k[y], k[x])}

Init ==
    /\ queued = {}
    /\ key = [x \in {} |-> None]
    /\ op = "none"
    /\ target = None

Add(x, k) ==
    /\ op = "none"
    /\ x \notin queued
    /\ queued' = queued \cup {x}
    /\ key' = [y \in queued' |-> IF y = x THEN k ELSE key[y]]
    /\ op' = "Add"
    /\ UNCHANGED target

Update(x, k) ==
    /\ op = "none"
    /\ x \in queued
    /\ key' = [key EXCEPT ![x] = k]
    /\ op' = "Update"
    /\ UNCHANGED <<queued, target>>

CallRemove ==
    /\ op = "none"
    /\ queued # {}
    /\ op' = "Remove"
    /\ UNCHANGED <<queued, key, target>>

\* The heart of the promise: Remove takes a foremost item.
Take(x) ==
    /\ op = "Remove"
    /\ x \in Foremost(queued, key)
    /\ queued' = queued \ {x}
    /\ key' = [y \in queued' |-> key[y]]
    /\ op' = "none"
    /\ UNCHANGED target

CallRemoveByID(x) ==
    /\ op = "none"
    /\ x \in queued
    /\ op' = "RemoveByID"
    /\ target' = x
    /\ UNCHANGED <<queued, key>>

\* RemoveByID takes the item it was called for and no other.
Drop ==
    /\ op = "RemoveByID"
    /\ queued' = queued \ {target}
    /\ key' = [y \in queued' |-> key[y]]
    /\ op' = "none"
    /\ target' = None

Return ==
    /\ op \in {"Add", "Update"}
    /\ op' = "none"
    /\ UNCHANGED <<queued, key, target>>

Clear ==
    /\ op = "none"
    /\ queued' = {}
    /\ key' = [x \in {} |-> None]
    /\ UNCHANGED <<op, target>>

Finish == Return \/ Drop \/ \E x \in Items : Take(x)

Next ==
    \/ \E x \in Items, k \in Keys : Add(x, k) \/ Update(x, k)
    \/ \E x \in Items : CallRemoveByID(x)
    \/ CallRemove
    \/ Clear
    \/ Finish

Spec == Init /\ [][Next]_vars

=============================================================================
