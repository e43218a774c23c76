--------------------------- MODULE PriorityQueue ---------------------------
(****************************************************************************)
(* The contents of internal/queue/priority_queue.go: the binary heap        *)
(* pq.items, the Index kept in every item and pq.taskMap, as the callbacks  *)
(* Less, Swap, Push and Pop leave them, driven by container/heap.           *)
(*                                                                          *)
(* Each operation holds pq.mu for writing from its call to its return, so   *)
(* one is in progress at a time; its steps are the steps of the sift loops  *)
(* of container/heap.  The mutex, and the Len() that container/heap calls   *)
(* under it and that never returns, are the subject of QueueLock.tla.  Here *)
(* Len is what the heap algorithm needs it to be: the number of items.      *)
(****************************************************************************)
EXTENDS Integers

CONSTANTS
    Ids,         \* task ids
    Copies,      \* how many items with one id may be queued at a time
    Keys,        \* what Less looks at: priorities and creation times
    None         \* no item

ASSUME CopiesAssumption == Copies \in Nat \ {0}
ASSUME KeysAssumption == Keys \subseteq [priority : Int, created : Int]

\* A *TaskItem is an id and a copy number (see TaskQueue.tla).
Items == Ids \X (1..Copies)

ASSUME NoneAssumption == None \notin Items

VARIABLES
    size,     \* len(pq.items)
    items,    \* pq.items, from position 0 on
    key,      \* Priority and Task.CreatedAt of every queued item
    index,    \* Index of every item, -1 when it is not queued
    taskMap,  \* pq.taskMap
    op,       \* the operation in progress
    target,   \* the item a RemoveByID in progress is after, else None
    phase,    \* where container/heap stands in it
    at,       \* the position its sift loop has reached
    start,    \* the position its down loop started from
    limit     \* the n its down loop was given

content == <<size, items, key, index, taskMap>>
control == <<op, target, phase, at, start, limit>>
vars == <<content, control>>

OpNames == {"none", "Add", "Remove", "RemoveByID", "Update"}

\* The operation is in heap.down, in heap.up, about to call pq.Pop, or over.
Phases == {"idle", "down", "up", "pop"}

Positions == 0..(size - 1)

InHeap == {items[i] : i \in Positions}

\* The one type invariant.
TypeOK ==
    /\ size \in Nat
    /\ items \in [Positions -> Items]
    /\ key \in [InHeap -> Keys]
    /\ index \in [Items -> Positions \cup {-1}]
    /\ taskMap \in [Ids -> Items \cup {None}]
    /\ op \in OpNames
    /\ target \in Items \cup {None}
    /\ phase \in Phases
    /\ phase \in {"down", "up"} => at \in Positions
    /\ phase = "down" => start \in Positions /\ limit \in 0..size

------------------------------------------------------------------------------
(* The sort.Interface and heap.Interface callbacks.                         *)

\* Mutated Less: CreatedAt.After instead of CreatedAt.Before.
LessNewestFirst(i, j) ==
    LET a == key[items[i]]
        b == key[items[j]]
    IN  \/ a.priority > b.priority
        \/ a.priority = b.priority /\ a.created > b.created

\* Less: the item at i should run before the one at j.
Less(i, j) ==
    LET a == key[items[i]]
        b == key[items[j]]
    IN  \/ a.priority > b.priority
        \/ a.priority = b.priority /\ a.created < b.created

\* Mutated Swap: only one of the two Index fields is rewritten.
SwapForgetsIndex(i, j) ==
    /\ items' = [items EXCEPT ![i] = items[j], ![j] = items[i]]
    /\ index' = [index EXCEPT ![items[j]] = i]

\* Swap exchanges two positions and rewrites the Index of both items.
Swap(i, j) ==
    /\ items' = [items EXCEPT ![i] = items[j], ![j] = items[i]]
    /\ index' = [index EXCEPT ![items[j]] = i, ![items[i]] = j]

\* Mutated Push: the position is taken after the append.
PushLate(x, k) ==
    /\ size' = size + 1
    /\ items' = [i \in 0..size |-> IF i = size THEN x ELSE items[i]]
    /\ key' = [y \in InHeap \cup {x} |-> IF y = x THEN k ELSE key[y]]
    /\ index' = [index EXCEPT ![x] = size + 1]
    /\ taskMap' = [taskMap EXCEPT ![x[1]] = x]

\* Push appends the item and enters it in taskMap under its task's id.
Push(x, k) ==
    /\ size' = size + 1
    /\ items' = [i \in 0..size |-> IF i = size THEN x ELSE items[i]]
    /\ key' = [y \in InHeap \cup {x} |-> IF y = x THEN k ELSE key[y]]
    /\ index' = [index EXCEPT ![x] = size]
    /\ taskMap' = [taskMap EXCEPT ![x[1]] = x]

\* Mutated Pop: the item stays in taskMap.
PopKeepsMapEntry ==
    LET x == items[size - 1]
    IN  /\ size' = size - 1
        /\ items' = [i \in 0..(size - 2) |-> items[i]]
        /\ key' = [y \in InHeap \ {x} |-> key[y]]
        /\ index' = [index EXCEPT ![x] = -1]
        /\ UNCHANGED taskMap

\* Pop cuts the last item off and deletes its id from taskMap, whichever item
\* taskMap holds there.
Pop ==
    LET x == items[size - 1]
    IN  /\ size' = size - 1
        /\ items' = [i \in 0..(size - 2) |-> items[i]]
        /\ key' = [y \in InHeap \ {x} |-> key[y]]
        /\ index' = [index EXCEPT ![x] = -1]
        /\ taskMap' = [taskMap EXCEPT ![x[1]] = None]

------------------------------------------------------------------------------
(* The exported operations up to their first loop of container/heap.        *)

\* NewPriorityQueue; heap.Init has nothing to do on an empty slice.
Init ==
    /\ size = 0
    /\ items = [i \in 0..-1 |-> None]
    /\ key = [x \in {} |-> None]
    /\ index = [x \in Items |-> -1]
    /\ taskMap = [id \in Ids |-> None]
    /\ op = "none"
    /\ target = None
    /\ phase = "idle"
    /\ at = 0 /\ start = 0 /\ limit = 0

\* Add: heap.Push is pq.Push and up(h, h.Len()-1).  The new item is a
\* pointer that is not in use; which one does not matter, so the first.
Add(x, k) ==
    /\ phase = "idle"
    /\ x \notin InHeap
    /\ \A c \in 1..(x[2] - 1) : <<x[1], c>> \in InHeap
    /\ Push(x, k)
    /\ op' = "Add"
    /\ phase' = "up"
    /\ at' = size
    /\ UNCHANGED <<target, start, limit>>

\* Remove: heap.Pop is Swap(0, n), down(h, 0, n) with n = Len()-1, pq.Pop.
\* An empty queue returns nil.
Remove ==
    /\ phase = "idle"
    /\ size > 0
    /\ Swap(0, size - 1)
    /\ op' = "Remove"
    /\ phase' = "down"
    /\ at' = 0 /\ start' = 0 /\ limit' = size - 1
    /\ UNCHANGED <<size, key, taskMap, target>>

\* RemoveByID: heap.Remove(pq, item.Index) swaps the item to the end, unless
\* it is there already, and repairs the heap below and above its place.
RemoveByID(id) ==
    /\ phase = "idle"
    /\ taskMap[id] # None
    /\ op' = "RemoveByID"
    /\ target' = taskMap[id]
    /\ LET i == index[taskMap[id]]
       IN  \/ /\ i # size - 1
              /\ Swap(i, size - 1)
              /\ phase' = "down"
              /\ at' = i /\ start' = i /\ limit' = size - 1
           \/ /\ i = size - 1
              /\ phase' = "pop"
              /\ UNCHANGED <<items, index, at, start, limit>>
    /\ UNCHANGED <<size, key, taskMap>>

\* Mutated Update: the item gets its new task but the heap is not repaired.
UpdateWithoutFix(id, k) ==
    /\ phase = "idle"
    /\ taskMap[id] # None
    /\ key' = [key EXCEPT ![taskMap[id]] = k]
    /\ UNCHANGED <<size, items, index, taskMap, control>>

\* Update gives the item a new task and calls heap.Fix: down, else up.
Update(id, k) ==
    /\ phase = "idle"
    /\ taskMap[id] # None
    /\ key' = [key EXCEPT ![taskMap[id]] = k]
    /\ op' = "Update"
    /\ phase' = "down"
    /\ LET i == index[taskMap[id]]
       IN  at' = i /\ start' = i /\ limit' = size
    /\ UNCHANGED <<size, items, index, taskMap, target>>

\* Clear starts from fresh containers.
Clear ==
    /\ phase = "idle"
    /\ size' = 0
    /\ items' = [i \in 0..-1 |-> None]
    /\ index' = [x \in Items |-> -1]
    /\ taskMap' = [id \in Ids |-> None]
    /\ key' = [x \in {} |-> None]
    /\ UNCHANGED control

\* Get peeks at the root, GetByID looks the id up.
Get == IF size = 0 THEN None ELSE items[0]
GetByID(id) == taskMap[id]

------------------------------------------------------------------------------
(* The loops of container/heap.                                             *)

Parent(j) == (j - 1) \div 2
Left(i) == 2 * i + 1
Right(i) == 2 * i + 2

\* The child that down compares with: the left one unless the right one is
\* inside the limit and runs before it.
ForemostChild(i) ==
    IF Right(i) < limit /\ Less(Right(i), Left(i)) THEN Right(i) ELSE Left(i)

\* down goes on as long as a child runs before its parent.
DownGoesOn == Left(at) < limit /\ Less(ForemostChild(at), at)

DownSwap ==
    /\ phase = "down"
    /\ DownGoesOn
    /\ Swap(at, ForemostChild(at))
    /\ at' = ForemostChild(at)
    /\ UNCHANGED <<size, key, taskMap, op, target, phase, start, limit>>

\* The call returns.
Return ==
    /\ op' = "none" /\ target' = None
    /\ phase' = "idle" /\ at' = 0 /\ start' = 0 /\ limit' = 0

\* The loops are over: Remove and RemoveByID have pq.Pop left to do.
AfterSift ==
    \/ /\ op \in {"Remove", "RemoveByID"}
       /\ phase' = "pop" /\ at' = 0 /\ start' = 0 /\ limit' = 0
       /\ UNCHANGED <<op, target>>
    \/ /\ op \in {"Add", "Update"}
       /\ Return

\* down reports whether it moved; heap.Remove and heap.Fix call up if it did
\* not, heap.Pop ignores it.
DownStop ==
    /\ phase = "down"
    /\ ~DownGoesOn
    /\ \/ /\ at = start /\ op # "Remove"
          /\ phase' = "up" /\ start' = 0 /\ limit' = 0
          /\ UNCHANGED <<op, target, at>>
       \/ /\ at > start \/ op = "Remove"
          /\ AfterSift
    /\ UNCHANGED content

\* up goes on until the root, or until the parent does not run after the item.
UpGoesOn == at > 0 /\ Less(at, Parent(at))

UpSwap ==
    /\ phase = "up"
    /\ UpGoesOn
    /\ Swap(Parent(at), at)
    /\ at' = Parent(at)
    /\ UNCHANGED <<size, key, taskMap, op, target, phase, start, limit>>

UpStop ==
    /\ phase = "up"
    /\ ~UpGoesOn
    /\ AfterSift
    /\ UNCHANGED content

PopLast ==
    /\ phase = "pop"
    /\ Pop
    /\ Return

Sift == DownSwap \/ DownStop \/ UpSwap \/ UpStop \/ PopLast

Next ==
    \/ \E x \in Items, k \in Keys : Add(x, k)
    \/ Remove
    \/ \E id \in Ids : RemoveByID(id)
    \/ \E id \in Ids, k \in Keys : Update(id, k)
    \/ Clear
    \/ Sift

Spec == Init /\ [][Next]_vars

------------------------------------------------------------------------------

\* Between operations no item runs before its parent in the tree: what every
\* answer of Get and Remove (priority_queue.go:82-103) rests on.
HeapOrder ==
    phase = "idle" => \A j \in Positions \ {0} : ~Less(j, Parent(j))

\* The Index that RemoveByID and Update pass to container/heap
\* (priority_queue.go:120, 133) is where the item is, after any sequence of
\* pushes, swaps and pops, and no item is in two places.
IndexAgrees ==
    /\ \A i \in Positions : index[items[i]] = i
    /\ \A x \in Items \ InHeap : index[x] = -1

\* taskMap never holds an item that has left the heap or that carries another
\* id, even when an id is queued twice and Pop deletes the entry of the copy
\* that stays: no lookup can pass an Index of -1 to container/heap.
MapPointsIntoHeap ==
    phase = "idle" => \A id \in Ids :
        GetByID(id) # None => GetByID(id) \in InHeap /\ GetByID(id)[1] = id

\* What TaskQueue promises, under the mapping that forgets the tree.
Abstract == INSTANCE TaskQueue WITH queued <- InHeap

\* Every operation of the heap does what the queue promises: Remove returns
\* an item no other should run before, RemoveByID the item it looked up.
ImplementsTaskQueue == Abstract!Spec

\* Get shows what Remove would take (priority_queue.go:82-91).
GetShowsForemost ==
    phase = "idle" /\ size > 0 => Get \in Abstract!Foremost(InHeap, key)

=============================================================================
