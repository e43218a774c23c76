------------------------------ MODULE QueueLock ------------------------------
(****************************************************************************)
(* The locking of internal/queue/priority_queue.go.                         *)
(*                                                                          *)
(* Every exported method of PriorityQueue takes pq.mu, a sync.RWMutex, and  *)
(* releases it when it returns.  The methods that change the heap hold it   *)
(* for writing while they call container/heap, and container/heap calls     *)
(* back into pq.Len(), which takes pq.mu again, for reading.  This module   *)
(* models the mutex, the calls in progress on it, and of the contents only  *)
(* the set of queued tasks; PriorityQueue.tla models the heap itself.       *)
(****************************************************************************)
CONSTANTS
    Procs,   \* goroutines that share the queue
    Tasks,   \* task ids
    None     \* no goroutine

ASSUME NoneAssumption == None \notin Procs

VARIABLES
    writer,   \* the goroutine inside mu.Lock() or holding it, else None
    readers,  \* the goroutines that hold mu.RLock()
    pc,       \* where each goroutine stands in its call
    call,     \* the method it is in, and the task it was given
    items     \* the tasks in pq.items

vars == <<writer, readers, pc, call, items>>

Mutators == {"Add", "Remove", "RemoveByID", "Update", "Clear"}

\* Len, Get, GetByID, GetAll and GetStats: RLock, read, RUnlock.
ReadCalls == {"Read"}

\* "lock": waiting for other writers;  "drain": announced, waiting for readers;
\* "crit": holds the write lock;  "rlock": waiting in RLock, either in a read
\* method or in the pq.Len() that container/heap calls under the write lock;
\* "read": holds a read lock;  "unlock": at the deferred mu.Unlock().
Locations == {"idle", "lock", "drain", "crit", "rlock", "read", "unlock"}

\* The one type invariant.
TypeOK ==
    /\ writer \in Procs \cup {None}
    /\ readers \in SUBSET Procs
    /\ pc \in [Procs -> Locations]
    /\ call \in [Procs -> [op : Mutators \cup ReadCalls, task : Tasks]]
    /\ items \in SUBSET Tasks

------------------------------------------------------------------------------

\* NewPriorityQueue: heap.Init calls Len before anybody shares the queue.
Init ==
    /\ writer = None
    /\ readers = {}
    /\ pc = [p \in Procs |-> "idle"]
    /\ call \in [Procs -> [op : ReadCalls, task : Tasks]]
    /\ items = {}

\* Mutated Call: the mutators forget pq.mu.Lock().
CallWithoutLock(p, op, t) ==
    /\ pc[p] = "idle"
    /\ call' = [call EXCEPT ![p] = [op |-> op, task |-> t]]
    /\ pc' = [pc EXCEPT ![p] = IF op \in Mutators THEN "crit" ELSE "rlock"]
    /\ UNCHANGED <<writer, readers, items>>

\* A goroutine calls a method; the first thing each does is Lock or RLock.
Call(p, op, t) ==
    /\ pc[p] = "idle"
    /\ call' = [call EXCEPT ![p] = [op |-> op, task |-> t]]
    /\ pc' = [pc EXCEPT ![p] = IF op \in Mutators THEN "lock" ELSE "rlock"]
    /\ UNCHANGED <<writer, readers, items>>

\* sync.RWMutex.Lock: exclude other writers and, from now on, new readers ...
AnnounceLock(p) ==
    /\ pc[p] = "lock"
    /\ writer = None
    /\ writer' = p
    /\ pc' = [pc EXCEPT ![p] = "drain"]
    /\ UNCHANGED <<readers, call, items>>

\* ... then wait for the readers that are already in.
AcquireLock(p) ==
    /\ pc[p] = "drain"
    /\ readers = {}
    /\ pc' = [pc EXCEPT ![p] = "crit"]
    /\ UNCHANGED <<writer, readers, call, items>>

\* Mutated RLock: the mutex lets its own writer in.
RLockReentrant(p) ==
    /\ pc[p] = "rlock"
    /\ writer \in {None, p}
    /\ readers' = readers \cup {p}
    /\ pc' = [pc EXCEPT ![p] = "read"]
    /\ UNCHANGED <<writer, call, items>>

\* sync.RWMutex.RLock: waits while a writer is announced or active.  It does
\* not ask who the writer is.
RLock(p) ==
    /\ pc[p] = "rlock"
    /\ writer = None
    /\ readers' = readers \cup {p}
    /\ pc' = [pc EXCEPT ![p] = "read"]
    /\ UNCHANGED <<writer, call, items>>

\* Mutated AddBody: the item is pushed without its task.
AddBodyNil(p) ==
    /\ pc[p] = "crit"
    /\ call[p].op = "Add"
    /\ items' = items \cup {None}
    /\ pc' = [pc EXCEPT ![p] = "rlock"]
    /\ UNCHANGED <<writer, readers, call>>

\* heap.Push runs pq.Push and then asks for h.Len().
AddBody(p) ==
    /\ pc[p] = "crit"
    /\ call[p].op = "Add"
    /\ items' = items \cup {call[p].task}
    /\ pc' = [pc EXCEPT ![p] = "rlock"]
    /\ UNCHANGED <<writer, readers, call>>

\* Mutated RemoveBody: the early return for an empty queue skips the Unlock.
RemoveBodyKeepsLock(p) ==
    /\ pc[p] = "crit"
    /\ call[p].op = "Remove"
    /\ pc' = [pc EXCEPT ![p] = IF items = {} THEN "idle" ELSE "rlock"]
    /\ UNCHANGED <<writer, readers, call, items>>

\* An empty queue returns nil; otherwise heap.Pop starts with h.Len().
RemoveBody(p) ==
    /\ pc[p] = "crit"
    /\ call[p].op = "Remove"
    /\ pc' = [pc EXCEPT ![p] = IF items = {} THEN "unlock" ELSE "rlock"]
    /\ UNCHANGED <<writer, readers, call, items>>

\* An id that is not in taskMap changes nothing; otherwise heap.Remove and
\* heap.Fix evaluate h.Len().
KeyedBody(p) ==
    /\ pc[p] = "crit"
    /\ call[p].op \in {"RemoveByID", "Update"}
    /\ pc' = [pc EXCEPT ![p] =
                  IF call[p].task \in items THEN "rlock" ELSE "unlock"]
    /\ UNCHANGED <<writer, readers, call, items>>

\* Clear empties the queue; heap.Init then asks for h.Len().
ClearBody(p) ==
    /\ pc[p] = "crit"
    /\ call[p].op = "Clear"
    /\ items' = {}
    /\ pc' = [pc EXCEPT ![p] = "rlock"]
    /\ UNCHANGED <<writer, readers, call>>

\* What container/heap leaves in the queue once its h.Len() has returned.
AfterLen(p) ==
    CASE call[p].op = "Remove"     -> {items \ {t} : t \in items}
      [] call[p].op = "RemoveByID" -> {items \ {call[p].task}}
      [] OTHER                     -> {items}

\* RUnlock: a read method returns, a Len called by container/heap lets the
\* heap operation run to its end.
RUnlock(p) ==
    /\ pc[p] = "read"
    /\ readers' = readers \ {p}
    /\ items' \in AfterLen(p)
    /\ pc' = [pc EXCEPT ![p] =
                  IF call[p].op \in Mutators THEN "unlock" ELSE "idle"]
    /\ UNCHANGED <<writer, call>>

\* The deferred mu.Unlock() and the return of a mutator.
Unlock(p) ==
    /\ pc[p] = "unlock"
    /\ writer' = None
    /\ pc' = [pc EXCEPT ![p] = "idle"]
    /\ UNCHANGED <<readers, call, items>>

Body(p) == AddBody(p) \/ RemoveBody(p) \/ KeyedBody(p) \/ ClearBody(p)

Next ==
    \E p \in Procs :
        \/ \E op \in Mutators \cup ReadCalls, t \in Tasks : Call(p, op, t)
        \/ AnnounceLock(p)
        \/ AcquireLock(p)
        \/ RLock(p)
        \/ Body(p)
        \/ RUnlock(p)
        \/ Unlock(p)

\* Go keeps running a goroutine that can run, and sync.RWMutex starves nobody:
\* a waiting writer stops new readers, an Unlock lets the waiting readers in.
Fairness ==
    \A p \in Procs :
        /\ SF_vars(AnnounceLock(p))
        /\ SF_vars(RLock(p))
        /\ WF_vars(AcquireLock(p))
        /\ WF_vars(Body(p))
        /\ WF_vars(RUnlock(p))
        /\ WF_vars(Unlock(p))

Spec == Init /\ [][Next]_vars /\ Fairness

------------------------------------------------------------------------------

\* A goroutine waits, inside Len, for a mutex that it holds for writing itself.
Wedged == \E p \in Procs : pc[p] = "rlock" /\ writer = p

\* Read methods never overlap the body of a mutator, and two mutators never
\* overlap: between Lock and Unlock of priority_queue.go:68-135 the goroutine
\* is alone in the heap.
MutatorsAreAlone ==
    \A p \in Procs : pc[p] \in {"crit", "unlock"} =>
        /\ readers = {}
        /\ \A q \in Procs \ {p} : pc[q] \notin {"crit", "unlock", "read"}

\* No reader ever sees a task: the first Add (priority_queue.go:68-80) never
\* gives the lock back, so Len is 0, Get and GetByID are nil and GetStats is
\* all zeroes whenever they return at all.
NoReaderSeesATask == \A p \in Procs : pc[p] = "read" => items = {}

\* From the moment one goroutine waits for its own lock, no call in progress
\* on the queue ever returns, and the wedge is never undone.
WedgeIsForever ==
    [][Wedged => /\ Wedged'
                 /\ \A p \in Procs : pc[p] # "idle" => pc'[p] # "idle"]_vars

\* Every call returns unless some goroutine gets to wait for its own lock:
\* reading, and removing from an empty queue, never block each other for ever.
CallsReturnUnlessWedged ==
    \A p \in Procs : pc[p] # "idle" ~> (pc[p] = "idle" \/ Wedged)

\* What the tests of priority_queue_test.go:35-41 rely on: Add returns.
AddReturns ==
    \A p \in Procs :
        (pc[p] # "idle" /\ call[p].op = "Add") ~> (pc[p] = "idle")

==============================================================================
