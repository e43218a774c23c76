--------------------------- MODULE QueueLockProofs ---------------------------
(****************************************************************************)
(* The locking of priority_queue.go for any number of goroutines and tasks. *)
(****************************************************************************)
EXTENDS QueueLock, TLAPS

\* A goroutine that announced itself as the writer is the one mu remembers.
WriterIsRecorded ==
    \A p \in Procs : pc[p] \in {"drain", "crit", "unlock"} => writer = p

\* The recorded writer is inside a mutator, past AnnounceLock.
WriterIsInside ==
    writer # None => /\ pc[writer] \in {"drain", "crit", "unlock", "rlock"}
                     /\ call[writer].op \in Mutators

\* Goroutines queueing for mu.Lock(), or holding it, are in a mutator; the
\* ones that hold it for reading are in a read method.
CallMatchesLock ==
    /\ \A p \in Procs :
           pc[p] \in {"lock", "drain", "crit", "unlock"} => call[p].op \in Mutators
    /\ \A p \in Procs : pc[p] = "read" => call[p].op \in ReadCalls

\* The reader count of mu is the set of goroutines between RLock and RUnlock.
ReadersAreInside == readers = {p \in Procs : pc[p] = "read"}

\* Behind AcquireLock nobody reads.
WriteLockExcludes ==
    \A p \in Procs : pc[p] \in {"crit", "unlock"} => readers = {}

\* A mutator that reached Len still holds the write lock.
LenUnderLock ==
    \A p \in Procs : (pc[p] = "rlock" /\ call[p].op \in Mutators)
                        => (writer = p /\ readers = {})

\* A task is in the queue only while the Add that brought it waits in Len.
TaskMeansWedged == items # {} => (writer # None /\ pc[writer] = "rlock")

IInv ==
    /\ TypeOK
    /\ WriterIsRecorded
    /\ WriterIsInside
    /\ CallMatchesLock
    /\ ReadersAreInside
    /\ WriteLockExcludes
    /\ LenUnderLock
    /\ TaskMeansWedged

------------------------------------------------------------------------------

\* Nobody is inside any call when NewPriorityQueue returns.
LEMMA InitIInv == Init => IInv
BY NoneAssumption DEF Init, IInv, TypeOK, WriterIsRecorded, WriterIsInside,
     CallMatchesLock, ReadersAreInside, WriteLockExcludes, LenUnderLock,
     TaskMeansWedged, Mutators, ReadCalls, Locations

\* Every step of every goroutine keeps the invariant.
LEMMA NextIInv == IInv /\ [Next]_vars => IInv'
<1> SUFFICES ASSUME IInv, [Next]_vars PROVE IInv'
  OBVIOUS
<1> USE NoneAssumption DEF IInv, TypeOK, WriterIsRecorded, WriterIsInside,
     CallMatchesLock, ReadersAreInside, WriteLockExcludes, LenUnderLock,
     TaskMeansWedged, Mutators, ReadCalls, Locations
<1>1. ASSUME NEW p \in Procs, NEW op \in Mutators \cup ReadCalls,
             NEW t \in Tasks, Call(p, op, t)
      PROVE  IInv'
  BY <1>1 DEF Call
<1>2. ASSUME NEW p \in Procs, AnnounceLock(p) PROVE IInv'
  BY <1>2 DEF AnnounceLock
<1>3. ASSUME NEW p \in Procs, AcquireLock(p) PROVE IInv'
  BY <1>3 DEF AcquireLock
<1>4. ASSUME NEW p \in Procs, RLock(p) PROVE IInv'
  BY <1>4 DEF RLock
<1>5. ASSUME NEW p \in Procs, AddBody(p) PROVE IInv'
  BY <1>5 DEF AddBody
<1>6. ASSUME NEW p \in Procs, RemoveBody(p) PROVE IInv'
  BY <1>6 DEF RemoveBody
<1>7. ASSUME NEW p \in Procs, KeyedBody(p) PROVE IInv'
  BY <1>7 DEF KeyedBody
<1>8. ASSUME NEW p \in Procs, ClearBody(p) PROVE IInv'
  BY <1>8 DEF ClearBody
<1>9. ASSUME NEW p \in Procs, RUnlock(p) PROVE IInv'
  <2>1. call[p].op = "Read"
    BY <1>9 DEF RUnlock
  <2>2. items' = items
    BY <1>9, <2>1 DEF RUnlock, AfterLen
  <2>3. QED
    BY <1>9, <2>1, <2>2 DEF RUnlock
<1>10. ASSUME NEW p \in Procs, Unlock(p) PROVE IInv'
  BY <1>10 DEF Unlock
<1>11. CASE UNCHANGED vars
  BY <1>11 DEF vars
<1>12. QED
  BY <1>1, <1>2, <1>3, <1>4, <1>5, <1>6, <1>7, <1>8, <1>9, <1>10, <1>11
     DEF Next, Body

\* The inductive invariant of the queue's mutex, for any number of goroutines.
THEOREM LockInvariant == Spec => []IInv
BY InitIInv, NextIInv, PTL DEF Spec

\* Type correctness of the queue's lock state (priority_queue.go:10-14).
THEOREM TypeCorrect == Spec => []TypeOK
<1>1. IInv => TypeOK
  BY DEF IInv
<1>2. QED
  BY <1>1, LockInvariant, PTL

\* However many goroutines share the queue, the code between mu.Lock() and
\* mu.Unlock() of the five mutators runs alone.
THEOREM MutualExclusion == Spec => []MutatorsAreAlone
<1>1. IInv => MutatorsAreAlone
  BY DEF IInv, MutatorsAreAlone, WriterIsRecorded, ReadersAreInside,
         WriteLockExcludes
<1>2. QED
  BY <1>1, LockInvariant, PTL

\* No method that reads the queue ever returns a task: the first Add keeps the
\* lock for ever, whatever the number of goroutines and tasks.
THEOREM QueueReadsEmpty == Spec => []NoReaderSeesATask
<1>1. IInv => NoReaderSeesATask
  BY NoneAssumption DEF IInv, NoReaderSeesATask, TypeOK, WriterIsInside,
         ReadersAreInside, LenUnderLock, TaskMeansWedged
<1>2. QED
  BY <1>1, LockInvariant, PTL

\* A step taken while a goroutine waits for its own lock leaves it waiting and
\* lets no call return.
LEMMA WedgeStep ==
    IInv /\ [Next]_vars =>
        [Wedged => /\ Wedged'
                   /\ \A p \in Procs : pc[p] # "idle" => pc'[p] # "idle"]_vars
<1> SUFFICES ASSUME IInv, [Next]_vars, Wedged
             PROVE  /\ Wedged'
                    /\ \A p \in Procs : pc[p] # "idle" => pc'[p] # "idle"
  OBVIOUS
<1>1. PICK w \in Procs : pc[w] = "rlock" /\ writer = w
  BY DEF Wedged
<1>2. writer # None /\ readers = {} /\ \A p \in Procs : pc[p] # "read"
  BY <1>1, NoneAssumption DEF IInv, WriterIsInside, LenUnderLock, ReadersAreInside
<1>3. \A p \in Procs : pc[p] \notin {"drain", "crit", "unlock"}
  BY <1>1 DEF IInv, WriterIsRecorded
<1>4. \/ \E p \in Procs, op \in Mutators \cup ReadCalls, t \in Tasks : Call(p, op, t)
      \/ UNCHANGED vars
  BY <1>2, <1>3 DEF Next, Body, AnnounceLock, AcquireLock, RLock, AddBody,
       RemoveBody, KeyedBody, ClearBody, RUnlock, Unlock
<1>5. CASE UNCHANGED vars
  BY <1>5, <1>1 DEF vars, Wedged
<1>6. ASSUME NEW p \in Procs, NEW op \in Mutators \cup ReadCalls,
             NEW t \in Tasks, Call(p, op, t)
      PROVE  /\ Wedged'
             /\ \A q \in Procs : pc[q] # "idle" => pc'[q] # "idle"
  BY <1>6, <1>1 DEF Call, Wedged, IInv, TypeOK
<1>7. QED
  BY <1>4, <1>5, <1>6

\* Once one goroutine waits in Len for the lock it holds, every call in
\* progress on the queue is stuck for good.
THEOREM WedgeForever == Spec => WedgeIsForever
<1>1. IInv /\ [Next]_vars =>
        [Wedged => /\ Wedged'
                   /\ \A p \in Procs : pc[p] # "idle" => pc'[p] # "idle"]_vars
  BY WedgeStep
<1>2. QED
  BY <1>1, LockInvariant, PTL DEF Spec, WedgeIsForever

==============================================================================
