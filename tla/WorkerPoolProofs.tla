-------------------------- MODULE WorkerPoolProofs --------------------------
(****************************************************************************)
(* The worker pool for any number of workers, tasks and copies of a task.   *)
(****************************************************************************)
EXTENDS WorkerPool, FiniteSetTheorems, TLAPS

\* A worker holds a struct exactly in processTask.
HoldsInside ==
    \A w \in Workers : pc[w] \in Holding => cur[w] \in Objects

\* The status of a held struct says how far its worker is.
StatusFollowsWorker ==
    \A w \in Workers :
        /\ pc[w] \in {"enter", "mark"} => status[cur[w]] = "pending"
        /\ pc[w] \in {"saveRunning", "process"} => status[cur[w]] = "running"
        /\ pc[w] \in {"saveFinal", "leave"} => status[cur[w]] \in Terminal

\* Stop returns behind the last worker.
StoppedBehindWorkers ==
    pool = "stopped" => \A w \in Workers : pc[w] = "exit"

\* No goroutine runs before Start.
OffBeforeStart == pool = "new" => \A w \in Workers : pc[w] = "off"

Place ==
    /\ TypeOK
    /\ OffBeforeStart
    /\ HoldsInside
    /\ StatusFollowsWorker
    /\ StoppedBehindWorkers
    /\ TaskHasOnePlace

------------------------------------------------------------------------------

\* A struct carries one of the ids.
LEMMA ObjectIds == \A o \in Objects : o[1] \in Ids
BY DEF Objects

\* There are finitely many task structs.
LEMMA ObjectsFinite == IsFiniteSet(Objects)
<1>1. IsFiniteSet(1..Copies)
  BY CopiesAssumption, FS_Interval
<1>2. QED
  BY <1>1, IdsFinite, FS_Product DEF Objects

\* Nothing is queued and nobody holds anything when the pool is made.
LEMMA InitPlace == Init => Place
BY NoneNotObject DEF Init, Place, TypeOK, HoldsInside, StatusFollowsWorker,
     StoppedBehindWorkers, OffBeforeStart, TaskHasOnePlace, Holds, Holding, Locations, Statuses,
     Terminal

\* Every step of the pool keeps each task in its one place.
LEMMA NextPlace == Place /\ [Next]_vars => Place'
<1> SUFFICES ASSUME Place, [Next]_vars PROVE Place'
  OBVIOUS
<1> USE ObjectIds DEF Place, TypeOK, HoldsInside, StatusFollowsWorker,
     StoppedBehindWorkers, OffBeforeStart, TaskHasOnePlace, Holds, Holding, Locations, Statuses,
     Terminal, Cancelled, metrics, store, Goto
<1>1. CASE Start
  BY <1>1 DEF Start
<1>2. CASE StopCancel
  BY <1>2 DEF StopCancel
<1>3. CASE StopReturn
  BY <1>3 DEF StopReturn
<1>4. CASE GetMetrics
  <2>1. Cardinality(queue) \in Nat
    BY ObjectsFinite, FS_Subset, FS_CardinalityType
  <2>2. QED
    BY <1>4, <2>1 DEF GetMetrics
<1>5. ASSUME NEW o \in Objects, Offer(o) PROVE Place'
  BY <1>5 DEF Offer
<1>6. ASSUME NEW w \in Workers, SelectDone(w) PROVE Place'
  BY <1>6 DEF SelectDone
<1>7. ASSUME NEW w \in Workers, SelectDefault(w) PROVE Place'
  BY <1>7 DEF SelectDefault
<1>8. ASSUME NEW w \in Workers, RemoveNil(w) PROVE Place'
  BY <1>8 DEF RemoveNil
<1>9. ASSUME NEW w \in Workers, NEW o \in Objects, RemoveTask(w, o) PROVE Place'
  BY <1>9 DEF RemoveTask
<1>10. ASSUME NEW w \in Workers, Enter(w) PROVE Place'
  BY <1>10 DEF Enter
<1>11. ASSUME NEW w \in Workers, MarkRunning(w) PROVE Place'
  BY <1>11 DEF MarkRunning
<1>12. ASSUME NEW w \in Workers, SaveRunning(w) PROVE Place'
  BY <1>12 DEF SaveRunning, UpdateTask
<1>13. ASSUME NEW w \in Workers, ProcessError(w) PROVE Place'
  BY <1>13 DEF ProcessError
<1>14. ASSUME NEW w \in Workers, ProcessOk(w) PROVE Place'
  BY <1>14 DEF ProcessOk
<1>15. ASSUME NEW w \in Workers, SaveFinal(w) PROVE Place'
  BY <1>15 DEF SaveFinal, UpdateTask
<1>16. ASSUME NEW w \in Workers, Leave(w) PROVE Place'
  BY <1>16 DEF Leave
<1>17. CASE UNCHANGED vars
  BY <1>17 DEF vars
<1>18. QED
  BY <1>1, <1>2, <1>3, <1>4, <1>5, <1>6, <1>7, <1>8, <1>9, <1>10, <1>11, <1>12,
     <1>13, <1>14, <1>15, <1>16, <1>17 DEF Next, Work

\* The bookkeeping invariant of the pool.
THEOREM PlaceInvariant == Spec => []Place
BY InitPlace, NextPlace, PTL DEF Spec

\* Type correctness of the pool (worker_pool.go:17-51).
THEOREM PoolTypeCorrect == Spec => []TypeOK
<1>1. Place => TypeOK
  BY DEF Place
<1>2. QED
  BY <1>1, PlaceInvariant, PTL

\* With any number of workers and tasks, a task taken from the queue is run by
\* one worker, and is finished or still in its hands.
THEOREM NoTaskLostOrShared == Spec => []TaskHasOnePlace
<1>1. Place => TaskHasOnePlace
  BY DEF Place
<1>2. QED
  BY <1>1, PlaceInvariant, PTL

------------------------------------------------------------------------------
(* What the storage says of finished tasks.                                 *)

\* Some worker has written Running for this id and not yet its outcome.
Unsettled(id) ==
    \E w \in Workers : pc[w] \in {"process", "saveFinal"} /\ cur[w][1] = id

\* A run of the struct is over and its outcome was handed to the storage.
Reported(o) ==
    /\ status[o] \in Terminal
    /\ \A w \in Workers : ~(pc[w] = "saveFinal" /\ cur[w] = o)

\* An id for which no write was refused: once a run was reported, the record
\* shows the outcome of a finished run whenever no other run is under way.
Settled ==
    \A id \in Ids \ refused :
        ((\E o \in Objects : o[1] = id /\ Reported(o)) /\ ~Unsettled(id))
            => \E o \in Objects : o[1] = id /\ status[o] \in Terminal
                                            /\ stored[id] = status[o]

\* No run was reported when the pool is made.
LEMMA InitSettled == Init => Settled
BY DEF Init, Settled, Reported, Terminal

\* A final status is never taken back.
LEMMA TerminalStays ==
    ASSUME Place, Next
    PROVE  \A o \in Objects : status[o] \in Terminal => status'[o] = status[o]
<1> USE DEF Place, TypeOK, HoldsInside, StatusFollowsWorker, Terminal, Statuses,
            Locations, Holding
<1>1. CASE Start \/ StopCancel \/ StopReturn \/ GetMetrics
  BY <1>1 DEF Start, StopCancel, StopReturn, GetMetrics
<1>2. ASSUME NEW o \in Objects, Offer(o)
      PROVE  \A x \in Objects : status[x] \in Terminal => status'[x] = status[x]
  BY <1>2 DEF Offer
<1>3. ASSUME NEW w \in Workers, Work(w)
      PROVE  \A x \in Objects : status[x] \in Terminal => status'[x] = status[x]
  BY <1>3 DEF Work, SelectDone, SelectDefault, RemoveNil, RemoveTask, Enter,
       MarkRunning, SaveRunning, ProcessError, ProcessOk, SaveFinal, Leave
<1>4. QED
  BY <1>1, <1>2, <1>3 DEF Next

\* Every step keeps the record of an id settled.
LEMMA NextSettled == Place /\ Settled /\ [Next]_vars => Settled'
<1> SUFFICES ASSUME Place, Settled, [Next]_vars,
                    NEW id \in Ids, id \notin refused',
                    NEW r \in Objects, r[1] = id, Reported(r)',
                    ~Unsettled(id)'
             PROVE  \E o \in Objects : o[1] = id /\ status'[o] \in Terminal
                                               /\ stored'[id] = status'[o]
  BY DEF Settled
<1> USE ObjectIds DEF Terminal, Locations, Holding, Statuses
<1>1. CASE UNCHANGED vars
  BY <1>1 DEF vars, store, Settled, Reported, Unsettled
<1>2. CASE Next
  <2>1. \A o \in Objects : status[o] \in Terminal => status'[o] = status[o]
    BY <1>2, TerminalStays
  <2>2. refused \subseteq refused'
    BY <1>2 DEF Next, Start, StopCancel, StopReturn, GetMetrics, Offer, Work,
         SelectDone, SelectDefault, RemoveNil, RemoveTask, Enter, MarkRunning,
         SaveRunning, UpdateTask, ProcessError, ProcessOk, SaveFinal, Leave,
         store
  <2>3. ASSUME NEW w \in Workers, SaveFinal(w)
        PROVE  \E o \in Objects : o[1] = id /\ status'[o] \in Terminal
                                          /\ stored'[id] = status'[o]
    <3>1. /\ cur[w] \in Objects /\ status[cur[w]] \in Terminal
          /\ status' = status /\ cur' = cur
          /\ pc' = [pc EXCEPT ![w] = "leave"]
      BY <2>3 DEF SaveFinal, Goto, Place, HoldsInside, StatusFollowsWorker
    <3>2. CASE cur[w][1] = id
      <4>1. stored'[id] = status[cur[w]]
        BY <2>3, <3>1, <3>2 DEF SaveFinal, UpdateTask, Place, TypeOK
      <4>2. QED
        BY <3>1, <3>2, <4>1
    <3>3. CASE cur[w][1] # id
      <4>1. stored'[id] = stored[id]
        BY <2>3, <3>1, <3>3 DEF SaveFinal, UpdateTask, Place, TypeOK
      <4>2. Reported(r) /\ ~Unsettled(id)
        BY <3>1, <3>3 DEF Reported, Unsettled, Place, TypeOK
      <4>3. QED
        BY <2>1, <2>2, <4>1, <4>2 DEF Settled
    <3>4. QED
      BY <3>2, <3>3
  <2>4. ASSUME NEW w \in Workers, SaveRunning(w)
        PROVE  \E o \in Objects : o[1] = id /\ status'[o] \in Terminal
                                          /\ stored'[id] = status'[o]
    <3>1. /\ cur[w] \in Objects
          /\ status' = status /\ cur' = cur
          /\ pc' = [pc EXCEPT ![w] = "process"]
      BY <2>4 DEF SaveRunning, Goto, Place, HoldsInside
    <3>2. cur[w][1] # id
      BY <3>1 DEF Unsettled, Place, TypeOK
    <3>3. stored'[id] = stored[id]
      BY <2>4, <3>1, <3>2 DEF SaveRunning, UpdateTask, Place, TypeOK
    <3>4. Reported(r) /\ ~Unsettled(id)
      BY <2>4, <3>1 DEF Reported, Unsettled, Place, TypeOK, SaveRunning
    <3>5. QED
      BY <2>1, <2>2, <3>3, <3>4 DEF Settled
  <2>5. ASSUME NEW w \in Workers, ProcessError(w) \/ ProcessOk(w)
        PROVE  \E o \in Objects : o[1] = id /\ status'[o] \in Terminal
                                          /\ stored'[id] = status'[o]
    <3>1. /\ cur[w] \in Objects /\ stored' = stored /\ cur' = cur
          /\ pc' = [pc EXCEPT ![w] = "saveFinal"]
          /\ \A o \in Objects : o # cur[w] => status'[o] = status[o]
      BY <2>5 DEF ProcessError, ProcessOk, Goto, Place, HoldsInside, TypeOK, store
    <3>2. cur[w] # r
      BY <3>1 DEF Reported, Place, TypeOK
    <3>3. Reported(r) /\ ~Unsettled(id)
      BY <2>5, <3>1, <3>2 DEF Reported, Unsettled, Place, TypeOK, ProcessError, ProcessOk
    <3>4. QED
      BY <2>1, <2>2, <3>1, <3>3 DEF Settled
  <2>6. ASSUME NEW w \in Workers, MarkRunning(w)
        PROVE  \E o \in Objects : o[1] = id /\ status'[o] \in Terminal
                                          /\ stored'[id] = status'[o]
    <3>1. /\ stored' = stored /\ cur' = cur /\ cur[w] \in Objects
          /\ pc' = [pc EXCEPT ![w] = "saveRunning"]
          /\ status' = [status EXCEPT ![cur[w]] = "running"]
      BY <2>6 DEF MarkRunning, Goto, store, Place, HoldsInside
    <3>2. Reported(r) /\ ~Unsettled(id)
      BY <2>6, <3>1 DEF Reported, Unsettled, Place, TypeOK, MarkRunning
    <3>3. QED
      BY <2>1, <2>2, <3>1, <3>2 DEF Settled
  <2>7. ASSUME NEW w \in Workers,
               \/ SelectDone(w) \/ SelectDefault(w) \/ RemoveNil(w)
               \/ Enter(w) \/ Leave(w) \/ \E o \in Objects : RemoveTask(w, o)
        PROVE  \E o \in Objects : o[1] = id /\ status'[o] \in Terminal
                                          /\ stored'[id] = status'[o]
    <3>1. /\ stored' = stored /\ status' = status
          /\ pc[w] \notin {"process", "saveFinal"}
          /\ \A v \in Workers \ {w} : pc'[v] = pc[v] /\ cur'[v] = cur[v]
      BY <2>7 DEF SelectDone, SelectDefault, RemoveNil, Enter, Leave, RemoveTask,
           Goto, store, Place, TypeOK
    <3>2. Reported(r) /\ ~Unsettled(id)
      BY <3>1 DEF Reported, Unsettled
    <3>3. QED
      BY <2>1, <2>2, <3>1, <3>2 DEF Settled
  <2>8. ASSUME NEW o \in Objects, Offer(o)
        PROVE  \E x \in Objects : x[1] = id /\ status'[x] \in Terminal
                                          /\ stored'[id] = status'[x]
    <3>1. /\ stored' = stored /\ cur' = cur /\ pc' = pc
          /\ status' = [status EXCEPT ![o] = "pending"]
      BY <2>8 DEF Offer, store
    <3>2. Reported(r) /\ ~Unsettled(id)
      BY <3>1 DEF Reported, Unsettled, Place, TypeOK
    <3>3. QED
      BY <2>1, <2>2, <3>1, <3>2 DEF Settled
  <2>9. CASE Start \/ StopCancel \/ StopReturn \/ GetMetrics
    <3>1. stored' = stored /\ status' = status /\ cur' = cur
      BY <2>9 DEF Start, StopCancel, StopReturn, GetMetrics, store
    <3>2. \A w \in Workers :
             pc[w] \in {"process", "saveFinal"} => pc'[w] = pc[w]
      BY <2>9 DEF Start, StopCancel, StopReturn, GetMetrics, Place, OffBeforeStart
    <3>3. Reported(r) /\ ~Unsettled(id)
      BY <3>1, <3>2 DEF Reported, Unsettled
    <3>4. QED
      BY <2>1, <2>2, <3>1, <3>3 DEF Settled
  <2>10. QED
    BY <1>2, <2>3, <2>4, <2>5, <2>6, <2>7, <2>8, <2>9 DEF Next, Work
<1>3. QED
  BY <1>1, <1>2

\* Whatever the number of workers and of copies of a task running side by
\* side, a task whose runs are over and whose writes were all accepted shows
\* an outcome in the storage.
THEOREM OutcomeStored == Spec => []FinalOutcomeStored
<1>1. Spec => [](Place /\ Settled)
  BY InitPlace, NextPlace, InitSettled, NextSettled, PTL DEF Spec
<1>2. Place /\ Settled => FinalOutcomeStored
  <2> SUFFICES ASSUME Place, Settled, NEW id \in Ids \ refused,
                      NEW m \in Objects, m[1] = id, status[m] # "none",
                      \A o \in Objects : o[1] = id /\ status[o] # "none" =>
                          status[o] \in Terminal /\ \A w \in Workers : ~Holds(w, o)
               PROVE  \E o \in Objects : o[1] = id /\ status[o] # "none"
                                          /\ stored[id] = status[o]
    BY DEF FinalOutcomeStored
  <2>1. Reported(m)
    BY DEF Reported, Holds, Holding
  <2>2. ~Unsettled(id)
    BY DEF Unsettled, Holds, Holding, Place, HoldsInside, StatusFollowsWorker,
           Terminal
  <2>3. QED
    BY <2>1, <2>2 DEF Settled, Terminal
<1>3. QED
  BY <1>1, <1>2, PTL

------------------------------------------------------------------------------
(* The metrics.                                                             *)

Busy == {w \in Workers : pc[w] \in Holding \ {"enter"}}
With(st) == {o \in Objects : status[o] = st}

\* There are finitely many busy workers.
LEMMA BusyFinite == IsFiniteSet(Busy) /\ Cardinality(Busy) \in Nat
<1>1. Busy \in SUBSET Workers
  BY DEF Busy
<1>2. QED
  BY <1>1, WorkersFinite, FS_Subset, FS_CardinalityType

\* Any set of structs is finite.
LEMMA WithFinite == \A st : IsFiniteSet(With(st)) /\ Cardinality(With(st)) \in Nat
<1> TAKE st
<1>1. With(st) \in SUBSET Objects
  BY DEF With
<1>2. QED
  BY <1>1, ObjectsFinite, FS_Subset, FS_CardinalityType

\* processTask counts each task in once and out once.
LEMMA NextInProgress == Place /\ InProgressExact /\ [Next]_vars => InProgressExact'
<1> SUFFICES ASSUME Place, inProgress = Cardinality(Busy), [Next]_vars
             PROVE  inProgress' = Cardinality(Busy')
  BY DEF InProgressExact, Busy
<1> USE DEF Place, TypeOK, Holding, Locations
<1>1. ASSUME NEW w \in Workers, Enter(w)
      PROVE  inProgress' = Cardinality(Busy')
  <2>1. Busy' = Busy \cup {w} /\ w \notin Busy /\ inProgress' = inProgress + 1
    BY <1>1 DEF Enter, Goto, Busy
  <2>2. QED
    BY <2>1, BusyFinite, FS_AddElement
<1>2. ASSUME NEW w \in Workers, Leave(w)
      PROVE  inProgress' = Cardinality(Busy')
  <2>1. Busy' = Busy \ {w} /\ w \in Busy /\ inProgress' = inProgress - 1
    BY <1>2 DEF Leave, Goto, Busy
  <2>2. QED
    BY <2>1, BusyFinite, FS_RemoveElement
<1>3. ASSUME NEW w \in Workers,
             \/ SelectDone(w) \/ SelectDefault(w) \/ RemoveNil(w)
             \/ \E o \in Objects : RemoveTask(w, o)
      PROVE  inProgress' = Cardinality(Busy')
  <2>1. Busy' = Busy /\ inProgress' = inProgress
    BY <1>3 DEF SelectDone, SelectDefault, RemoveNil, RemoveTask, Goto, Busy, metrics
  <2>2. QED
    BY <2>1
<1>4. ASSUME NEW w \in Workers,
             \/ MarkRunning(w) \/ SaveRunning(w) \/ ProcessError(w)
             \/ ProcessOk(w) \/ SaveFinal(w)
      PROVE  inProgress' = Cardinality(Busy')
  <2>1. Busy' = Busy /\ inProgress' = inProgress
    BY <1>4 DEF MarkRunning, SaveRunning, ProcessError, ProcessOk, SaveFinal, Goto,
         Busy, metrics
  <2>2. QED
    BY <2>1
<1>5. CASE \/ Start \/ StopCancel \/ StopReturn \/ GetMetrics \/ UNCHANGED vars
           \/ \E o \in Objects : Offer(o)
  <2>1. Busy' = Busy /\ inProgress' = inProgress
    BY <1>5 DEF Start, StopCancel, StopReturn, GetMetrics, Offer, vars, Busy, metrics,
         OffBeforeStart
  <2>2. QED
    BY <2>1
<1>6. QED
  BY <1>1, <1>2, <1>3, <1>4, <1>5 DEF Next, Work

\* TasksInProgress is exact for any number of workers.
THEOREM InProgressIsExact == Spec => []InProgressExact
<1>1. Init => InProgressExact
  <2>1. ASSUME Init PROVE Busy = {} /\ inProgress = 0
    BY <2>1 DEF Init, Busy, Holding
  <2>2. QED
    BY <2>1, FS_EmptySet DEF InProgressExact, Busy
<1>2. QED
  BY <1>1, InitPlace, NextPlace, NextInProgress, PTL DEF Spec

\* When Stop has returned, no worker runs and no task is half done.
THEOREM StopIsQuiet == Spec => []StopQuiesces
<1>1. Spec => [](Place /\ InProgressExact)
  BY PlaceInvariant, InProgressIsExact, PTL
<1>2. Place /\ InProgressExact => StopQuiesces
  <2> SUFFICES ASSUME Place, InProgressExact, pool = "stopped"
               PROVE  /\ \A w \in Workers : pc[w] = "exit"
                      /\ \A o \in Objects : status[o] # "running"
                      /\ inProgress = 0
    BY DEF StopQuiesces
  <2>1. \A w \in Workers : pc[w] = "exit"
    BY DEF Place, StoppedBehindWorkers
  <2>2. \A o \in Objects : status[o] # "running"
    BY <2>1 DEF Place, TaskHasOnePlace, Holds, Holding
  <2>3. Busy = {}
    BY <2>1 DEF Busy, Holding
  <2>4. QED
    BY <2>1, <2>2, <2>3, FS_EmptySet DEF InProgressExact, Busy
<1>3. QED
  BY <1>1, <1>2, PTL

\* A run that ends is counted once, under its outcome.
LEMMA NextCounted == Place /\ OutcomesCounted /\ [Next]_vars => OutcomesCounted'
<1> SUFFICES ASSUME Place, [Next]_vars,
                    processed = Cardinality(With("completed")),
                    failed = Cardinality(With("failed"))
             PROVE  /\ processed' = Cardinality(With("completed")')
                    /\ failed' = Cardinality(With("failed")')
  BY DEF OutcomesCounted, With
<1> USE DEF Place, TypeOK, Holding, Locations, Statuses, Terminal
<1>1. ASSUME NEW w \in Workers, ProcessOk(w)
      PROVE  /\ processed' = Cardinality(With("completed")')
             /\ failed' = Cardinality(With("failed")')
  <2>1. cur[w] \in Objects /\ status[cur[w]] = "running"
    BY <1>1 DEF ProcessOk, HoldsInside, StatusFollowsWorker
  <2>2. /\ With("completed")' = With("completed") \cup {cur[w]}
        /\ cur[w] \notin With("completed")
        /\ With("failed")' = With("failed")
    BY <1>1, <2>1 DEF ProcessOk, With
  <2>3. QED
    BY <1>1, <2>2, WithFinite, FS_AddElement DEF ProcessOk
<1>2. ASSUME NEW w \in Workers, ProcessError(w)
      PROVE  /\ processed' = Cardinality(With("completed")')
             /\ failed' = Cardinality(With("failed")')
  <2>1. cur[w] \in Objects /\ status[cur[w]] = "running"
    BY <1>2 DEF ProcessError, HoldsInside, StatusFollowsWorker
  <2>2. /\ With("failed")' = With("failed") \cup {cur[w]}
        /\ cur[w] \notin With("failed")
        /\ With("completed")' = With("completed")
    BY <1>2, <2>1 DEF ProcessError, With
  <2>3. QED
    BY <1>2, <2>2, WithFinite, FS_AddElement DEF ProcessError
<1>3. CASE \/ UNCHANGED vars
           \/ Next /\ ~\E w \in Workers : ProcessOk(w) \/ ProcessError(w)
  <2>1. processed' = processed /\ failed' = failed
    BY <1>3 DEF vars, metrics, Next, Work, Start, StopCancel, StopReturn, GetMetrics,
         Offer, SelectDone, SelectDefault, RemoveNil, RemoveTask, Enter, MarkRunning,
         SaveRunning, SaveFinal, Leave
  <2>2. \/ status' = status
        \/ \E o \in Objects : /\ status[o] \in {"none", "pending"}
                              /\ status' = [status EXCEPT ![o] = "pending"]
                                 \/ status' = [status EXCEPT ![o] = "running"]
    BY <1>3 DEF vars, Next, Work, Start, StopCancel, StopReturn, GetMetrics,
         Offer, SelectDone, SelectDefault, RemoveNil, RemoveTask, Enter, MarkRunning,
         SaveRunning, SaveFinal, Leave, HoldsInside, StatusFollowsWorker
  <2>3. With("completed")' = With("completed") /\ With("failed")' = With("failed")
    BY <2>2 DEF With
  <2>4. QED
    BY <2>1, <2>3
<1>4. QED
  BY <1>1, <1>2, <1>3

\* The two outcome counters are exact for any number of workers and tasks.
THEOREM CountersAreExact == Spec => []OutcomesCounted
<1>1. Init => OutcomesCounted
  <2>1. ASSUME Init
        PROVE  With("completed") = {} /\ With("failed") = {} /\ processed = 0 /\ failed = 0
    BY <2>1 DEF Init, With
  <2>2. QED
    BY <2>1, FS_EmptySet DEF OutcomesCounted, With
<1>2. QED
  BY <1>1, InitPlace, NextPlace, NextCounted, PTL DEF Spec

=============================================================================
