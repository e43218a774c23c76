----------------------------- MODULE WorkerPool -----------------------------
(****************************************************************************)
(* internal/worker/worker_pool.go: the worker goroutines, the task structs  *)
(* they take from the queue and write to, the storage they report to, the   *)
(* metrics they share, and the Stop that waits for them.                    *)
(*                                                                          *)
(* The pool knows its queue, its storage and its processor by interfaces    *)
(* (worker_pool.go:13-15, 30-42).  The queue is any collection whose Remove *)
(* takes one element; the processor may succeed or fail; the storage may    *)
(* fail, and reports an error for certain once the pool's context is        *)
(* cancelled.                                                               *)
(****************************************************************************)
EXTENDS Integers, FiniteSets

CONSTANTS
    Ids,           \* task ids
    Copies,        \* how many structs with one id may exist
    Workers,       \* the workerCount workers
    StoreMayFail,  \* whether the storage may refuse a write on its own
    None           \* no task

\* A *types.Task.  Recovery and reassignment decode new structs for ids that
\* may be queued already, so a struct is an id and a copy number.
Objects == Ids \X (1..Copies)

ASSUME NoneNotObject == None \notin Objects
ASSUME CopiesAssumption == Copies \in Nat \ {0}
ASSUME IdsFinite == IsFiniteSet(Ids)
ASSUME WorkersFinite == IsFiniteSet(Workers)
ASSUME StoreAssumption == StoreMayFail \in BOOLEAN

VARIABLES
    pool,        \* "new", "running", "cancelled" (Stop waits), "stopped"
    queue,       \* the structs in the queue
    status,      \* task.Status of every struct, "none" before it exists
    pc,          \* where each worker stands
    cur,         \* the struct it holds
    inProgress,  \* metrics.TasksInProgress
    processed,   \* metrics.TasksProcessed
    failed,      \* metrics.TasksFailed
    queueSize,   \* metrics.QueueSize
    stored,      \* the status in the stored record of every id
    refused      \* ids for which "failed to update" was logged

metrics == <<inProgress, processed, failed, queueSize>>
store == <<stored, refused>>
vars == <<pool, queue, status, pc, cur, metrics, store>>

Terminal == {"completed", "failed"}
Statuses == {"none", "pending", "running"} \cup Terminal

\* A worker that holds a struct passes through these, in this order.
Holding == {"enter", "mark", "saveRunning", "process", "saveFinal", "leave"}
Locations == {"off", "select", "remove", "exit"} \cup Holding

Cancelled == pool \in {"cancelled", "stopped"}

\* The one type invariant.
TypeOK ==
    /\ pool \in {"new", "running", "cancelled", "stopped"}
    /\ queue \in SUBSET Objects
    /\ status \in [Objects -> Statuses]
    /\ pc \in [Workers -> Locations]
    /\ cur \in [Workers -> Objects \cup {None}]
    /\ inProgress \in Int /\ processed \in Nat /\ failed \in Nat
    /\ queueSize \in Nat
    /\ stored \in [Ids -> Statuses]
    /\ refused \in SUBSET Ids

------------------------------------------------------------------------------

\* NewWorkerPool.  The records of the tasks are written before the structs
\* get into the queue (scheduler.go:224-228).
Init ==
    /\ pool = "new"
    /\ queue = {}
    /\ status = [o \in Objects |-> "none"]
    /\ pc = [w \in Workers |-> "off"]
    /\ cur = [w \in Workers |-> None]
    /\ inProgress = 0 /\ processed = 0 /\ failed = 0 /\ queueSize = 0
    /\ stored = [id \in Ids |-> "pending"]
    /\ refused = {}

\* Start launches one goroutine per worker.
Start ==
    /\ pool = "new"
    /\ pool' = "running"
    /\ pc' = [w \in Workers |-> "select"]
    /\ UNCHANGED <<queue, status, cur, metrics, store>>

\* Stop takes wp.mu and cancels the context ...
StopCancel ==
    /\ pool = "running"
    /\ pool' = "cancelled"
    /\ UNCHANGED <<queue, status, pc, cur, metrics, store>>

\* Mutated StopReturn: no wg.Wait().
StopReturnAtOnce ==
    /\ pool = "cancelled"
    /\ pool' = "stopped"
    /\ UNCHANGED <<queue, status, pc, cur, metrics, store>>

\* ... and returns when every worker has.
StopReturn ==
    /\ pool = "cancelled"
    /\ \A w \in Workers : pc[w] = "exit"
    /\ pool' = "stopped"
    /\ UNCHANGED <<queue, status, pc, cur, metrics, store>>

\* GetMetrics needs wp.mu, which Stop holds while it waits.
GetMetrics ==
    /\ pool \in {"running", "stopped"}
    /\ queueSize' = Cardinality(queue)
    /\ UNCHANGED <<pool, queue, status, pc, cur, inProgress, processed, failed, store>>

\* Somebody adds a pending task to the queue.
Offer(o) ==
    /\ status[o] = "none"
    /\ \A c \in 1..(o[2] - 1) : status[<<o[1], c>>] # "none"
    /\ status' = [status EXCEPT ![o] = "pending"]
    /\ queue' = queue \cup {o}
    /\ UNCHANGED <<pool, pc, cur, metrics, store>>

------------------------------------------------------------------------------
(* One worker.                                                              *)

Goto(w, l) == pc' = [pc EXCEPT ![w] = l]

\* Mutated SelectDone: the worker never looks at ctx.Done().
SelectDoneIgnored(w) ==
    /\ pc[w] = "select"
    /\ Cancelled
    /\ Goto(w, "remove")
    /\ UNCHANGED <<pool, queue, status, cur, metrics, store>>

\* select: <-ctx.Done() is ready once the context is cancelled.
SelectDone(w) ==
    /\ pc[w] = "select"
    /\ Cancelled
    /\ Goto(w, "exit")
    /\ UNCHANGED <<pool, queue, status, cur, metrics, store>>

SelectDefault(w) ==
    /\ pc[w] = "select"
    /\ ~Cancelled
    /\ Goto(w, "remove")
    /\ UNCHANGED <<pool, queue, status, cur, metrics, store>>

\* Remove on an empty queue: sleep and look again.
RemoveNil(w) ==
    /\ pc[w] = "remove"
    /\ queue = {}
    /\ Goto(w, "select")
    /\ UNCHANGED <<pool, queue, status, cur, metrics, store>>

\* Mutated RemoveTask: Get instead of Remove, the task stays in the queue.
RemoveTaskPeeks(w, o) ==
    /\ pc[w] = "remove"
    /\ o \in queue
    /\ cur' = [cur EXCEPT ![w] = o]
    /\ Goto(w, "enter")
    /\ UNCHANGED <<pool, queue, status, metrics, store>>

\* The context may have been cancelled since the select: nobody looks again.
RemoveTask(w, o) ==
    /\ pc[w] = "remove"
    /\ o \in queue
    /\ queue' = queue \ {o}
    /\ cur' = [cur EXCEPT ![w] = o]
    /\ Goto(w, "enter")
    /\ UNCHANGED <<pool, status, metrics, store>>

\* processTask counts the task in ...
Enter(w) ==
    /\ pc[w] = "enter"
    /\ inProgress' = inProgress + 1
    /\ Goto(w, "mark")
    /\ UNCHANGED <<pool, queue, status, cur, processed, failed, queueSize, store>>

\* Mutated MarkRunning: the status is cleared instead of set.
MarkRunningUnset(w) ==
    /\ pc[w] = "mark"
    /\ status' = [status EXCEPT ![cur[w]] = "unknown"]
    /\ Goto(w, "saveRunning")
    /\ UNCHANGED <<pool, queue, cur, metrics, store>>

\* ... and writes Running into the struct it shares with whoever queued it.
MarkRunning(w) ==
    /\ pc[w] = "mark"
    /\ status' = [status EXCEPT ![cur[w]] = "running"]
    /\ Goto(w, "saveRunning")
    /\ UNCHANGED <<pool, queue, cur, metrics, store>>

\* Mutated UpdateTask: an error is taken for success and never logged.
UpdateTaskSilent(o) ==
    LET written == [stored EXCEPT ![o[1]] = status[o]]
    IN /\ \/ ~Cancelled /\ stored' = written
          \/ (Cancelled \/ StoreMayFail) /\ stored' \in {stored, written}
       /\ UNCHANGED refused

\* storage.UpdateTask(ctx, task) writes the whole record, or returns an error
\* that is logged and forgotten: the write may have taken effect or not.  With
\* a cancelled ctx an error is certain.
UpdateTask(o) ==
    LET written == [stored EXCEPT ![o[1]] = status[o]]
    IN \/ ~Cancelled /\ stored' = written /\ UNCHANGED refused
       \/ /\ Cancelled \/ StoreMayFail
          /\ stored' \in {stored, written}
          /\ refused' = refused \cup {o[1]}

SaveRunning(w) ==
    /\ pc[w] = "saveRunning"
    /\ UpdateTask(cur[w])
    /\ Goto(w, "process")
    /\ UNCHANGED <<pool, queue, status, cur, metrics>>

\* Mutated ProcessError: the failure branch counts the task as processed.
ProcessErrorMiscounted(w) ==
    /\ pc[w] = "process"
    /\ status' = [status EXCEPT ![cur[w]] = "failed"]
    /\ processed' = processed + 1
    /\ Goto(w, "saveFinal")
    /\ UNCHANGED <<pool, queue, cur, inProgress, failed, queueSize, store>>

\* Mutated ProcessError: the failure branch returns without the deferred
\* decrement and the final UpdateTask.
ProcessErrorReturnsEarly(w) ==
    /\ pc[w] = "process"
    /\ status' = [status EXCEPT ![cur[w]] = "failed"]
    /\ failed' = failed + 1
    /\ cur' = [cur EXCEPT ![w] = None]
    /\ Goto(w, "select")
    /\ UNCHANGED <<pool, queue, inProgress, processed, queueSize, store>>

\* ProcessTask returned an error.
ProcessError(w) ==
    /\ pc[w] = "process"
    /\ status' = [status EXCEPT ![cur[w]] = "failed"]
    /\ failed' = failed + 1
    /\ Goto(w, "saveFinal")
    /\ UNCHANGED <<pool, queue, cur, inProgress, processed, queueSize, store>>

\* ProcessTask returned nil.
ProcessOk(w) ==
    /\ pc[w] = "process"
    /\ status' = [status EXCEPT ![cur[w]] = "completed"]
    /\ processed' = processed + 1
    /\ Goto(w, "saveFinal")
    /\ UNCHANGED <<pool, queue, cur, inProgress, failed, queueSize, store>>

SaveFinal(w) ==
    /\ pc[w] = "saveFinal"
    /\ UpdateTask(cur[w])
    /\ Goto(w, "leave")
    /\ UNCHANGED <<pool, queue, status, cur, metrics>>

\* The deferred function counts the task out again.
Leave(w) ==
    /\ pc[w] = "leave"
    /\ inProgress' = inProgress - 1
    /\ cur' = [cur EXCEPT ![w] = None]
    /\ Goto(w, "select")
    /\ UNCHANGED <<pool, queue, status, processed, failed, queueSize, store>>

Work(w) ==
    \/ SelectDone(w)
    \/ SelectDefault(w)
    \/ RemoveNil(w)
    \/ \E o \in Objects : RemoveTask(w, o)
    \/ Enter(w)
    \/ MarkRunning(w)
    \/ SaveRunning(w)
    \/ ProcessError(w)
    \/ ProcessOk(w)
    \/ SaveFinal(w)
    \/ Leave(w)

Next ==
    \/ Start
    \/ StopCancel
    \/ StopReturn
    \/ GetMetrics
    \/ \E o \in Objects : Offer(o)
    \/ \E w \in Workers : Work(w)

\* A started goroutine keeps running, and the processor, which sleeps for at
\* most three seconds (scheduler.go:74-92), returns.
Fairness == WF_vars(StopReturn) /\ \A w \in Workers : WF_vars(Work(w))

Spec == Init /\ [][Next]_vars /\ Fairness

------------------------------------------------------------------------------

Holds(w, o) == pc[w] \in Holding /\ cur[w] = o

\* Every task that was ever queued is in exactly one place: in the queue and
\* still pending, in the hands of one worker, or finished.  No task is lost
\* between Remove and the final status, and none is run by two workers.
TaskHasOnePlace ==
    \A o \in Objects :
        /\ o \in queue => status[o] = "pending" /\ \A w \in Workers : ~Holds(w, o)
        /\ \A v, w \in Workers : Holds(v, o) /\ Holds(w, o) => v = w
        /\ status[o] \in {"pending", "running"} =>
               o \in queue \/ \E w \in Workers : Holds(w, o)

\* TasksInProgress is the number of workers inside processTask
\* (worker_pool.go:150-160), on every path out of it.
InProgressExact ==
    inProgress = Cardinality({w \in Workers : pc[w] \in Holding \ {"enter"}})

\* Every finished task is counted once, under the outcome it had
\* (worker_pool.go:175-192).
OutcomesCounted ==
    /\ processed = Cardinality({o \in Objects : status[o] = "completed"})
    /\ failed = Cardinality({o \in Objects : status[o] = "failed"})

\* When every run of a task is over and no write for it was refused, the
\* stored record shows the outcome of one of the runs, even if copies of the
\* task ran at the same time: no "running" survives.
FinalOutcomeStored ==
    \A id \in Ids \ refused :
        LET mine == {o \in Objects : o[1] = id /\ status[o] # "none"}
        IN  (mine # {} /\ \A o \in mine : status[o] \in Terminal
                                          /\ \A w \in Workers : ~Holds(w, o))
                => \E o \in mine : stored[id] = status[o]

\* After Stop has returned nobody works: no task is left half done, no worker
\* will write to the storage again.
StopQuiesces ==
    pool = "stopped" =>
        /\ \A w \in Workers : pc[w] = "exit"
        /\ \A o \in Objects : status[o] # "running"
        /\ inProgress = 0

\* Stop returns: each worker finishes the task it holds, at most one that it
\* takes after the cancellation, and leaves (worker_pool.go:90-99).
StopReturns == pool = "cancelled" ~> pool = "stopped"

=============================================================================
