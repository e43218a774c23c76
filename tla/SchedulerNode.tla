--------------------------- MODULE SchedulerNode ---------------------------
(****************************************************************************)
(* One node of internal/scheduler/scheduler.go over Redis: concurrent       *)
(* submissions, the recovery of the persisted queue at every start, the     *)
(* reassignment of failed tasks, API updates and deletions, the worker pool *)
(* of WorkerPool.tla, and the death of the process at any point.            *)
(*                                                                          *)
(* queue.Add is modelled both ways.  With lenRelocks it is the code as it   *)
(* stands: Add waits in Len() for the lock it holds and every later call on *)
(* the queue waits behind it (QueueLock.tla proves that nothing undoes it). *)
(* Without lenRelocks the queue keeps the contract of TaskQueue.tla, and    *)
(* the module shows what the logic above it does then.                      *)
(****************************************************************************)
EXTENDS WorkerPool

CONSTANTS
    Requests,      \* HTTP or gRPC handlers that may be submitting at a time
    MaxQueueSize,  \* s.maxQueueSize
    ApiIds,        \* tasks that clients update and delete
    ApiStatuses,   \* statuses a client writes through PUT /tasks/:id
    MaxRestarts,   \* bound: how often the process dies
    LenRelocks     \* which kinds of queue to consider

ASSUME CopiesForRecovery == Copies >= 2
ASSUME RequestsFinite == IsFiniteSet(Requests)
ASSUME MaxQueueSizeAssumption == MaxQueueSize \in Nat \ {0}
ASSUME ApiIdsAssumption == ApiIds \subseteq Ids
ASSUME ApiStatusesAssumption == ApiStatuses \subseteq Statuses \ {"none"}
ASSUME MaxRestartsAssumption == MaxRestarts \in Nat
ASSUME LenRelocksAssumption == LenRelocks \subseteq BOOLEAN

VARIABLES
    lenRelocks,  \* Len() locks the mutex that Add holds
    wedged,      \* some call on the queue holds its lock for ever
    sub,         \* the submission each handler is in
    rec,         \* the recoveryProcess goroutine
    reas,        \* the reassignFailedTasks call in progress
    api,         \* the updateTask handler in progress
    listed,      \* the status in the id's entry of the list queue:pending
    issued,      \* ids NewTask has given out
    acked,       \* ids whose submission was answered with success
    ran,         \* ids that some worker processed to the end
    restarts,    \* how often the process has died
    excused      \* history: unfinished records left by a write answered with an
                 \* error, by an update through the API over a status it had
                 \* not read, or by the end of a process

poolVars == <<pool, queue, status, pc, cur, metrics, store>>
nodeVars == <<lenRelocks, wedged, sub, rec, reas, api, listed,
              issued, acked, ran, restarts>>
allVars == <<poolVars, nodeVars, excused>>

Unfinished == {"pending", "running"}

Idle == [at |-> "idle", obj |-> None]

\* The one type invariant of the node; the pool has its own.
NodeTypeOK ==
    /\ TypeOK
    /\ lenRelocks \in LenRelocks
    /\ wedged \in BOOLEAN
    /\ sub \in [Requests -> [at : {"idle", "save", "add", "push", "stuck"},
                             obj : Objects \cup {None}]]
    /\ rec \in [at : {"off", "read", "loop", "done", "failed", "stuck"}, todo : SUBSET Ids]
    /\ reas \in [at : {"idle", "loop", "add", "stuck"}, todo : SUBSET Ids,
                 obj : Objects \cup {None}]
    /\ api \in [at : {"idle", "write"}, id : Ids \cup {None}, status : Statuses]
    /\ listed \in [Ids -> Statuses]
    /\ issued \in SUBSET Ids /\ acked \in SUBSET issued /\ ran \in SUBSET issued
    /\ restarts \in 0..MaxRestarts
    /\ excused \in SUBSET Ids

------------------------------------------------------------------------------

NodeInit ==
    /\ pool = "new"
    /\ queue = {}
    /\ status = [o \in Objects |-> "none"]
    /\ pc = [w \in Workers |-> "off"]
    /\ cur = [w \in Workers |-> None]
    /\ inProgress = 0 /\ processed = 0 /\ failed = 0 /\ queueSize = 0
    /\ stored = [id \in Ids |-> "none"]
    /\ refused = {}
    /\ lenRelocks \in LenRelocks
    /\ wedged = FALSE
    /\ sub = [r \in Requests |-> Idle]
    /\ rec = [at |-> "off", todo |-> {}]
    /\ reas = [at |-> "idle", todo |-> {}, obj |-> None]
    /\ api = [at |-> "idle", id |-> None, status |-> "none"]
    /\ listed = [id \in Ids |-> "none"]
    /\ issued = {} /\ acked = {} /\ ran = {}
    /\ restarts = 0
    /\ excused = {}

\* Scheduler.Start: the workers, and recoveryProcess in its own goroutine.
NodeStart ==
    /\ Start
    /\ rec' = [at |-> "read", todo |-> {}]
    /\ UNCHANGED <<lenRelocks, wedged, sub, reas, api, listed, issued,
                   acked, ran, restarts, excused>>

\* The process dies, by a crash or at the end of main after Scheduler.Stop:
\* everything in memory is gone, Redis keeps its records and its list.
Die ==
    /\ pool # "new"
    /\ restarts < MaxRestarts
    /\ restarts' = restarts + 1
    /\ pool' = "new"
    /\ queue' = {}
    /\ status' = [o \in Objects |-> "none"]
    /\ pc' = [w \in Workers |-> "off"]
    /\ cur' = [w \in Workers |-> None]
    /\ inProgress' = 0 /\ processed' = 0 /\ failed' = 0 /\ queueSize' = 0
    /\ refused' = {}
    /\ wedged' = FALSE
    /\ sub' = [r \in Requests |-> Idle]
    /\ rec' = [at |-> "off", todo |-> {}]
    /\ reas' = [at |-> "idle", todo |-> {}, obj |-> None]
    /\ api' = [at |-> "idle", id |-> None, status |-> "none"]
    /\ excused' = {id \in Ids : stored[id] \in Unfinished}
    /\ UNCHANGED <<stored, lenRelocks, listed, issued, acked, ran>>

\* Scheduler.Stop reaches workerPool.Stop.
NodeStop ==
    /\ restarts < MaxRestarts
    /\ StopCancel
    /\ UNCHANGED <<nodeVars, excused>>

NodeStopReturn == StopReturn /\ UNCHANGED <<nodeVars, excused>>

------------------------------------------------------------------------------
(* queue.Add and the storage as the scheduler uses them.                    *)

\* Mutated QueueAdd: the item is pushed without its task.
QueueAddNil(o) ==
    /\ ~wedged
    /\ queue' = queue \cup {None}
    /\ wedged' = lenRelocks

\* The task is in the queue; with lenRelocks the call keeps the lock.
QueueAdd(o) ==
    /\ ~wedged
    /\ queue' = queue \cup {o}
    /\ wedged' = lenRelocks

\* Mutated AfterAdd: control comes back although Len waits for the lock.
AfterAddReturns(l) == l

\* Where the caller of Add is afterwards: with lenRelocks, still inside.
AfterAdd(l) == IF lenRelocks THEN "stuck" ELSE l

\* A write of the record, with context.Background().
Write(id, s) == stored' = [stored EXCEPT ![id] = s]

\* The structs of one id: the first is made by NewTask, the second decoded by
\* the recovery, the others by reassignments, of which Copies bounds the number.
ByNewTask(id) == <<id, 1>>
ByRecovery(id) == <<id, 2>>
ByReassignment(o) ==
    /\ o[2] > 2
    /\ status[o] = "none"
    /\ \A c \in 3..(o[2] - 1) : status[<<o[1], c>>] # "none"

------------------------------------------------------------------------------
(* Who has a task in hand.                                                  *)

\* Somebody will bring the record of the task up to date: a worker that has
\* not saved its outcome yet, the queue, or a caller on its way to queue.Add.
InHand(id) ==
    \/ \E o \in queue : o[1] = id
    \/ \E w \in Workers : pc[w] \in Holding \ {"leave"} /\ cur[w][1] = id
    \/ \E r \in Requests : sub[r].at = "add" /\ sub[r].obj[1] = id
    \/ reas.at = "add" /\ reas.obj[1] = id

------------------------------------------------------------------------------
(* SubmitTask, SubmitTaskWithDependencies, SubmitTaskWithTimeout.           *)

\* The length is compared with the limit, s.isLeader is asked for, and NewTask
\* makes a task with an id of its own.  A refusal changes nothing, and Raft may
\* change s.isLeader at any time, so that any call may find either value.
SubmitCheck(r, id) ==
    /\ pool # "new" /\ ~wedged
    /\ sub[r].at = "idle"
    /\ Cardinality(queue) < MaxQueueSize
    /\ Ids \ issued # {}
    /\ id = CHOOSE i \in Ids \ issued : TRUE
    /\ issued' = issued \cup {id}
    /\ status' = [status EXCEPT ![ByNewTask(id)] = "pending"]
    /\ sub' = [sub EXCEPT ![r] = [at |-> "save", obj |-> ByNewTask(id)]]
    /\ UNCHANGED <<pool, queue, pc, cur, metrics, store, lenRelocks, wedged,
                   rec, reas, api, listed, acked, ran, restarts, excused>>

\* SaveTask, or an error for the client.  The write behind an error may have
\* taken effect: the task is dropped all the same and its record stays.
SubmitSave(r) ==
    LET id == sub[r].obj[1]
    IN /\ sub[r].at = "save"
       /\ \/ /\ Write(id, status[sub[r].obj])
             /\ sub' = [sub EXCEPT ![r].at = "add"]
             /\ UNCHANGED excused
          \/ /\ StoreMayFail
             /\ \/ Write(id, status[sub[r].obj]) /\ excused' = excused \cup {id}
                \/ UNCHANGED <<stored, excused>>
             /\ sub' = [sub EXCEPT ![r] = Idle]
       /\ UNCHANGED <<pool, queue, status, pc, cur, metrics, refused, lenRelocks,
                      wedged, rec, reas, api, listed, issued, acked, ran, restarts>>

\* queue.Add: from here on a worker may have the struct.
SubmitAdd(r) ==
    /\ sub[r].at = "add"
    /\ QueueAdd(sub[r].obj)
    /\ sub' = [sub EXCEPT ![r].at = AfterAdd("push")]
    /\ UNCHANGED <<pool, status, pc, cur, metrics, store, lenRelocks,
                   rec, reas, api, listed, issued, acked, ran, restarts, excused>>

\* SaveToQueue encodes the struct as it is by now and pushes it on the list.
\* On an error, with or without effect (the hybrid storage pushes in Redis and
\* then inserts in PostgreSQL), the client is told so, with the task already in
\* the queue.
SubmitPush(r) ==
    LET pushed == [listed EXCEPT ![sub[r].obj[1]] = status[sub[r].obj]]
    IN /\ sub[r].at = "push"
       /\ \/ /\ listed' = pushed
             /\ acked' = acked \cup {sub[r].obj[1]}
          \/ /\ StoreMayFail
             /\ listed' \in {listed, pushed}
             /\ UNCHANGED acked
       /\ sub' = [sub EXCEPT ![r] = Idle]
       /\ UNCHANGED <<poolVars, lenRelocks, wedged, rec, reas, api, issued,
                      ran, restarts, excused>>

------------------------------------------------------------------------------
(* recoveryProcess.                                                         *)

\* GetQueueTasks returns every entry of the list; only the ones whose snapshot
\* says Pending are kept.  An error ends the recovery of this start.
RecoverRead ==
    /\ rec.at = "read"
    /\ \/ rec' = [at |-> "loop", todo |-> {id \in Ids : listed[id] = "pending"}]
       \/ StoreMayFail /\ rec' = [at |-> "failed", todo |-> {}]
    /\ UNCHANGED <<poolVars, lenRelocks, wedged, sub, reas, api, listed,
                   issued, acked, ran, restarts, excused>>

\* One task goes back into the queue, whatever became of it since its snapshot.
RecoverAdd(id) ==
    /\ rec.at = "loop"
    /\ id \in rec.todo
    /\ QueueAdd(ByRecovery(id))
    /\ status' = [status EXCEPT ![ByRecovery(id)] = "pending"]
    /\ rec' = [at |-> AfterAdd("loop"), todo |-> rec.todo \ {id}]
    /\ UNCHANGED <<pool, pc, cur, metrics, store, lenRelocks, sub, reas,
                   api, listed, issued, acked, ran, restarts, excused>>

\* Mutated RecoverDone: the loop ends one task early.
RecoverDoneEarly ==
    /\ rec.at = "loop"
    /\ Cardinality(rec.todo) <= 1
    /\ rec' = [at |-> "done", todo |-> {}]
    /\ UNCHANGED <<poolVars, lenRelocks, wedged, sub, reas, api, listed,
                   issued, acked, ran, restarts, excused>>

RecoverDone ==
    /\ rec.at = "loop"
    /\ rec.todo = {}
    /\ rec' = [rec EXCEPT !.at = "done"]
    /\ UNCHANGED <<poolVars, lenRelocks, wedged, sub, reas, api, listed,
                   issued, acked, ran, restarts, excused>>

------------------------------------------------------------------------------
(* reassignFailedTasks, run by the ticker of taskReassignment while the     *)
(* node takes itself for the leader.                                        *)

ReassignRead ==
    /\ pool = "running"
    /\ reas.at = "idle"
    /\ reas' = [at |-> "loop", todo |-> {id \in Ids : stored[id] = "failed"},
                obj |-> None]
    /\ UNCHANGED <<poolVars, lenRelocks, wedged, sub, rec, api, listed,
                   issued, acked, ran, restarts, excused>>

\* The decoded task is reset to Pending and written.  An error skips the task,
\* whether or not the write behind it took effect.
ReassignUpdate(o) ==
    /\ reas.at = "loop"
    /\ o[1] \in reas.todo
    /\ ByReassignment(o)
    /\ \/ /\ Write(o[1], "pending")
          /\ status' = [status EXCEPT ![o] = "pending"]
          /\ reas' = [at |-> "add", todo |-> reas.todo \ {o[1]}, obj |-> o]
          /\ excused' = excused \ {o[1]}
       \/ /\ StoreMayFail
          /\ \/ Write(o[1], "pending") /\ excused' = excused \cup {o[1]}
             \/ UNCHANGED <<stored, excused>>
          /\ reas' = [reas EXCEPT !.todo = @ \ {o[1]}]
          /\ UNCHANGED status
    /\ UNCHANGED <<pool, queue, pc, cur, metrics, refused, lenRelocks, wedged,
                   sub, rec, api, listed, issued, acked, ran, restarts>>

\* Mutated ReassignAdd: the task is reset in the storage and never queued.
ReassignAddLost ==
    /\ reas.at = "add"
    /\ reas' = [reas EXCEPT !.at = "loop", !.obj = None]
    /\ UNCHANGED <<poolVars, lenRelocks, wedged, sub, rec, api, listed,
                   issued, acked, ran, restarts, excused>>

ReassignAdd ==
    /\ reas.at = "add"
    /\ QueueAdd(reas.obj)
    /\ reas' = [reas EXCEPT !.at = AfterAdd("loop"), !.obj = None]
    /\ UNCHANGED <<pool, status, pc, cur, metrics, store, lenRelocks,
                   sub, rec, api, listed, issued, acked, ran, restarts, excused>>

ReassignDone ==
    /\ reas.at = "loop"
    /\ reas.todo = {}
    /\ reas' = [reas EXCEPT !.at = "idle"]
    /\ UNCHANGED <<poolVars, lenRelocks, wedged, sub, rec, api, listed,
                   issued, acked, ran, restarts, excused>>

------------------------------------------------------------------------------
(* PUT and DELETE /tasks/:id.                                               *)

\* updateTask reads the record; the request may replace its status.
UpdateRead(id) ==
    /\ pool # "new"
    /\ api.at = "idle"
    /\ stored[id] # "none"
    /\ \E s \in ApiStatuses \cup {stored[id]} :
           api' = [at |-> "write", id |-> id, status |-> s]
    /\ UNCHANGED <<poolVars, lenRelocks, wedged, sub, rec, reas, listed,
                   issued, acked, ran, restarts, excused>>

\* It writes the whole record back, over whatever was written in between.
UpdateWrite ==
    /\ api.at = "write"
    /\ \/ Write(api.id, api.status)
       \/ StoreMayFail /\ UNCHANGED stored
    /\ api' = [at |-> "idle", id |-> None, status |-> "none"]
    /\ excused' = {id \in Ids : /\ stored'[id] \in Unfinished
                                /\ id \in excused \/ stored'[id] # stored[id]}
    /\ UNCHANGED <<pool, queue, status, pc, cur, metrics, refused, lenRelocks,
                   wedged, sub, rec, reas, listed, issued, acked, ran, restarts>>

\* DeleteTask deletes the record; queue and list keep the task.
DeleteTask(id) ==
    /\ pool # "new"
    /\ stored[id] # "none"
    /\ Write(id, "none")
    /\ excused' = excused \ {id}
    /\ UNCHANGED <<pool, queue, status, pc, cur, metrics, refused, nodeVars>>

------------------------------------------------------------------------------
(* The workers, with TaskProcessor: ProcessTask sleeps and returns nil.     *)

\* A final save without effect, which the worker only logs, leaves the record
\* as it was.
Silent(w) ==
    /\ \/ SelectDone(w) \/ SelectDefault(w) \/ Enter(w) \/ MarkRunning(w)
       \/ SaveRunning(w) \/ SaveFinal(w) \/ Leave(w)
    /\ excused' = {id \in Ids : /\ stored'[id] \in Unfinished
                                /\ \/ id \in excused
                                   \/ /\ pc[w] = "saveFinal" /\ cur[w][1] = id
                                      /\ stored'[id] # status[cur[w]]}
    /\ UNCHANGED nodeVars

\* Remove needs the lock of the queue.
TakeNext(w) ==
    /\ ~wedged
    /\ RemoveNil(w) \/ \E o \in Objects : RemoveTask(w, o)
    /\ UNCHANGED <<nodeVars, excused>>

ProcessTask(w) ==
    /\ ProcessOk(w)
    /\ ran' = ran \cup {cur[w][1]}
    /\ UNCHANGED <<lenRelocks, wedged, sub, rec, reas, api, listed,
                   issued, acked, restarts, excused>>

NodeWork(w) == Silent(w) \/ TakeNext(w) \/ ProcessTask(w)

Submission(r) == SubmitSave(r) \/ SubmitAdd(r) \/ SubmitPush(r)

Recovery == RecoverRead \/ RecoverDone \/ \E id \in Ids : RecoverAdd(id)

NodeNext ==
    \/ NodeStart \/ NodeStop \/ NodeStopReturn \/ Die
    \/ \E r \in Requests : Submission(r) \/ \E id \in Ids : SubmitCheck(r, id)
    \/ Recovery
    \/ ReassignRead \/ ReassignAdd \/ ReassignDone
    \/ \E o \in Objects : ReassignUpdate(o)
    \/ \E id \in ApiIds : UpdateRead(id) \/ DeleteTask(id)
    \/ UpdateWrite
    \/ \E w \in Workers : NodeWork(w)

\* Goroutines that can run do, a stopped process ends, and whoever runs the
\* node starts it again.
NodeFairness ==
    /\ WF_allVars(NodeStart)
    /\ WF_allVars(NodeStopReturn)
    /\ WF_allVars(pool = "stopped" /\ Die)
    /\ WF_allVars(Recovery)
    /\ \A w \in Workers : WF_allVars(NodeWork(w))

NodeSpec == NodeInit /\ [][NodeNext]_allVars /\ NodeFairness

------------------------------------------------------------------------------

\* Some struct of the task is queued or in the hands of a worker.
Live(id) ==
    \E o \in Objects : o[1] = id /\ (o \in queue \/ \E w \in Workers : Holds(w, o))

\* Len and Add are two calls (scheduler.go:184, 228): handlers that pass the
\* check together overshoot the limit, but never by more than their number
\* less one.  Recovered and reassigned tasks are not counted: they are never
\* checked.
SubmittedQueueBounded ==
    Cardinality({o \in queue : o[2] = 1})
        + Cardinality({r \in Requests : sub[r].at \in {"save", "add"}})
            <= MaxQueueSize + Cardinality(Requests) - 1

\* As the code stands, no submission is ever answered, nothing is ever pushed
\* on the list, and no worker ever runs a task: all it leaves behind are
\* records that say Pending.
RelockedNodeDoesNothing ==
    lenRelocks => /\ acked = {} /\ ran = {}
                  /\ \A id \in Ids : listed[id] = "none"
                  /\ \A w \in Workers : pc[w] \notin Holding

\* A submission that was answered with success is lost only by the race of
\* scheduler.go:228-230: if the snapshot on the list says Pending, then in
\* every later life of the node, once its recovery is over, the task has run,
\* is queued, or is being worked on.
AckedSurvivesRestart ==
    \A id \in acked \ ran :
        (pool # "new" /\ rec.at = "done" /\ listed[id] = "pending") => Live(id)

\* A record that says Pending or Running belongs to a task that somebody has
\* in hand, through submissions, reassignments (which write the record before
\* they queue the task, scheduler.go:496-508), copies of one task that run at
\* the same time and deletions of queued tasks.  The exceptions are the ones
\* the code has no answer to: a write that was answered with an error and may
\* have taken effect all the same (scheduler.go:224-226, 503-506) or whose
\* error a worker only logs (worker_pool.go:194-196), an update through the
\* API written over a status it had not read (api.go:307-333), and the end of
\* the process.
UnfinishedIsInHand ==
    \A id \in Ids \ excused : stored[id] \in Unfinished => InHand(id)

\* "Data Loss: 0% (Redis persistence)" (PERFORMANCE_ANALYSIS.md:109): once a
\* recovery is over, a task whose submission was answered with success has an
\* outcome in the storage, was deleted by a client, or is queued or being
\* worked on.
AckedTaskNotLost ==
    pool = "running" /\ rec.at = "done" =>
        \A id \in acked : stored[id] \in Terminal \cup {"none"} \/ Live(id)

\* A task whose snapshot says Pending runs in the end, however often the node
\* dies, unless the read of the list fails or the queue is wedged.
PersistedTaskRuns ==
    \A id \in Ids :
        listed[id] = "pending" ~> (id \in ran \/ rec.at = "failed")

=============================================================================
