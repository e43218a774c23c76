# A TLA+ model of the distributed task scheduler

The repository is a task scheduler written in Go: nodes elect a leader with
Raft, the leader takes tasks over HTTP and gRPC, keeps them in a priority queue
in memory and in Redis (optionally PostgreSQL as well), and a pool of workers
runs them. This directory holds TLA+ modules translated from the code under
`src/internal`, TLC models that check them on small instances, and TLAPS proofs
of the main safety properties for every instance.

`PROJECT.json` lists the components, the runs, the mutants, the correspondence
of every definition to lines of source, the findings, the hazards and the
theorems. This file explains them.

## 1. Inventory

| Component | State | Operations | Interacts with |
|---|---|---|---|
| Priority queue (`queue/priority_queue.go`) | `items` (a heap), `Index` of each item, `taskMap`, an RWMutex `mu` | Add, Remove, RemoveByID, Update, Clear; Len, Get, GetByID, GetAll, GetStats | calls `container/heap`, which calls back into Len, Less, Swap, Push, Pop |
| Worker pool (`worker/worker_pool.go`) | workers, context, metrics; the `*types.Task` structs it shares with whoever queued them | Start, Stop, GetMetrics, worker loop, processTask | Remove on the queue, UpdateTask on the storage, the task processor |
| Scheduler (`scheduler/scheduler.go`) | `isLeader`, `maxQueueSize`, the persisted queue in Redis | SubmitTask and its two variants, recoveryProcess, reassignFailedTasks, onLeaderChange, leaderResponsibilities, heartbeat, updateNodeInfo, checkFailures, autoscaling, backpressure, Start, Stop | everything |
| Leader election (`cluster/leader_election.go`) | Raft's state and configuration, the polling goroutine | Start, Stop, IsLeader, monitorLeaderChanges, AddPeer, RemovePeer | calls onLeaderChange; Raft is a library |
| Redis storage (`storage/storage.go`, `redis_client.go`) | task records, the list `queue:pending`, node records with a TTL of 30 s | Save/Get/Update/Delete task, SaveToQueue, GetQueueTasks, SaveNodeInfo, ... | scheduler, workers, API |
| Hybrid storage (`storage/hybrid_storage.go`) | Redis in front of PostgreSQL | the same interface, two calls each | Redis storage, PostgreSQL storage |
| PostgreSQL storage (`storage/postgres_storage.go`) | tables `tasks`, `nodes` | the same interface | hybrid storage |
| Node registry and failure detector (`scheduler/scheduler.go`) | a stamped record per node, `failedNodes` | heartbeat, leaderResponsibilities, updateNodeInfo, failureDetection, checkFailures | SaveNodeInfo and GetAllNodes of either storage |
| Distributed coordinator (`cluster/distributed_coordinator.go`) | peers map | AddPeer, RemovePeer, SetLeader, health checks, distribution | AddPeer has no caller: the map stays empty |
| HTTP API, gRPC server (`api`, `grpc`) | none of their own | submit, get, update, delete, list, cluster info | scheduler, storage |
| Process (`cmd/scheduler/main.go`) | | flags, start, signal, stop | all |
| CLI and web UI | none | HTTP clients | HTTP API |

What is hard here, and what correctness means:

* **The queue's mutex.** Methods that hold it for writing call `container/heap`,
  which calls a method that takes it again. Correct: calls exclude each other
  and return.
* **The heap.** Removal from the middle goes by an index kept inside the item.
  Correct: after every operation the foremost task is the one Remove takes, the
  index and the map agree with the array.
* **Shared task structs.** A struct is written by a worker while the submitter
  may still be encoding it. Copies of one task (recovery, reassignment) run side
  by side. Correct: no task is lost or run by two workers, counters are exact,
  the stored record ends with an outcome.
* **Several steps without a transaction.** Submission is check, save, add, push;
  the process can die or a call fail between any two. Correct: what was
  acknowledged runs in the end.
* **Two stores without a lock.** Correct: readers see the last successful write,
  a deleted task stays deleted.
* **Polling.** `isLeader` follows Raft at a distance and is copied into a record
  by several goroutines. Correct: the lag is bounded and stale copies do not
  last; when the leader goes away another takes over.
* **Time.** Every node stamps its record and judges the others by the age of
  theirs; stamps, writes, reads and the comparison are different moments.
  Correct: who is accused did lapse, and who died is noticed.
* **Forms of one value.** A status is a number, a text in a row, an enumeration
  of gRPC. Correct: what has a name comes back as what it was.

`PROJECT.json` lists the hazards one by one, with the line and the properties
that would catch each.

## 2. Modules

| Module | Models | Uses |
|---|---|---|
| `QueueLock` | `pq.mu` and every call on it; the heap is only a set | |
| `PriorityQueue` | `items`, `Index`, `taskMap` through each swap of `container/heap` | refines `TaskQueue` |
| `TaskQueue` | what a queue promises: Remove takes a foremost task | |
| `WorkerPool` | workers, structs, metrics, Stop | |
| `SchedulerNode` | one node: submissions, recovery, reassignment, API updates and deletions, death and restart | extends `WorkerPool` |
| `TaskCodec` | names and parsers of statuses and priorities, and their gRPC conversions, as operators | |
| `HybridStorage` | one task record in two stores, three clients | extends `TaskCodec` |
| `NodeRegistry` | stamps and records of nodes, expiry, the failure detector, in discrete time | |
| `LeaderElection` | joining, Raft by its contract, the poll, `isLeader`, the node record | |
| `*Proofs` | the theorems about the module of that name | extends it and `TLAPS` |
| `MC*` | instances for TLC | extends the module it names |

Definitions called *Mutated X* stand next to the definition they vary. They are
plausible mistakes, used to see that a property would notice; no specification
uses them.

### QueueLock

`writer` and `readers` are the mutex: `writer` is set as soon as `Lock` has
excluded other writers (Go's `RWMutex` stops new readers from then on), `AcquireLock`
is the point where the last reader has left. A call is a walk of `pc` through
lock, body, the `Len()` that `container/heap` performs, and unlock. `RLock` waits
for *any* writer, because `sync.RWMutex` does not know its owner. The bodies
carry the early returns: Remove on an empty queue and keyed calls on an unknown
id never reach `Len`.

### PriorityQueue and TaskQueue

Here `Len` is the number of items: what happens *inside* the lock if it were
granted. `Push`, `Swap` and `Pop` are the methods of the code with their writes to
`Index` and `taskMap`; `DownSwap`, `DownStop`, `UpSwap`, `UpStop` and `PopLast` are
single iterations of the sift loops, so intermediate arrays are states. An item
is an id and a copy number: recovery and reassignment queue an id again without
looking, and `taskMap` then points to the newest. `TaskQueue` is the promise; the
refinement maps its `queued` to the set of items in the array.

### WorkerPool

A struct (`Objects`) is an id and a copy number; `stored` has one record per id.
Each `pc` value of a worker is one critical section or one call of `processTask`,
in the order of the code; the write of the final status is one step with the
critical section of the counter next to it, so that the moment between the two is
not seen. The select looks at the context once per round;
`RemoveTask` may therefore happen after the cancellation, as in the code. A write
with a cancelled context is refused for certain, which is what the Redis and
PostgreSQL clients do; any other write may be answered with an error, and may have
taken effect all the same.

### SchedulerNode

Extends the pool: its `queue` is filled by `SubmitAdd`, `RecoverAdd` and
`ReassignAdd`. `listed` is the snapshot of a task in `queue:pending`: the status the
struct had at the moment `SaveToQueue` encoded it, which may already be Running.
The list is never trimmed. `Die` ends the process anywhere, by a crash or after
Stop; Redis survives.

Two kinds of queue are considered, chosen in the initial state by `lenRelocks`:
the queue as it stands, whose first `Add` never returns (shown in `QueueLock`), and
a queue that keeps the promise of `TaskQueue`. Without the second nothing above
the queue could be said at all; without the first the module would not be the
code. `RelockedNodeDoesNothing` is about the first, the other properties are about
the second. Every write that is answered with an error may have taken effect: the
record of a submission that was refused, an entry pushed on the list, the record a
reassignment reset and then skipped.

`s.isLeader` is not a variable here. It only makes a submission or a reassignment
return without effect, and `LeaderElection` shows that it may change at any time;
a handler may simply not take its first step.

One history variable, which no guard reads, sets the records in Redis against what
the node is about to do. `excused` collects the unfinished records the code has no
answer to: those a write left that was answered with an error, those an update
through the API wrote over a status it had not read, and those left when the
process ended. With these exceptions `UnfinishedIsInHand` says that a record with
Pending or Running always has somebody who will bring it up to date.

Deleting a task removes its record only. A task that is queued or running writes
the record back when a worker saves it, and a task whose list entry says Pending is
queued again, and written back, at the next start, although the client was told
"Task deleted successfully" (`api.go:360`). The model has these behaviours; no
property forbids them over Redis, because nothing in the code prevents them. The
run `hybrid_delete` is about the same promise under the hybrid storage.

### TaskCodec

The switches of `types.go` and `grpc/server.go`, case by case. Nothing keeps a
client from sending a number without a meaning (`api.go:322-324`), so they are
defined on all integers.

### HybridStorage

A record is the number of the write that made it, the status it carries
(`Given`, any number) and whether it is whole. `ToRow` and `FromRow` are the two
conversions: the row has the status as a text and lacks Dependencies and
MaxDuration. Every operation is split at its calls to the stores. A call that
fails may still have had its effect, and an error ends the operation, except that
a failed read of Redis goes on to PostgreSQL. `want`, `succeeded`, `solo`, `settled`,
`erred`, `alone` and `tomb` are history: they only record what the properties speak
about. Overlapping operations may leave the stores different; `settled` becomes
true again when a write or delete that was alone succeeds.

### NodeRegistry

Time is discrete and only ages are kept. A stamp is made in one step
(`BeatStamp`, `LeadStamp`) and stored in another, at most `Latency` later; a failed
store may have had its effect. Two goroutines of a node store stamps side by
side, so the older may be stored last. `CheckList` and `CheckGet` read the records,
all at once from PostgreSQL or key by key from Redis, and `CheckJudge` compares
them with the time it is *then*. `Tick` waits for everything that is due. Redis
drops a record `TTL` after it was stored, PostgreSQL keeps it. `checkFailures` begins
with `workerPool.GetMetrics()` (`scheduler.go:447`), which asks the queue for its
length: `QueueAdd` is the first task added to the queue of a node, after which the
queue is wedged (finding 1), and `CheckBlock` is the round of the detector that then
never comes back. The nodes are taken
to read one clock in UTC, as the container image does: `last_seen` is a
`TIMESTAMP` without a zone, so that nodes elsewhere would read back other times
than they wrote. `Beaters`, `Watchers` and `Submitters` exist to keep instances small; in the
code every node is all three.

### LeaderElection

`Seeds` are the nodes started without `-peers`. The topology of the Makefile, of
`docker-compose.yml` and of the integration test is one seed and several others.
Of Raft only this is assumed: a majority of a configuration elects one of its
members, only a leader changes a configuration, and it is kept on disk. A node
with peers asks its own Raft, a follower without a configuration, to add the
peers; the call fails and the error is logged. `InfoRead` and `InfoWrite` split
`updateNodeInfo` at the gap between reading `s.isLeader` without its lock and
storing it; heartbeat and every `leaderResponsibilities` do this side by side.
`InfoFail` is a write that is answered with an error, which is logged
(`scheduler.go:360-362`), and may have taken effect. `fresh` remembers whether the
last write of a running node succeeded; the record may expire whenever it did not,
also under a running node.

## 3. What is checked

| Run | Shows | Instance |
|---|---|---|
| `queue_lock` | mutators are alone; no reader ever sees a task; a wedge is for ever; every call returns unless there is a wedge | 3 goroutines, 1 task |
| `queue_lock_add` | *violated*: Add returns | 2 goroutines |
| `heap` | heap order, indices, map, Get, refinement of `TaskQueue` | 3 ids, 2 copies, 3 keys with a tie in the priority; symmetric in the ids |
| `worker_pool` | one place per struct, exact metrics, outcome stored, Stop quiesces and returns | 2 workers, 3 structs of one id, failing storage |
| `node_restart` | a node with the queue as it stands does nothing; with a working queue an acknowledged task with a Pending snapshot survives restarts and runs in the end, and unfinished records are in somebody's hands | 1 id, 3 copies, both queues, failing storage, updates and deletions, 1 restart |
| `node_data_loss` | *violated*: an acknowledged task is not lost | 1 id, 2 copies, no failures, 1 restart |
| `hybrid` | once settled, stores show the last success, tasks stay whole and PostgreSQL is never ahead; a status survives the fallback; a deleted row stays deleted | 3 clients, 3 writes (a status in the middle, the last one, and a number that is none), failing calls |
| `hybrid_delete` | *violated*: a deleted task is not found | 2 clients, 1 write, no failures |
| `leadership` | only seeds lead, the flag lags one poll, the record settles | 1 seed, 1 other, 2 elections per start, failing writes |
| `leader_failover` | *violated*: failover | 1 seed, 1 other |
| `cluster_health` | nobody is accused in vain; over hybrid storage the dead are noticed by every detector whose queue is not wedged | 1 node watched by another, which may get a task; both storages, 2 deaths; a unit is 5 s: heartbeat 1, check 2, TTL and limit 6, calls up to 1, 2 missed heartbeats |
| `redis_deaths` | *violated*: the dead are noticed over Redis alone | the same nodes and periods, Redis, 1 death |

The longest runs are `node_restart` (600 000 states), `leadership` (234 000) and
`cluster_health` (223 000), each about a minute and a half.

### Findings

1. **`Add` never returns.** `priority_queue.go:79` calls `heap.Push` under
   `mu.Lock()`; `heap.Push` calls `Len()`, which calls `mu.RLock()`. The queue's own
   tests (`priority_queue_test.go:35-41`) cannot pass. `QueueLockProofs` shows that
   from then on no call on the queue returns, and `RelockedNodeDoesNothing` what
   that means for a node: no submission is ever answered and no task ever runs.
2. **Acknowledged tasks can be lost.** `PERFORMANCE_ANALYSIS.md:109` says "Data
   Loss: 0% (Redis persistence)". `submitTaskInternal` queues the struct before
   `SaveToQueue` encodes it (`scheduler.go:228-231`): if a worker has it by then, the
   snapshot on the list says Running. When the process ends before the outcome is
   stored, nothing looks at the task again: recovery takes only entries that say
   Pending, reassignment only records that say Failed. The run `node_data_loss` needs
   one fast worker and one death, and no failing call. A graceful Stop does it as
   well: it cancels the context that the last `UpdateTask` of a task in progress uses
   (`worker_pool.go:94, 194`), so that the record says Running for ever, against
   "Updates task status throughout lifecycle" (`ARCHITECTURE.md:68`). With a snapshot
   that says Pending the opposite happens: the list is never trimmed, and the task
   runs again at every start (`AckedSurvivesRestart`, `PersistedTaskRuns`).
3. **Deleted tasks come back.** `GetTask` fills Redis with a row it read before a
   deletion (`hybrid_storage.go:53`).
4. **No failover.** A node with peers never belongs to a Raft configuration
   (`leader_election.go:92-97`) and so never takes over.
5. **Over Redis alone a death is not noticed.** `PERFORMANCE_ANALYSIS.md:178` gives
   "Node Failure: > 30 seconds no response" (also line 106, and
   `ARCHITECTURE.md:125-131`). With Redis alone, the default of `main.go`, the record
   of a dead node is dropped 30 s after it was stored (`storage.go:197`), and
   `checkFailures` looks for records older than 30 s (`scheduler.go:461`). The run
   `redis_deaths` shows a death that is never noticed, and the theorem
   `RedisNeverShowsDeaths` that none is noticed unless some call was slow. Over hybrid
   storage the dead are noticed, by a node whose queue nobody used: finding 1 stops
   the detector too.

### Bounds

Every bound is a constant and appears only in guards: `Copies`, `MaxRestarts`,
`MaxWrites`, `MaxElections`, `Latency`, `MaxDeaths`. They are large enough for the cases in question:
three copies let the submitted, the recovered and one reassigned struct of a task
exist together; three goroutines are a writer that holds, one that waits and a
reader; three clients are a writer, a deleter and a reader that overlap; six heap
items are the fewest for which `heap.Remove` has to sift upwards (the item that
fills the gap comes from another branch); two elections give two concurrent
`leaderResponsibilities` besides heartbeat. The recovery writes nothing to Redis,
so a second death of `node_restart` starts from records of the same shape as the
first. In `cluster_health` the periods have the proportions of the
code, and `(Tolerated + 1) * Beat + 3 * Latency <= FailAfter` holds with equality:
the bound on what the detector forgives is tight, and the mutant that turns `>`
into `>=` breaks it. The theorems below have no such
bounds: they hold for every value of these constants.

`MaxRestarts` also guards Stop in `SchedulerNode`, so that a node whose deaths are
used up is not stopped for good: `PersistedTaskRuns` is about a node that somebody
starts again.

Deadlock is checked except where the system stops: a wedged queue
(`queue_lock*`, `node_restart`).

### Fairness

* `QueueLock`: goroutines that can run do (weak fairness of each step). Acquiring
  the mutex has strong fairness: a waiting writer stops new readers, and `Unlock`
  admits the waiting readers before the next writer, so `sync.RWMutex` starves
  nobody.
* `WorkerPool`: each worker goes on, which includes that the processor returns (it
  sleeps at most three seconds), and Stop wakes up when the workers are gone.
* `SchedulerNode`: workers, the recovery and Stop go on; a stopped process ends; the
  node is started again. Nothing is assumed of submissions, clients, reassignment
  or crashes.
* `LeaderElection`: tickers tick, goroutines run, Start and Stop get through, and Raft
  elects a follower that can be elected. Nothing makes a node start, stop, die or
  lose leadership, and nothing makes a write succeed: `RecordSettles` is about nodes
  whose writes do from some time on.

* `NodeRegistry`: time passes, heartbeats that are due happen, calls return within
  their bound, and a `GetAllNodes` that is tried for ever succeeds at some time
  (strong fairness of `CheckList`, which the failing call competes with); a detector
  whose queue is wedged gets stuck in its next round. Nothing makes a node start,
  die or add a task to its queue.

`HybridStorage`, `PriorityQueue` and `TaskQueue` state safety only and have no fairness.

## 4. What is proved

All proofs are checked by TLAPS with SMT, Zenon and, for the temporal step, PTL.
They assume only the named `ASSUME`s on constants (sets finite, bounds natural
numbers, `None` different from the real values, and for `NodeRegistry` the relations
between the periods), which TLC evaluates in the runs.

| Module | Theorems | Inductive invariant |
|---|---|---|
| `QueueLockProofs` | TypeCorrect, MutualExclusion, QueueReadsEmpty, WedgeForever | `IInv` |
| `PriorityQueueProofs` | HeapTypeCorrect, HeapIsOrdered, IndexIsExact, MapIsSound, GetIsForemost, HeapImplementsTaskQueue | `HeapInv` (`PlaceInv`, `MapInv`, `OrderInv`, `TakenInv`) |
| `WorkerPoolProofs` | PoolTypeCorrect, NoTaskLostOrShared, OutcomeStored, InProgressIsExact, CountersAreExact, StopIsQuiet | `Place` (types, where each struct is, status against location), `Settled`, and each counter with `Place` |
| `SchedulerNodeProofs` | NodeTypeCorrect, NothingRuns, OvershootIsBounded, AckedTasksSurvive, UnfinishedTasksInHand | `NodeInv`, with it `RelockInv`, `Bounded`, `LiveInv`, `StructInv` |
| `HybridStorageProofs` | StorageTypeCorrect, LastSuccess, KeptWhole, NeverAhead, StatusKept, RowStaysDeleted | `SoloInv`, `SettledInv`, `CalmInv`, `DeletionInv`, `StatusInv`, `Bounded` |
| `TaskCodecProofs` | StatusThroughRow, PriorityThroughRow, GrpcShowsNoFalseProgress, GrpcHidesTimeouts, GrpcPriorityRoundTrip | none: for every integer, by cases |
| `NodeRegistryProofs` | RegistryTypeCorrect, NobodyAccusedInVain, RedisNeverShowsDeaths | `CallsInv`, `RecordInv`, `SeenInv`, `PromptInv` |
| `LeaderElectionProofs` | ElectionTypeCorrect, SeedsLead, FlagIsFresh | `ConfigInv`, `PollInv`, `CountInv` |

The arguments in a few words.

* **QueueLock.** Mutual exclusion needs that `writer` names exactly the goroutine
  between its `AnnounceLock` and its `Unlock`, and that readers and an active writer
  exclude each other. `TaskMeansWedged` carries the surprising part: a task is in
  `items` only if the goroutine that added it is waiting in `Len` for its own lock.
  Hence no reader sees one. `WedgeForever` is an action property over the same
  invariant: while the writer waits for itself no step of anybody reaches Unlock.
* **PriorityQueue.** `HeapOrder` speaks of the moments between operations; the
  invariant has to speak of every swap. `Bound` is the part of the array that is the
  heap: all of it, or all but the last item while a removal repairs the rest.
  `OrderInv` says how far it is ordered: between operations entirely; while an item
  sifts up, everywhere but between that item and its parent (`UpHeap`); while one
  sifts down, everywhere but around that item (`DownHeap`). Either way the children
  of the moving item are fit to be children of its parent (`Bypass`), which is what
  makes `heap.Fix` and `heap.Remove` right when they try down first and up only if
  nothing moved. `TakenInv` keeps that the item behind the heap is the one to be
  taken. That the root of a heap is foremost needs an induction over positions; it
  is done first-order, with the least position that would run before the root and
  the well-foundedness of the natural numbers. For the refinement every step is
  shown to be a stutter on the set of items or one step of `TaskQueue`: `Add`
  happens at the push, `Remove` and `RemoveByID` at the pop.
* **WorkerPool.** `TaskHasOnePlace` is inductive together with the relation between
  a worker's location and the status of its struct. The counters are
  cardinalities of sets that change by one element. `FinalOutcomeStored` needs
  `Settled`: once a run of an id was reported, the record shows the outcome of some
  finished run, unless a worker has written Running and its own outcome is still to
  come.
* **SchedulerNode.** `OvershootIsBounded`: a handler that passed the check saw fewer
  than `MaxQueueSize` tasks, and only the other handlers can have added since, so
  that the "Maximum Queue Size: 10,000 tasks per node" of `PERFORMANCE_ANALYSIS.md:153`
  is exceeded by one less than the handlers there are, at most. The
  sum of queued and in-flight submissions grows only in `SubmitCheck`. `NothingRuns`
  needs that a relocking queue is empty until it is wedged.
  `AckedTasksSurvive` rests on `LiveStays`: within one
  life of the process a task that is queued or held stays so until it has run.
  `LiveInv` adds where a live task comes from: the handler that is about to push the
  snapshot has queued the task before, and the recovery still has it to do or has
  queued it. `UnfinishedTasksInHand` needs that the final save of a worker writes an
  outcome, hence that nobody writes Running into the struct of a worker that has
  finished with it, hence that a struct is in one place only: `StructInv` says so of
  the queue, the workers and everybody on the way to `queue.Add`, and that the
  structs still to be made (of an id not issued, of a task to be recovered) do not
  exist yet. With that, no step but the final save and the end of the process lets
  go of a task (`InHandStays`).
* **HybridStorage.** An operation that is alone knows at each of its calls what
  the stores hold (`SoloInv`), whatever state they were left in before; so its
  success settles them, and `SettledInv` carries that through the operations that
  follow one by one. `CalmInv` adds that without failures a miss in Redis means
  there is no row. `DeletionInv` and `StatusInv` do without assumptions on overlaps:
  a deletion that met no write leaves no row and `FillRedis` does not write one,
  and every copy of a task, in a store or in a client's hands, has the status of
  its write or what its name is parsed to.
* **LeaderElection.** `ConfigInv`: a node outside `Seeds` has no configuration and
  is never leader, a seed has the one of itself. `PollInv` relates `seen`,
  `wasLeader` and `isLeader` to Raft at each point of the poll. `CountInv` pays for
  each `leaderResponsibilities` with an election the poll has not yet reported.
* **NodeRegistry.** `SinceStored(n)` is the time since the last stored heartbeat
  of n, counted through the failed ones since. `RecordInv`: the stamp in the record
  is at most `Latency` older than that, even if the leader's goroutine stored an
  older stamp last. `SeenInv`: what a detector read was that young when it was read
  and has aged no longer than its call. Together the judged age stays within
  `(Tolerated + 1) * Beat + 3 * Latency`. `PromptInv`: while no call takes time a
  stamp is exactly as old as its record in Redis, and the record is dropped before
  the stamp is too old.

`HeapInv`, `LiveInv` and `StructInv` were checked by TLC, on the instances of the
runs `heap` and `node_restart`, before they were proved.

Model-checked only: the liveness properties (`CallsReturnUnlessWedged`,
`StopReturns`, `PersistedTaskRuns`, `RecordSettles`, `DeadNodeNoticed`), which need
fairness and are out of the prover's reach. Every invariant, every action property
and the refinement that the passing runs check is a theorem. Proved only:
`OvershootIsBounded`, whose instances with several handlers no run has, and
`RedisNeverShowsDeaths`, which says how far finding 5 goes.

## 5. What is not modelled, and the plan

The order of the work was: the queue's lock, the heap, the pool, the node over
them, the hybrid storage, leadership, the node registry, the records of a node
under updates and deletions, the conversions; then the theorems, component by
component, last the heap and the records of a node. No safety property of a run is
without its theorem.

Not modelled, and why:

* **The distributed coordinator.** AddPeer, RemovePeer and SetLeader have no
  caller. Its peers map is empty in every state the program reaches: its loops
  run over nothing, and a model with peers would be of states that do not occur.
* **The autoscaler and backpressure.** They decide and log; `scaleWorkers` changes
  nothing but the time of the last scaling.
* **`GetTasksByStatus` of PostgreSQL** scans its columns in the wrong order and fails
  on every row (`postgres_storage.go:222-232`); under the hybrid storage reassignment
  therefore never does anything. `SchedulerNode` is a node over Redis.
* **Request binding.** `binding:"required"` takes PriorityLow, 0, for missing
  (`types.go:143`), and the documented `"priority": "high"` is no number; both are
  refused by the library before any state is touched.
* **The start of the process.** Raft's transport and the HTTP server are given the
  same address (`main.go:55, 67`). `Scheduler.Start` binds it for Raft before the
  goroutine of the HTTP server runs, so that the HTTP server finds it in use and
  `log.Fatalf` ends the process. The models are about a process that got past this.
* **Operations without a caller**: RemoveFromQueue, GetNodeInfo, DeleteNode,
  IsReadyToRun, HasTimedOut.

Left out as well: the CLI and the web UI (stateless clients); `ClusterFSM` (nothing is ever applied to it); logging, formatting and JSON shapes;
timestamps, except where they order the queue or age a node's record. The race on the metrics struct
that `GetMetrics` returns is listed as a hazard: its values are shown to clients
and steer nothing.
