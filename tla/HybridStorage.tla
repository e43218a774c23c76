--------------------------- MODULE HybridStorage ---------------------------
(****************************************************************************)
(* internal/storage/hybrid_storage.go: one task record kept in Redis, which *)
(* is read first, and in PostgreSQL.  Every operation is two or three calls *)
(* to the two stores, and handlers, workers and the reassignment run them   *)
(* side by side without a lock.                                             *)
(*                                                                          *)
(* SaveTask and UpdateTask replace the whole record (storage.go:65-92,      *)
(* postgres_storage.go:74-147), so a record is known by the number of the   *)
(* write that made it.  Redis has it in full, its status as a number.  The  *)
(* row has the status as a text and has no columns for Dependencies and     *)
(* MaxDuration: a task that is rebuilt from its row is not whole any more.  *)
(****************************************************************************)
EXTENDS TaskCodec, FiniteSets

CONSTANTS
    Clients,    \* goroutines that use the storage
    MaxWrites,  \* bound: how many writes are started
    Given,      \* the status that each write carries, any number
    MayFail     \* whether a call to a store may fail, its effect done or not

ASSUME MaxWritesAssumption == MaxWrites \in Nat
ASSUME GivenAssumption == Given \in [1..MaxWrites -> Int]
ASSUME MayFailAssumption == MayFail \in BOOLEAN

VARIABLES
    redis,       \* the record under task:<id> in Redis
    postgres,    \* the row of table tasks
    pc,          \* which call comes next in each client's operation
    arg,         \* the record it writes, or has read from PostgreSQL
    writes,      \* how many writes have been started
    want,        \* the write the last finished write or delete asked for
    succeeded,   \* whether that operation returned nil
    solo,        \* whether the last operation that began has been alone since
    settled,     \* whether nothing overlapped since a write or delete that
                 \* was alone succeeded, or since the beginning
    erred,       \* whether a call to one of the stores failed since then
    alone,       \* clients deleting, with no write in progress since they began
    tomb         \* one of these deleted the row, and no write began since

deletions == <<alone, tomb>>
result == <<want, succeeded, settled, erred>>
vars == <<redis, postgres, pc, arg, writes, result, solo, deletions>>

Writes == 0..MaxWrites
Tasks == [write : Writes, status : Int, whole : BOOLEAN]
Texts == {"pending", "running", "completed", "failed", "timeout", "unknown", "none"}
Rows == [write : Writes, status : Texts]

Absent == [write |-> 0, status |-> StatusPending, whole |-> TRUE]
NoRow == [write |-> 0, status |-> "none"]

\* The task as the n-th write has it.
Sent(n) == [write |-> n, status |-> Given[n], whole |-> TRUE]

\* The row PostgresStorage.SaveTask makes of a task, and the task that
\* PostgresStorage.GetTask makes of a row.
ToRow(t) == [write |-> t.write, status |-> StatusString(t.status)]
FromRow(r) == [write |-> r.write, status |-> ParseStatus(r.status), whole |-> FALSE]

Writing == {"saveRedis", "savePostgres"}
Deleting == {"delRedis", "delPostgres"}
Reading == {"getRedis", "getPostgres", "fillRedis"}

\* The one type invariant.
TypeOK ==
    /\ redis \in Tasks /\ postgres \in Rows
    /\ pc \in [Clients -> {"idle"} \cup Writing \cup Deleting \cup Reading]
    /\ arg \in [Clients -> Tasks]
    /\ writes \in Writes
    /\ want \in Writes
    /\ succeeded \in BOOLEAN /\ erred \in BOOLEAN /\ settled \in BOOLEAN
    /\ solo \in BOOLEAN /\ tomb \in BOOLEAN
    /\ alone \in SUBSET Clients

Busy == {c \in Clients : pc[c] # "idle"}

------------------------------------------------------------------------------

Init ==
    /\ redis = Absent /\ postgres = NoRow
    /\ pc = [c \in Clients |-> "idle"]
    /\ arg = [c \in Clients |-> Absent]
    /\ writes = 0
    /\ want = 0
    /\ succeeded = TRUE
    /\ solo = FALSE
    /\ settled = TRUE
    /\ erred = FALSE
    /\ alone = {}
    /\ tomb = FALSE

Begin(c, l) ==
    /\ pc[c] = "idle"
    /\ pc' = [pc EXCEPT ![c] = l]
    /\ solo' = (Busy = {})
    /\ settled' = (settled /\ Busy = {})
    /\ UNCHANGED <<want, succeeded, erred>>

\* SaveTask or UpdateTask is called with a new state of the task.
BeginSave(c) ==
    /\ writes < MaxWrites
    /\ Begin(c, "saveRedis")
    /\ writes' = writes + 1
    /\ arg' = [arg EXCEPT ![c] = Sent(writes + 1)]
    /\ alone' = {} /\ tomb' = FALSE
    /\ UNCHANGED <<redis, postgres>>

BeginDelete(c) ==
    /\ Begin(c, "delRedis")
    /\ alone' = IF \E d \in Clients : pc[d] \in Writing THEN alone
                                                       ELSE alone \cup {c}
    /\ UNCHANGED <<redis, postgres, arg, writes, tomb>>

BeginGet(c) ==
    /\ Begin(c, "getRedis")
    /\ UNCHANGED <<redis, postgres, arg, writes, deletions>>

Goto(c, l) == pc' = [pc EXCEPT ![c] = l]

\* The operation returns; what it was given or has read is forgotten.
Return(c) ==
    /\ pc' = [pc EXCEPT ![c] = "idle"]
    /\ arg' = [arg EXCEPT ![c] = Absent]

\* Write n, or a delete, n = 0, returns, with an error or without.
Finish(c, n, ok) ==
    /\ Return(c)
    /\ want' = n
    /\ succeeded' = ok
    /\ settled' = (settled \/ (ok /\ solo))
    /\ erred' = (~ok \/ (erred /\ ~solo))

\* Mutated SaveRedis: an error of Redis is logged and PostgreSQL written.
SaveRedisTolerant(c) ==
    /\ pc[c] = "saveRedis"
    /\ redis' = arg[c] \/ (MayFail /\ UNCHANGED redis)
    /\ Goto(c, "savePostgres")
    /\ UNCHANGED <<postgres, arg, writes, result, solo, deletions>>

\* SaveTask and UpdateTask, first half: Redis, or an error.
SaveRedis(c) ==
    /\ pc[c] = "saveRedis"
    /\ \/ /\ redis' = arg[c]
          /\ Goto(c, "savePostgres")
          /\ UNCHANGED <<arg, result>>
       \/ /\ MayFail
          /\ redis' \in {redis, arg[c]}
          /\ Finish(c, arg[c].write, FALSE)
    /\ UNCHANGED <<postgres, writes, solo, deletions>>

\* Second half: PostgreSQL, or an error that leaves the two stores different.
SavePostgres(c) ==
    /\ pc[c] = "savePostgres"
    /\ \/ /\ postgres' = ToRow(arg[c])
          /\ Finish(c, arg[c].write, TRUE)
       \/ /\ MayFail
          /\ postgres' \in {postgres, ToRow(arg[c])}
          /\ Finish(c, arg[c].write, FALSE)
    /\ UNCHANGED <<redis, writes, solo, deletions>>

\* Mutated DelRedis: an empty value is stored where the code deletes the key.
DelRedisEmptyValue(c) ==
    /\ pc[c] = "delRedis"
    /\ redis' = [Absent EXCEPT !.write = -1]
    /\ Goto(c, "delPostgres")
    /\ UNCHANGED <<postgres, arg, writes, result, solo, deletions>>

\* DeleteTask: the key in Redis, then the row; an error ends it.
DelRedis(c) ==
    /\ pc[c] = "delRedis"
    /\ \/ /\ redis' = Absent
          /\ Goto(c, "delPostgres")
          /\ UNCHANGED <<arg, result, alone>>
       \/ /\ MayFail
          /\ Finish(c, 0, FALSE)
          /\ redis' \in {redis, Absent}
          /\ alone' = alone \ {c}
    /\ UNCHANGED <<postgres, writes, solo, tomb>>

DelPostgres(c) ==
    /\ pc[c] = "delPostgres"
    /\ \/ /\ postgres' = NoRow
          /\ tomb' = (tomb \/ c \in alone)
          /\ Finish(c, 0, TRUE)
       \/ /\ MayFail
          /\ postgres' \in {postgres, NoRow}
          /\ Finish(c, 0, FALSE)
          /\ UNCHANGED tomb
    /\ alone' = alone \ {c}
    /\ UNCHANGED <<redis, writes, solo>>

\* Mutated GetRedis: every read goes on to PostgreSQL.
GetRedisMisses(c) ==
    /\ pc[c] = "getRedis"
    /\ Goto(c, "getPostgres")
    /\ UNCHANGED <<redis, postgres, arg, writes, result, solo, deletions>>

\* GetTask: a hit returns; a miss, or an error, goes on to PostgreSQL.
GetRedis(c) ==
    /\ pc[c] = "getRedis"
    /\ \/ redis # Absent /\ Return(c) /\ UNCHANGED erred
       \/ /\ redis = Absent
          /\ Goto(c, "getPostgres")
          /\ UNCHANGED <<arg, erred>>
       \/ /\ MayFail
          /\ Goto(c, "getPostgres")
          /\ erred' = TRUE
          /\ UNCHANGED arg
    /\ UNCHANGED <<redis, postgres, writes, want, succeeded, settled, solo,
                   deletions>>

\* No row, or an error, is an error of GetTask.
GetPostgres(c) ==
    /\ pc[c] = "getPostgres"
    /\ \/ /\ postgres # NoRow
          /\ arg' = [arg EXCEPT ![c] = FromRow(postgres)]
          /\ Goto(c, "fillRedis")
          /\ UNCHANGED erred
       \/ /\ postgres = NoRow
          /\ Return(c)
          /\ UNCHANGED erred
       \/ /\ MayFail
          /\ Return(c)
          /\ erred' = TRUE
    /\ UNCHANGED <<redis, postgres, writes, want, succeeded, settled, solo,
                   deletions>>

\* Mutated FillRedis: the task is put back with h.SaveTask, into both stores.
FillBoth(c) ==
    /\ pc[c] = "fillRedis"
    /\ redis' = arg[c] /\ postgres' = ToRow(arg[c])
    /\ Return(c)
    /\ UNCHANGED <<writes, result, solo, deletions>>

\* What was read is cached in Redis, over whatever is there by now.
FillRedis(c) ==
    /\ pc[c] = "fillRedis"
    /\ \/ redis' = arg[c] /\ UNCHANGED erred
       \/ MayFail /\ erred' = TRUE /\ redis' \in {redis, arg[c]}
    /\ Return(c)
    /\ UNCHANGED <<postgres, writes, want, succeeded, settled, solo, deletions>>

Step(c) ==
    \/ BeginSave(c) \/ BeginDelete(c) \/ BeginGet(c)
    \/ SaveRedis(c) \/ SavePostgres(c)
    \/ DelRedis(c) \/ DelPostgres(c)
    \/ GetRedis(c) \/ GetPostgres(c) \/ FillRedis(c)

Next == \E c \in Clients : Step(c)

Spec == Init /\ [][Next]_vars

------------------------------------------------------------------------------

\* Overlapping operations may leave Redis with one write and PostgreSQL with
\* another, but not for long: once a write or a delete that was alone has
\* succeeded, and until operations overlap again, the two stores show what the
\* last successful write or delete asked for, whatever calls fail and whatever
\* reads refill Redis meanwhile (hybrid_storage.go:29-83).
LastSuccessIsShown ==
    (settled /\ Busy = {} /\ succeeded) => redis.write = want /\ postgres.write = want

\* As long, besides, as no call fails, Redis never holds a task that GetTask
\* rebuilt from its row and that lost its Dependencies and MaxDuration there
\* (hybrid_storage.go:41-59, postgres_storage.go:34-46).
TaskKeptWhole == (settled /\ ~erred) => redis.whole

\* As long as operations have not overlapped since, PostgreSQL is never ahead
\* of Redis: a failed operation leaves at most the older record there, so a
\* reader that misses Redis sees an older state and never one that nobody was
\* shown.
PostgresNeverAhead ==
    (settled /\ redis # Absent) => postgres.write <= redis.write

\* Whatever overlaps and fails, a task found in Redis has the status it was
\* written with, be it as written or rebuilt from the text in its row; only a
\* number without a name comes back as Pending, the status the recovery and
\* the clients take for work still to do (types.go:53-86).
FallbackKeepsStatus ==
    redis # Absent =>
        redis.status = IF redis.whole \/ Given[redis.write] \in StatusCodes
                       THEN Given[redis.write]
                       ELSE StatusPending

\* Whatever overlaps and fails, the row of a task that was deleted apart from
\* all writes comes back only by a write: GetTask, which fills Redis behind the
\* back of a deletion, never fills PostgreSQL (hybrid_storage.go:52-56).
DeletedRowStaysDeleted == tomb => postgres = NoRow

\* What "Task deleted successfully" (api.go:360) tells a client: when the
\* deletion met no write and no operation is in progress, GetTask does not
\* find the task.
DeletedTaskIsGone == (tomb /\ Busy = {}) => redis = Absent

=============================================================================
