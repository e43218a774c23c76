---------------------------- MODULE NodeRegistry ----------------------------
(****************************************************************************)
(* Node records and the failure detector of internal/scheduler/scheduler.go:*)
(* every node stamps its record with time.Now() and stores it, and every    *)
(* node looks for records of others that were stamped too long ago.         *)
(*                                                                          *)
(* Time is discrete and only ages are kept: how long ago a stamp was made,  *)
(* how long ago a ticker fired.  Stamping and storing are two moments, and  *)
(* so are reading the records and comparing them with time.Now(); a call    *)
(* to the store takes at most Latency.  Redis drops a record that was not   *)
(* stored again for TTL (storage.go:197); PostgreSQL, which hybrid storage  *)
(* reads instead, keeps it (postgres_storage.go:327-345).                   *)
(* The nodes are taken to read one clock, in UTC as in the container image: *)
(* the column last_seen has no time zone.                                   *)
(*                                                                          *)
(* checkFailures begins with workerPool.GetMetrics(), which asks the queue  *)
(* for its length.  As the code stands that call does not come back once a  *)
(* task was added to the queue of the node (QueueLock.tla), and the         *)
(* detector of the node is lost.                                            *)
(****************************************************************************)
EXTENDS Integers

CONSTANTS
    Nodes,
    Beaters,     \* nodes whose heartbeats are followed, in the code all
    Watchers,    \* nodes whose failure detectors are followed, in the code all
    Submitters,  \* nodes that may add a task to their queue
    Storages,    \* which kinds of storage to consider
    Beat,        \* period of heartbeat, 5 s
    Check,       \* period of failureDetection, 10 s
    TTL,         \* expiry of a node record in Redis, 30 s
    FailAfter,   \* the age checkFailures takes for a failure, 30 s
    Latency,     \* bound: how long a call to the store takes
    Tolerated,   \* failed heartbeats in a row the periods leave room for
    MaxDeaths    \* bound: how often a node dies

ASSUME NodesAssumption ==
    Beaters \subseteq Nodes /\ Watchers \subseteq Nodes /\ Submitters \subseteq Nodes
ASSUME StoragesAssumption == Storages \subseteq {"redis", "hybrid"}
ASSUME PeriodsAssumption ==
    /\ Beat \in Nat \ {0} /\ Check \in Nat \ {0}
    /\ TTL \in Nat /\ FailAfter \in Nat /\ TTL <= FailAfter
ASSUME BoundsAssumption ==
    /\ Latency \in Nat /\ Latency <= Beat /\ Latency <= Check
    /\ Tolerated \in Nat /\ MaxDeaths \in Nat
ASSUME RoomForMissedBeats ==
    (Tolerated + 1) * Beat + 3 * Latency <= FailAfter

VARIABLES
    storage,     \* what main.go made: RedisStorage or HybridStorage
    up,          \* nodes whose process is running
    sinceBeat,   \* time since the ticker of heartbeat fired
    beating,     \* nodes whose heartbeat goroutine is in SaveNodeInfo
    leadAge,     \* age of the stamp leaderResponsibilities is storing, or NoStamp
    known,       \* nodes that have a record
    age,         \* age of the stamp in the record
    kept,        \* time since the record was stored in Redis
    sinceCheck,  \* time since the ticker of failureDetection fired
    check,       \* where checkFailures is, and the keys it has yet to get
    got, seen,   \* the records it has, and the ages of their stamps
    failedNodes, \* s.failureDetector.failedNodes
    wedged,      \* nodes whose queue keeps its lock for ever
    deaths,      \* how often a node has died
    misses,      \* failed heartbeats in a row
    lapsed,      \* nodes that died or missed more than Tolerated heartbeats
    late         \* whether time ever passed during a call to the store

beatVars == <<up, sinceBeat, beating, leadAge, deaths, misses, lapsed>>
recordVars == <<known, age, kept>>
checkVars == <<sinceCheck, check, got, seen, failedNodes, wedged>>
vars == <<storage, beatVars, recordVars, checkVars, late>>

NoStamp == -1

\* Ages beyond this one are all alike to the detector.
Ancient == FailAfter + 1

Older(a) == IF a < Ancient THEN a + 1 ELSE a

Lookers == {"idle", "read", "stuck"}

\* The one type invariant of the registry.
TypeOK ==
    /\ storage \in Storages
    /\ up \in SUBSET Nodes /\ beating \in SUBSET up
    /\ sinceBeat \in [Nodes -> 0..Beat]
    /\ leadAge \in [Nodes -> {NoStamp} \cup 0..Latency]
    /\ known \in SUBSET Nodes
    /\ age \in [Nodes -> 0..Ancient] /\ kept \in [Nodes -> 0..TTL]
    /\ sinceCheck \in [Nodes -> 0..Check]
    /\ check \in [Nodes -> [at : Lookers, todo : SUBSET Nodes]]
    /\ got \in [Nodes -> SUBSET Nodes]
    /\ seen \in [Nodes -> [Nodes -> 0..Ancient]]
    /\ failedNodes \in [Nodes -> SUBSET Nodes] /\ wedged \in SUBSET up
    /\ deaths \in 0..MaxDeaths
    /\ misses \in [Nodes -> 0..Tolerated]
    /\ lapsed \in SUBSET Nodes
    /\ late \in BOOLEAN

------------------------------------------------------------------------------

Looking == [at |-> "idle", todo |-> {}]
NothingSeen == [n \in Nodes |-> 0]

Init ==
    /\ storage \in Storages
    /\ up = {} /\ beating = {} /\ known = {} /\ lapsed = {}
    /\ sinceBeat = [n \in Nodes |-> 0]
    /\ leadAge = [n \in Nodes |-> NoStamp]
    /\ age = [n \in Nodes |-> 0] /\ kept = [n \in Nodes |-> 0]
    /\ sinceCheck = [n \in Nodes |-> 0]
    /\ check = [n \in Nodes |-> Looking]
    /\ got = [n \in Nodes |-> {}]
    /\ seen = [n \in Nodes |-> NothingSeen]
    /\ failedNodes = [n \in Nodes |-> {}] /\ wedged = {}
    /\ deaths = 0
    /\ misses = [n \in Nodes |-> 0]
    /\ late = FALSE

\* Scheduler.Start: both tickers start to run, and the memory is empty.
StartNode(n) ==
    /\ n \notin up
    /\ up' = up \cup {n}
    /\ sinceBeat' = [sinceBeat EXCEPT ![n] = 0]
    /\ sinceCheck' = [sinceCheck EXCEPT ![n] = 0]
    /\ misses' = [misses EXCEPT ![n] = 0]
    /\ UNCHANGED <<storage, beating, leadAge, recordVars, check, got, seen,
                   failedNodes, wedged, deaths, lapsed, late>>

\* The process ends; nothing takes its record back.
KillNode(n) ==
    /\ n \in up
    /\ deaths < MaxDeaths
    /\ deaths' = deaths + 1
    /\ up' = up \ {n}
    /\ lapsed' = lapsed \cup {n}
    /\ beating' = beating \ {n}
    /\ sinceBeat' = [sinceBeat EXCEPT ![n] = 0]
    /\ sinceCheck' = [sinceCheck EXCEPT ![n] = 0]
    /\ leadAge' = [leadAge EXCEPT ![n] = NoStamp]
    /\ check' = [check EXCEPT ![n] = Looking]
    /\ got' = [got EXCEPT ![n] = {}]
    /\ seen' = [seen EXCEPT ![n] = NothingSeen]
    /\ failedNodes' = [failedNodes EXCEPT ![n] = {}]
    /\ wedged' = wedged \ {n}
    /\ UNCHANGED <<storage, recordVars, misses, late>>

------------------------------------------------------------------------------
(* updateNodeInfo: a stamp is made and then stored.                         *)

\* SaveNodeInfo of n with a stamp of age a.  Redis counts its TTL from here.
StoreRecord(n, a) ==
    /\ known' = known \cup {n}
    /\ age' = [age EXCEPT ![n] = a]
    /\ kept' = [kept EXCEPT ![n] = 0]

\* The ticker of heartbeat fires, and the stamp is made.
BeatStamp(n) ==
    /\ n \in (up \cap Beaters) \ beating
    /\ sinceBeat[n] = Beat
    /\ sinceBeat' = [sinceBeat EXCEPT ![n] = 0]
    /\ beating' = beating \cup {n}
    /\ UNCHANGED <<storage, up, leadAge, recordVars, checkVars, deaths, misses,
                   lapsed, late>>

BeatStore(n) ==
    /\ n \in beating
    /\ beating' = beating \ {n}
    /\ StoreRecord(n, sinceBeat[n])
    /\ misses' = [misses EXCEPT ![n] = 0]
    /\ UNCHANGED <<storage, up, sinceBeat, leadAge, checkVars, deaths, lapsed,
                   late>>

\* An error is only logged; the record may be there all the same.
BeatFail(n) ==
    /\ n \in beating
    /\ beating' = beating \ {n}
    /\ StoreRecord(n, sinceBeat[n]) \/ UNCHANGED recordVars
    /\ IF misses[n] < Tolerated
         THEN misses' = [misses EXCEPT ![n] = @ + 1] /\ UNCHANGED lapsed
         ELSE lapsed' = lapsed \cup {n} /\ UNCHANGED misses
    /\ UNCHANGED <<storage, up, sinceBeat, leadAge, checkVars, deaths, late>>

\* leaderResponsibilities does the same in a goroutine of its own, at the
\* moment of the election and every 10 s; a node may have been elected at any
\* time, so its stamps may fall on any moment.
LeadStamp(n) ==
    /\ n \in up \cap Beaters
    /\ leadAge[n] = NoStamp
    /\ leadAge' = [leadAge EXCEPT ![n] = 0]
    /\ UNCHANGED <<storage, up, sinceBeat, beating, recordVars, checkVars,
                   deaths, misses, lapsed, late>>

\* It may store a stamp older than the one heartbeat has stored meanwhile.
LeadStore(n) ==
    /\ leadAge[n] # NoStamp
    /\ leadAge' = [leadAge EXCEPT ![n] = NoStamp]
    /\ StoreRecord(n, leadAge[n]) \/ UNCHANGED recordVars
    /\ UNCHANGED <<storage, up, sinceBeat, beating, checkVars, deaths, misses,
                   lapsed, late>>

------------------------------------------------------------------------------
(* checkFailures.                                                           *)

\* The first queue.Add of a submission, a recovery or a reassignment: it waits
\* in Len for the lock it holds.
QueueAdd(n) ==
    /\ n \in (up \cap Submitters) \ wedged
    /\ wedged' = wedged \cup {n}
    /\ UNCHANGED <<storage, beatVars, recordVars, sinceCheck, check, got, seen,
                   failedNodes, late>>

\* The ticker of failureDetection fires.
CheckDue(d) ==
    /\ d \in up \cap Watchers
    /\ check[d].at = "idle"
    /\ sinceCheck[d] = Check
    /\ sinceCheck' = [sinceCheck EXCEPT ![d] = 0]

\* GetMetrics waits for the lock of the queue, and failureDetection with it.
CheckBlock(d) ==
    /\ CheckDue(d)
    /\ d \in wedged
    /\ check' = [check EXCEPT ![d] = [at |-> "stuck", todo |-> {}]]
    /\ UNCHANGED <<storage, beatVars, recordVars, got, seen, failedNodes, wedged,
                   late>>

CheckIdle(d) ==
    /\ check' = [check EXCEPT ![d] = Looking]
    /\ got' = [got EXCEPT ![d] = {}]
    /\ seen' = [seen EXCEPT ![d] = NothingSeen]

\* Mutated CheckList: rows that were not updated lately are not selected.
CheckListRecent(d) ==
    /\ CheckDue(d)
    /\ d \notin wedged
    /\ check' = [check EXCEPT ![d] = [at |-> "read", todo |-> {}]]
    /\ got' = [got EXCEPT ![d] = {n \in known : age[n] <= FailAfter}]
    /\ seen' = [seen EXCEPT ![d] = age]
    /\ UNCHANGED <<storage, beatVars, recordVars, failedNodes, wedged, late>>

\* GetAllNodes: PostgreSQL answers with all rows at once, Redis with the keys.
\* An error ends this round.
CheckList(d) ==
    /\ CheckDue(d)
    /\ d \notin wedged
    /\ \/ /\ storage = "hybrid"
          /\ check' = [check EXCEPT ![d] = [at |-> "read", todo |-> {}]]
          /\ got' = [got EXCEPT ![d] = known]
          /\ seen' = [seen EXCEPT ![d] = age]
       \/ /\ storage = "redis"
          /\ check' = [check EXCEPT ![d] = [at |-> "read", todo |-> known]]
          /\ UNCHANGED <<got, seen>>
    /\ UNCHANGED <<storage, beatVars, recordVars, failedNodes, wedged, late>>

CheckListFail(d) ==
    /\ CheckDue(d)
    /\ d \notin wedged
    /\ UNCHANGED <<storage, beatVars, recordVars, check, got, seen, failedNodes,
                   wedged, late>>

\* One Get per key in Redis; a record that is gone or unreadable is skipped.
CheckGet(d, n) ==
    /\ check[d].at = "read"
    /\ n \in check[d].todo
    /\ check' = [check EXCEPT ![d].todo = @ \ {n}]
    /\ \/ /\ n \in known
          /\ got' = [got EXCEPT ![d] = @ \cup {n}]
          /\ seen' = [seen EXCEPT ![d][n] = age[n]]
       \/ UNCHANGED <<got, seen>>
    /\ UNCHANGED <<storage, beatVars, recordVars, sinceCheck, failedNodes, wedged,
                   late>>

\* Mutated TooOld: the comparison with the limit is turned to >=.
TooOldAtLimit(a) == a >= FailAfter

TooOld(a) == a > FailAfter

\* Only now is time.Now() read and every stamp but one's own compared with it.
\* Nothing ever takes a node out of failedNodes again.
CheckJudge(d) ==
    /\ check[d].at = "read"
    /\ check[d].todo = {}
    /\ failedNodes' = [failedNodes EXCEPT ![d] =
           @ \cup {n \in got[d] \ {d} : TooOld(seen[d][n])}]
    /\ CheckIdle(d)
    /\ UNCHANGED <<storage, beatVars, recordVars, sinceCheck, wedged, late>>

------------------------------------------------------------------------------

\* Nobody is due: no ticker has to fire and no call has to return first.
NobodyDue ==
    /\ \A n \in up \cap Beaters :
           /\ sinceBeat[n] < IF n \in beating THEN Latency ELSE Beat
           /\ leadAge[n] < Latency
    /\ \A d \in up \cap Watchers :
           /\ check[d].at = "idle" => sinceCheck[d] < Check
           /\ check[d].at = "read" => sinceCheck[d] < Latency

\* Nodes that are in a call to the store.
Calling == {n \in up : n \in beating \/ leadAge[n] # NoStamp \/ check[n].at = "read"}

\* Mutated Expired: Redis gives a node twice the TTL.
ExpiredLate == {n \in known : storage = "redis" /\ kept[n] = 2 * TTL}

\* Records Redis drops when the next unit of time has passed.
Expired == {n \in known : storage = "redis" /\ kept[n] = TTL}

\* A unit of time passes.
Tick ==
    /\ NobodyDue
    /\ late' = (late \/ Calling # {})
    /\ sinceBeat' = [n \in Nodes |->
           IF n \in up \cap Beaters THEN sinceBeat[n] + 1 ELSE 0]
    /\ sinceCheck' = [n \in Nodes |->
           IF n \in up \cap Watchers /\ check[n].at # "stuck" THEN sinceCheck[n] + 1
                                                             ELSE 0]
    /\ leadAge' = [n \in Nodes |-> IF leadAge[n] = NoStamp THEN NoStamp
                                                           ELSE leadAge[n] + 1]
    /\ known' = known \ Expired
    /\ age' = [n \in Nodes |-> IF n \in known \ Expired THEN Older(age[n]) ELSE 0]
    /\ kept' = [n \in Nodes |-> IF n \in known \ Expired /\ storage = "redis"
                                  THEN kept[n] + 1 ELSE 0]
    /\ seen' = [d \in Nodes |-> [n \in Nodes |->
                   IF n \in got[d] THEN Older(seen[d][n]) ELSE 0]]
    /\ UNCHANGED <<storage, up, beating, check, got, failedNodes, wedged, deaths,
                   misses, lapsed>>

Heartbeat(n) == BeatStamp(n) \/ BeatStore(n) \/ BeatFail(n)

Leading(n) == LeadStamp(n) \/ LeadStore(n)

CheckFailures(d) ==
    \/ CheckBlock(d) \/ CheckList(d) \/ CheckListFail(d) \/ CheckJudge(d)
    \/ \E n \in Nodes : CheckGet(d, n)

Next ==
    \/ \E n \in Nodes :
           \/ StartNode(n) \/ KillNode(n) \/ QueueAdd(n)
           \/ Heartbeat(n) \/ Leading(n) \/ CheckFailures(n)
    \/ Tick

\* Time passes, goroutines that are due run, calls return, and a store that is
\* asked for ever answers at some time.  Nobody has to die or to be started,
\* and nobody has to add a task to a queue.
Fairness ==
    /\ WF_vars(Tick)
    /\ \A n \in Nodes :
           /\ WF_vars(Heartbeat(n)) /\ WF_vars(LeadStore(n))
           /\ WF_vars(CheckJudge(n) \/ \E m \in Nodes : CheckGet(n, m))
           /\ WF_vars(CheckBlock(n)) /\ SF_vars(CheckList(n))

Spec == Init /\ [][Next]_vars /\ Fairness

------------------------------------------------------------------------------

\* A node is held for failed only if its process died or more heartbeats in a
\* row than the periods leave room for were not stored: slow calls, stamps
\* that the two writing goroutines store in the wrong order, and the time
\* between reading the records and time.Now() are no reason (scheduler.go:365-377,
\* 446-468).
AccusedHadLapsed == \A d \in Nodes : failedNodes[d] \subseteq lapsed

\* Over Redis alone the detector finds nobody, whoever dies, unless a call to
\* Redis happened to take its time: the record is dropped at the age at which
\* it would be taken for a failure (storage.go:197, scheduler.go:461).
RedisHidesDeaths ==
    (storage = "redis" /\ ~late) => \A d \in Nodes : failedNodes[d] = {}

\* d has n down as failed, or one of them is no longer what it was; a detector
\* whose queue is wedged notices nothing any more.
Noticed(d, n) == n \in failedNodes[d] \/ n \in up \/ d \notin up \/ d \in wedged

\* Over hybrid storage a node that was registered and stays dead is noticed in
\* the end by every detector that keeps running and whose node has nothing
\* added to its queue (scheduler.go:446-468).
DeadNodeNoticed ==
    \A n \in Nodes, d \in Watchers :
        (storage = "hybrid" /\ n \in known \ up /\ n # d /\ d \in up) ~> Noticed(d, n)

\* What the documents say of every deployment ("Node Failure: > 30 seconds no
\* response", PERFORMANCE_ANALYSIS.md:178; ARCHITECTURE.md:125-131): the same
\* whatever the storage.
DeathNoticed ==
    \A n \in Nodes, d \in Watchers :
        (n \in known \ up /\ n # d /\ d \in up) ~> Noticed(d, n)

=============================================================================
