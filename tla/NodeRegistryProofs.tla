------------------------- MODULE NodeRegistryProofs -------------------------
(****************************************************************************)
(* Proofs about NodeRegistry for any number of nodes and any periods that   *)
(* satisfy the assumptions.                                                 *)
(****************************************************************************)
EXTENDS NodeRegistry, TLAPS

\* Time since n's last stored heartbeat was stamped, if all after it failed.
SinceStored(n) ==
    sinceBeat[n] + (misses[n] + (IF n \in beating THEN 1 ELSE 0)) * Beat

\* Who is in a call belongs to a running node, and no call lasts longer than
\* Latency.
CallsInv ==
    /\ \A n \in beating : n \in Beaters /\ sinceBeat[n] <= Latency
    /\ \A n \in Nodes : leadAge[n] # NoStamp => n \in up \cap Beaters
    /\ \A d \in Nodes :
           IF check[d].at = "read" THEN d \in up \cap Watchers /\ sinceCheck[d] <= Latency
                                   ELSE got[d] = {}

\* The record of a node that did not lapse is at most Latency older than its
\* last stored heartbeat, whichever goroutine wrote it last.
RecordInv ==
    /\ known \subseteq Beaters
    /\ known \subseteq up \cup lapsed
    /\ \A n \in known \ lapsed : age[n] <= SinceStored(n) + Latency

\* The time the periods leave for heartbeats that are not stored.
Room == (Tolerated + 1) * Beat

\* What the detector has read was that young when it was read.
SeenInv ==
    \A d \in Nodes : \A n \in got[d] \ lapsed :
        seen[d][n] <= Room + 2 * Latency + sinceCheck[d]

\* While no call takes time, a stamp is as old as its record in Redis.
PromptInv ==
    ~late =>
        /\ \A n \in beating : sinceBeat[n] = 0
        /\ \A n \in Nodes : leadAge[n] \in {NoStamp, 0}
        /\ storage = "redis" =>
               /\ \A n \in known : age[n] = kept[n]
               /\ \A d \in Nodes : \A n \in got[d] : seen[d][n] <= TTL

\* What the assumptions on the constants say of it.
LEMMA RoomFacts ==
    /\ Room \in Nat /\ Room + 3 * Latency <= FailAfter
    /\ Latency \in Nat /\ Beat \in Nat /\ Check \in Nat
    /\ TTL \in Nat /\ FailAfter \in Nat /\ Tolerated \in Nat /\ MaxDeaths \in Nat
    /\ Latency <= Beat /\ Latency <= Check /\ TTL <= FailAfter
    /\ Latency \in 0..Ancient /\ Ancient \in Nat /\ Ancient = FailAfter + 1
<1>1. Room \in Nat
  BY PeriodsAssumption, BoundsAssumption DEF Room
<1>2. Room + 3 * Latency <= FailAfter
  BY RoomForMissedBeats DEF Room
<1> QED
  BY <1>1, <1>2, PeriodsAssumption, BoundsAssumption DEF Ancient

\* Each missed heartbeat costs one period.
LEMMA MoreMisses ==
    ASSUME NEW m \in 0..Tolerated
    PROVE  /\ m * Beat \in Nat /\ (m + 1) * Beat = m * Beat + Beat
           /\ m * Beat + Beat <= Room
           /\ (m + 0) * Beat = m * Beat
<1> USE PeriodsAssumption, BoundsAssumption
<1>1. m * Beat \in Nat /\ (m + 1) * Beat = m * Beat + Beat /\ (m + 0) * Beat = m * Beat
  OBVIOUS
<1>2. (m + 1) * Beat <= (Tolerated + 1) * Beat
  OBVIOUS
<1> QED
  BY <1>1, <1>2 DEF Room

------------------------------------------------------------------------------

\* The initial state is of the right type.
LEMMA TypeInit == Init => TypeOK
<1> SUFFICES ASSUME Init PROVE TypeOK
  OBVIOUS
<1> USE RoomFacts DEF Init
<1>1. sinceBeat \in [Nodes -> 0..Beat] /\ leadAge \in [Nodes -> {NoStamp} \cup 0..Latency]
  OBVIOUS
<1>2. age \in [Nodes -> 0..Ancient] /\ kept \in [Nodes -> 0..TTL]
  OBVIOUS
<1>3. sinceCheck \in [Nodes -> 0..Check]
  OBVIOUS
<1>4. check \in [Nodes -> [at : Lookers, todo : SUBSET Nodes]]
  BY DEF Looking, Lookers
<1>5. NothingSeen \in [Nodes -> 0..Ancient]
  BY DEF NothingSeen
<1>6. seen \in [Nodes -> [Nodes -> 0..Ancient]]
  BY <1>5
<1>7. misses \in [Nodes -> 0..Tolerated] /\ deaths \in 0..MaxDeaths
  BY BoundsAssumption
<1> QED
  BY <1>1, <1>2, <1>3, <1>4, <1>6, <1>7 DEF TypeOK

\* Every step keeps the types, given that calls belong to running nodes.
LEMMA TypeStep == TypeOK /\ CallsInv /\ [Next]_vars => TypeOK'
<1> SUFFICES ASSUME TypeOK, CallsInv, [Next]_vars PROVE TypeOK'
  OBVIOUS
<1>t. /\ sinceBeat \in [Nodes -> 0..Beat] /\ sinceCheck \in [Nodes -> 0..Check]
      /\ leadAge \in [Nodes -> {NoStamp} \cup 0..Latency]
      /\ age \in [Nodes -> 0..Ancient] /\ kept \in [Nodes -> 0..TTL]
      /\ known \in SUBSET Nodes
  BY DEF TypeOK
<1>c. /\ check \in [Nodes -> [at : Lookers, todo : SUBSET Nodes]]
      /\ got \in [Nodes -> SUBSET Nodes]
      /\ seen \in [Nodes -> [Nodes -> 0..Ancient]]
  BY DEF TypeOK
<1>1. ASSUME NEW n \in Nodes, StartNode(n) PROVE TypeOK'
  BY <1>1, RoomFacts DEF TypeOK, StartNode, recordVars
<1>2. ASSUME NEW n \in Nodes, KillNode(n) PROVE TypeOK'
  <2>1. /\ check' \in [Nodes -> [at : Lookers, todo : SUBSET Nodes]]
        /\ got' \in [Nodes -> SUBSET Nodes]
    BY <1>2, <1>c DEF KillNode, Looking, Lookers
  <2>2. seen' \in [Nodes -> [Nodes -> 0..Ancient]]
    BY <1>2, <1>c, RoomFacts DEF KillNode, NothingSeen
  <2>3. /\ sinceCheck' \in [Nodes -> 0..Check] /\ sinceBeat' \in [Nodes -> 0..Beat]
        /\ leadAge' \in [Nodes -> {NoStamp} \cup 0..Latency]
    BY <1>2, <1>t, RoomFacts DEF KillNode
  <2>4. /\ up' \in SUBSET Nodes /\ beating' \in SUBSET up' /\ wedged' \in SUBSET up'
        /\ lapsed' \in SUBSET Nodes /\ failedNodes' \in [Nodes -> SUBSET Nodes]
    BY <1>2 DEF TypeOK, KillNode
  <2> QED
    BY <1>2, <2>1, <2>2, <2>3, <2>4, RoomFacts DEF TypeOK, KillNode, recordVars
<1>b. ASSUME NEW d \in Nodes, CheckBlock(d) PROVE TypeOK'
  <2>1. check' \in [Nodes -> [at : Lookers, todo : SUBSET Nodes]]
    <3>1. check' = [check EXCEPT ![d] = [at |-> "stuck", todo |-> {}]]
      BY <1>b DEF CheckBlock
    <3>2. [at |-> "stuck", todo |-> {}] \in [at : Lookers, todo : SUBSET Nodes]
      BY DEF Lookers
    <3> QED
      BY <3>1, <3>2, <1>c
  <2>2. sinceCheck' \in [Nodes -> 0..Check]
    BY <1>b, <1>t, RoomFacts DEF CheckBlock, CheckDue
  <2> QED
    BY <1>b, <2>1, <2>2 DEF TypeOK, CheckBlock, recordVars, beatVars
<1>q. ASSUME NEW n \in Nodes, QueueAdd(n) PROVE TypeOK'
  BY <1>q DEF TypeOK, QueueAdd, recordVars, beatVars
<1>3. ASSUME NEW n \in Nodes, BeatStamp(n) PROVE TypeOK'
  BY <1>3, RoomFacts DEF TypeOK, BeatStamp, recordVars, checkVars
<1>4. ASSUME NEW n \in Nodes, BeatStore(n) PROVE TypeOK'
  <2>1. sinceBeat[n] \in 0..Ancient
    BY <1>4, RoomFacts DEF TypeOK, CallsInv, BeatStore, Ancient
  <2> QED
    BY <1>4, <2>1, RoomFacts DEF TypeOK, BeatStore, StoreRecord, checkVars
<1>5. ASSUME NEW n \in Nodes, BeatFail(n) PROVE TypeOK'
  <2>1. sinceBeat[n] \in 0..Ancient
    BY <1>5, RoomFacts DEF TypeOK, CallsInv, BeatFail, Ancient
  <2>2. misses' \in [Nodes -> 0..Tolerated] /\ lapsed' \in SUBSET Nodes
    BY <1>5, RoomFacts DEF TypeOK, BeatFail
  <2>3. known' \in SUBSET Nodes /\ age' \in [Nodes -> 0..Ancient] /\ kept' \in [Nodes -> 0..TTL]
    <3>1. CASE StoreRecord(n, sinceBeat[n])
      BY <1>5, <1>t, <2>1, <3>1, RoomFacts DEF StoreRecord
    <3>2. CASE UNCHANGED recordVars
      BY <1>5, <1>t, <3>2 DEF recordVars
    <3> QED
      BY <1>5, <3>1, <3>2 DEF BeatFail
  <2> QED
    BY <1>5, <2>2, <2>3 DEF TypeOK, BeatFail, checkVars
<1>6. ASSUME NEW n \in Nodes, LeadStamp(n) PROVE TypeOK'
  BY <1>6, RoomFacts DEF TypeOK, LeadStamp, recordVars, checkVars
<1>7. ASSUME NEW n \in Nodes, LeadStore(n) PROVE TypeOK'
  <2>1. leadAge[n] \in 0..Ancient
    BY <1>7, RoomFacts DEF TypeOK, LeadStore, Ancient
  <2>3. known' \in SUBSET Nodes /\ age' \in [Nodes -> 0..Ancient] /\ kept' \in [Nodes -> 0..TTL]
    <3>1. CASE StoreRecord(n, leadAge[n])
      BY <1>7, <1>t, <2>1, <3>1, RoomFacts DEF StoreRecord
    <3>2. CASE UNCHANGED recordVars
      BY <1>7, <1>t, <3>2 DEF recordVars
    <3> QED
      BY <1>7, <3>1, <3>2 DEF LeadStore
  <2> QED
    BY <1>7, <2>3 DEF TypeOK, LeadStore, checkVars
<1>8. ASSUME NEW d \in Nodes, CheckList(d) PROVE TypeOK'
  <2>1. /\ check' \in [Nodes -> [at : Lookers, todo : SUBSET Nodes]]
        /\ got' \in [Nodes -> SUBSET Nodes]
    <3>1. \A S \in SUBSET Nodes :
              [at |-> "read", todo |-> S] \in [at : Lookers, todo : SUBSET Nodes]
      BY DEF Lookers
    <3>2. \E S \in SUBSET Nodes : check' = [check EXCEPT ![d] = [at |-> "read", todo |-> S]]
      BY <1>8, <1>t DEF CheckList, CheckDue
    <3>3. check' \in [Nodes -> [at : Lookers, todo : SUBSET Nodes]]
      BY <3>1, <3>2, <1>c
    <3>4. got' = [got EXCEPT ![d] = known] \/ got' = got
      BY <1>8 DEF CheckList, CheckDue
    <3> QED
      BY <3>3, <3>4, <1>c, <1>t
  <2>2. seen' \in [Nodes -> [Nodes -> 0..Ancient]]
    BY <1>8, <1>c, <1>t DEF CheckList, CheckDue
  <2>3. sinceCheck' \in [Nodes -> 0..Check]
    BY <1>8, <1>t, RoomFacts DEF CheckList, CheckDue
  <2> QED
    BY <1>8, <2>1, <2>2, <2>3 DEF TypeOK, CheckList, CheckDue, recordVars, beatVars
<1>9. ASSUME NEW d \in Nodes, CheckListFail(d) PROVE TypeOK'
  BY <1>9, RoomFacts DEF TypeOK, CheckListFail, CheckDue, recordVars, beatVars
<1>10. ASSUME NEW d \in Nodes, CheckJudge(d) PROVE TypeOK'
  BY <1>10, RoomFacts DEF TypeOK, CheckJudge, CheckIdle, recordVars, beatVars, Looking,
               NothingSeen, Lookers, Ancient
<1>11. ASSUME NEW d \in Nodes, NEW n \in Nodes, CheckGet(d, n) PROVE TypeOK'
  <2>1. check' \in [Nodes -> [at : Lookers, todo : SUBSET Nodes]]
    <3>1. check' = [check EXCEPT ![d] = [check[d] EXCEPT !.todo = check[d].todo \ {n}]]
      BY <1>11 DEF CheckGet
    <3>2. [check[d] EXCEPT !.todo = check[d].todo \ {n}] \in [at : Lookers, todo : SUBSET Nodes]
      BY <1>c
    <3> QED
      BY <3>1, <3>2, <1>c
  <2>2. got' \in [Nodes -> SUBSET Nodes] /\ seen' \in [Nodes -> [Nodes -> 0..Ancient]]
    <3>1. CASE UNCHANGED <<got, seen>>
      BY <3>1, <1>c
    <3>2. CASE /\ got' = [got EXCEPT ![d] = got[d] \cup {n}]
               /\ seen' = [seen EXCEPT ![d] = [seen[d] EXCEPT ![n] = age[n]]]
      <4>1. got' \in [Nodes -> SUBSET Nodes]
        BY <3>2, <1>c
      <4>2. [seen[d] EXCEPT ![n] = age[n]] \in [Nodes -> 0..Ancient]
        BY <1>c, <1>t
      <4> QED
        BY <3>2, <4>1, <4>2, <1>c
    <3> QED
      BY <1>11, <3>1, <3>2 DEF CheckGet
  <2> QED
    BY <1>11, <2>1, <2>2 DEF TypeOK, CheckGet, recordVars, beatVars
<1>12. ASSUME Tick PROVE TypeOK'
  <2>1. sinceBeat' \in [Nodes -> 0..Beat]
    <3>1. ASSUME NEW n \in up \cap Beaters PROVE sinceBeat[n] < Beat
      <4>1. n \in Nodes /\ sinceBeat[n] \in Int
        BY <1>t DEF TypeOK
      <4>2. sinceBeat[n] < Latency \/ sinceBeat[n] < Beat
        BY <1>12 DEF Tick, NobodyDue
      <4> QED
        BY <4>1, <4>2, RoomFacts
    <3> QED
      BY <1>12, <1>t, <3>1, RoomFacts DEF Tick
  <2>2. leadAge' \in [Nodes -> {NoStamp} \cup 0..Latency]
    BY <1>12, <1>t, <1>c, RoomFacts DEF Tick, NobodyDue, CallsInv, NoStamp
  <2>3. sinceCheck' \in [Nodes -> 0..Check]
    <3>1. ASSUME NEW d \in up \cap Watchers, check[d].at # "stuck"
          PROVE  sinceCheck[d] < Check
      <4>1. d \in Nodes /\ sinceCheck[d] \in Int
        BY <1>t DEF TypeOK
      <4>2. check[d].at \in {"idle", "read"}
        BY <3>1, <4>1, <1>c DEF Lookers
      <4>3. sinceCheck[d] < Latency \/ sinceCheck[d] < Check
        BY <1>12, <4>2 DEF Tick, NobodyDue
      <4> QED
        BY <4>1, <4>3, RoomFacts
    <3> QED
      BY <1>12, <1>t, <3>1, RoomFacts DEF Tick
  <2>4. known' \in SUBSET Nodes /\ age' \in [Nodes -> 0..Ancient]
    BY <1>12, <1>t, <1>c, RoomFacts DEF Tick, Older, Ancient
  <2>5. kept' \in [Nodes -> 0..TTL]
    <3>1. \A n \in known \ Expired : storage = "redis" => kept[n] < TTL
      BY <1>t, RoomFacts DEF Expired
    <3> QED
      BY <1>12, <1>t, <3>1, RoomFacts DEF Tick
  <2>6. seen' \in [Nodes -> [Nodes -> 0..Ancient]]
    BY <1>12, <1>t, <1>c, RoomFacts DEF Tick, Older, Ancient
  <2> QED
    BY <1>12, <2>1, <2>2, <2>3, <2>4, <2>5, <2>6 DEF TypeOK, Tick
<1>13. CASE UNCHANGED vars
  BY <1>13 DEF TypeOK, vars, beatVars, recordVars, checkVars
<1> QED
  BY <1>1, <1>2, <1>b, <1>q, <1>3, <1>4, <1>5, <1>6, <1>7, <1>8, <1>9, <1>10, <1>11,
     <1>12, <1>13 DEF Next, Heartbeat, Leading, CheckFailures

------------------------------------------------------------------------------

\* Every step keeps calls short and within running nodes: no unit of time
\* passes while a call is due to return.
LEMMA CallsStep == TypeOK /\ CallsInv /\ [Next]_vars => CallsInv'
<1> SUFFICES ASSUME TypeOK, CallsInv, [Next]_vars PROVE CallsInv'
  OBVIOUS
<1> USE DEF CallsInv
<1>t. /\ up \subseteq Nodes /\ beating \subseteq up
      /\ sinceBeat \in [Nodes -> 0..Beat] /\ sinceCheck \in [Nodes -> 0..Check]
      /\ leadAge \in [Nodes -> {NoStamp} \cup 0..Latency]
      /\ check \in [Nodes -> [at : Lookers, todo : SUBSET Nodes]]
      /\ got \in [Nodes -> SUBSET Nodes]
  BY DEF TypeOK
<1>1. ASSUME NEW n \in Nodes, StartNode(n) PROVE CallsInv'
  BY <1>1, <1>t DEF StartNode
<1>2. ASSUME NEW n \in Nodes, KillNode(n) PROVE CallsInv'
  BY <1>2, <1>t DEF KillNode, Looking
<1>b. ASSUME NEW d \in Nodes, CheckBlock(d) PROVE CallsInv'
  BY <1>b, <1>t DEF CheckBlock, CheckDue, beatVars
<1>q. ASSUME NEW n \in Nodes, QueueAdd(n) PROVE CallsInv'
  BY <1>q DEF QueueAdd, beatVars
<1>3. ASSUME NEW n \in Nodes, BeatStamp(n) PROVE CallsInv'
  BY <1>3, <1>t, RoomFacts DEF BeatStamp, checkVars
<1>4. ASSUME NEW n \in Nodes, BeatStore(n) PROVE CallsInv'
  BY <1>4, <1>t DEF BeatStore, checkVars
<1>5. ASSUME NEW n \in Nodes, BeatFail(n) PROVE CallsInv'
  BY <1>5, <1>t DEF BeatFail, checkVars
<1>6. ASSUME NEW n \in Nodes, LeadStamp(n) PROVE CallsInv'
  BY <1>6, <1>t DEF LeadStamp, checkVars
<1>7. ASSUME NEW n \in Nodes, LeadStore(n) PROVE CallsInv'
  BY <1>7, <1>t DEF LeadStore, checkVars
<1>8. ASSUME NEW d \in Nodes, CheckList(d) PROVE CallsInv'
  BY <1>8, <1>t, RoomFacts DEF CheckList, CheckDue, beatVars
<1>9. ASSUME NEW d \in Nodes, CheckListFail(d) PROVE CallsInv'
  BY <1>9, <1>t, RoomFacts DEF CheckListFail, CheckDue, beatVars
<1>10. ASSUME NEW d \in Nodes, CheckJudge(d) PROVE CallsInv'
  BY <1>10, <1>t DEF CheckJudge, CheckIdle, Looking, beatVars
<1>11. ASSUME NEW d \in Nodes, NEW n \in Nodes, CheckGet(d, n) PROVE CallsInv'
  BY <1>11, <1>t DEF CheckGet, beatVars
<1>12. ASSUME Tick PROVE CallsInv'
  <2>1. ASSUME NEW n \in beating
        PROVE  n \in Beaters /\ sinceBeat'[n] <= Latency
    <3>1. n \in up \cap Beaters /\ sinceBeat[n] < Latency
      BY <1>12, <1>t DEF Tick, NobodyDue
    <3> QED
      BY <1>12, <1>t, <3>1, RoomFacts DEF Tick
  <2>2. ASSUME NEW n \in Nodes, leadAge'[n] # NoStamp
        PROVE  n \in up \cap Beaters
    BY <1>12, <1>t, <2>2 DEF Tick
  <2>3. ASSUME NEW d \in Nodes, check[d].at = "read"
        PROVE  d \in up \cap Watchers /\ sinceCheck'[d] <= Latency
    <3>1. d \in up \cap Watchers /\ sinceCheck[d] < Latency
      BY <1>12, <2>3 DEF Tick, NobodyDue
    <3> QED
      BY <1>12, <1>t, <3>1, RoomFacts DEF Tick
  <2> QED
    BY <1>12, <2>1, <2>2, <2>3 DEF Tick
<1>13. CASE UNCHANGED vars
  BY <1>13 DEF vars, beatVars, checkVars
<1> QED
  BY <1>1, <1>2, <1>b, <1>q, <1>3, <1>4, <1>5, <1>6, <1>7, <1>8, <1>9, <1>10, <1>11,
     <1>12, <1>13 DEF Next, Heartbeat, Leading, CheckFailures

\* A running heartbeat is never far behind.
LEMMA SinceStoredBound ==
    ASSUME TypeOK, CallsInv, NEW n \in up \cap Beaters
    PROVE  SinceStored(n) \in Nat /\ SinceStored(n) <= Room + Latency
<1> DEFINE missed == misses[n] * Beat
<1>1. n \in Nodes /\ sinceBeat[n] \in 0..Beat /\ misses[n] \in 0..Tolerated
  BY DEF TypeOK
<1>2. missed \in Nat /\ missed + Beat <= Room
  BY <1>1, MoreMisses
<1>3. CASE n \in beating
  <2>1. SinceStored(n) = sinceBeat[n] + (missed + Beat)
    BY <1>1, <1>3, MoreMisses DEF SinceStored
  <2>2. sinceBeat[n] <= Latency
    BY <1>3 DEF CallsInv
  <2> HIDE DEF missed
  <2> QED
    BY <1>1, <1>2, <2>1, <2>2, RoomFacts
<1>4. CASE n \notin beating
  <2>1. SinceStored(n) = sinceBeat[n] + missed
    BY <1>1, <1>4, MoreMisses DEF SinceStored
  <2> HIDE DEF missed
  <2> QED
    BY <1>1, <1>2, <2>1, RoomFacts
<1> QED
  BY <1>3, <1>4

\* The part of RecordInv about one node.
Young(n) == age[n] <= SinceStored(n) + Latency

\* A step that leaves the heartbeat of a node alone leaves SinceStored alone.
LEMMA YoungSame ==
    ASSUME NEW n, sinceBeat'[n] = sinceBeat[n], misses'[n] = misses[n],
           n \in beating' <=> n \in beating
    PROVE  SinceStored(n)' = SinceStored(n)
BY DEF SinceStored

\* Every step keeps records young: a stamp is at most Latency old when it is
\* stored, and a heartbeat that is not stored counts as missed.
LEMMA RecordStep == TypeOK /\ CallsInv /\ RecordInv /\ [Next]_vars => RecordInv'
<1> SUFFICES ASSUME TypeOK, CallsInv, RecordInv, [Next]_vars PROVE RecordInv'
  OBVIOUS
<1>t. /\ up \subseteq Nodes /\ beating \subseteq up /\ known \subseteq Nodes
      /\ sinceBeat \in [Nodes -> 0..Beat] /\ misses \in [Nodes -> 0..Tolerated]
      /\ leadAge \in [Nodes -> {NoStamp} \cup 0..Latency]
      /\ age \in [Nodes -> 0..Ancient]
  BY DEF TypeOK
<1>r. /\ known \subseteq Beaters /\ known \subseteq up \cup lapsed
      /\ \A m \in known \ lapsed : Young(m) /\ m \in up \cap Beaters
  BY DEF RecordInv, Young
<1>s. SUFFICES /\ known' \subseteq Beaters /\ known' \subseteq up' \cup lapsed'
               /\ \A m \in known' \ lapsed' : Young(m)'
  BY DEF RecordInv, Young
<1>1. ASSUME NEW n \in Nodes, StartNode(n) \/ KillNode(n)
      PROVE  /\ known' \subseteq Beaters /\ known' \subseteq up' \cup lapsed'
             /\ \A m \in known' \ lapsed' : Young(m)'
  <2>1. /\ known' = known /\ age' = age /\ known \subseteq up' \cup lapsed'
        /\ \A m \in known \ lapsed' : m \in known \ lapsed /\ m # n
    BY <1>1, <1>r DEF StartNode, KillNode, recordVars
  <2>2. ASSUME NEW m \in known \ lapsed' PROVE SinceStored(m)' = SinceStored(m)
    <3>1. m # n /\ m \in Nodes
      BY <2>1, <1>t
    <3>2. sinceBeat'[m] = sinceBeat[m] /\ misses'[m] = misses[m] /\ (m \in beating' <=> m \in beating)
      BY <3>1, <1>1, <1>t DEF StartNode, KillNode
    <3> QED
      BY <3>2, YoungSame
  <2> QED
    BY <2>1, <2>2, <1>r DEF Young
<1>3. ASSUME NEW n \in Nodes, BeatStamp(n)
      PROVE  /\ known' \subseteq Beaters /\ known' \subseteq up' \cup lapsed'
             /\ \A m \in known' \ lapsed' : Young(m)'
  <2>1. /\ known' = known /\ age' = age /\ lapsed' = lapsed /\ up' = up
    BY <1>3 DEF BeatStamp, recordVars
  <2>2. ASSUME NEW m \in known \ lapsed PROVE SinceStored(m)' = SinceStored(m)
    <3>1. CASE m # n
      BY <3>1, <1>3, <1>t, YoungSame DEF BeatStamp
    <3>2. CASE m = n
      <4>1. /\ n \notin beating /\ sinceBeat[n] = Beat /\ n \in beating'
            /\ sinceBeat'[n] = 0 /\ misses'[n] = misses[n] /\ misses[n] \in 0..Tolerated
        BY <1>3, <1>t DEF BeatStamp
      <4>2. SinceStored(n) = Beat + misses[n] * Beat
        BY <4>1, MoreMisses DEF SinceStored
      <4>3. SinceStored(n)' = 0 + (misses[n] + 1) * Beat
        BY <4>1 DEF SinceStored
      <4>4. (misses[n] + 1) * Beat = misses[n] * Beat + Beat /\ misses[n] * Beat \in Nat
        BY <4>1, MoreMisses
      <4> QED
        BY <3>2, <4>2, <4>3, <4>4, RoomFacts
    <3> QED
      BY <3>1, <3>2
  <2> QED
    BY <2>1, <2>2, <1>r DEF Young
<1>4. ASSUME NEW n \in Nodes, BeatStore(n) \/ BeatFail(n)
      PROVE  /\ known' \subseteq Beaters /\ known' \subseteq up' \cup lapsed'
             /\ \A m \in known' \ lapsed' : Young(m)'
  <2>1. /\ n \in up \cap Beaters /\ n \in beating /\ n \notin beating'
        /\ up' = up /\ lapsed \subseteq lapsed' /\ sinceBeat' = sinceBeat
        /\ known' \subseteq known \cup {n} /\ known \subseteq known'
    BY <1>4, <1>t DEF BeatStore, BeatFail, StoreRecord, recordVars, CallsInv
  <2>2. ASSUME NEW m \in known' \ lapsed', m # n PROVE Young(m)'
    <3>1. m \in known \ lapsed /\ m \in Nodes
      BY <2>1, <2>2, <1>t
    <3>2. sinceBeat'[m] = sinceBeat[m] /\ misses'[m] = misses[m] /\ (m \in beating' <=> m \in beating)
      BY <2>2, <3>1, <1>4, <1>t DEF BeatStore, BeatFail
    <3>3. age'[m] = age[m]
      BY <2>2, <3>1, <1>4, <1>t DEF BeatStore, BeatFail, StoreRecord, recordVars
    <3> QED
      BY <3>1, <3>2, <3>3, <1>r, YoungSame DEF Young
  <2>3. ASSUME n \in known' \ lapsed' PROVE Young(n)'
    <3> DEFINE k == misses'[n] * Beat
    <3>0. misses[n] \in 0..Tolerated /\ misses'[n] \in 0..Tolerated
      BY <2>3, <1>4, <1>t, RoomFacts DEF BeatStore, BeatFail
    <3>1. SinceStored(n)' = sinceBeat[n] + k
      BY <2>1, <3>0, MoreMisses DEF SinceStored
    <3>2. k \in Nat
      BY <3>0, MoreMisses
    <3>3. sinceBeat[n] \in Nat /\ age[n] \in Nat
      BY <1>t
    <3>4. CASE age'[n] = sinceBeat[n]
      <4> HIDE DEF k
      <4> QED
        BY <3>1, <3>2, <3>3, <3>4, RoomFacts DEF Young
    <3>5. CASE n \in known /\ age'[n] = age[n] /\ misses'[n] = misses[n] + 1
      <4>1. SinceStored(n) = sinceBeat[n] + k
        BY <2>1, <3>5 DEF SinceStored
      <4>2. Young(n)
        BY <2>1, <2>3, <3>5, <1>r
      <4> HIDE DEF k
      <4> QED
        BY <3>1, <3>5, <4>1, <4>2 DEF Young
    <3>6. CASE BeatStore(n)
      BY <3>6, <3>4, <1>t DEF BeatStore, StoreRecord
    <3>7. CASE BeatFail(n)
      <4>1. misses'[n] = misses[n] + 1
        BY <3>7, <2>3, <1>t DEF BeatFail
      <4>2. age'[n] = sinceBeat[n] \/ (n \in known /\ age'[n] = age[n])
        BY <3>7, <2>3, <1>t DEF BeatFail, StoreRecord, recordVars
      <4> QED
        BY <4>1, <4>2, <3>4, <3>5
    <3> QED
      BY <1>4, <3>6, <3>7
  <2> QED
    BY <2>1, <2>2, <2>3, <1>r
<1>6. ASSUME NEW n \in Nodes, Leading(n)
      PROVE  /\ known' \subseteq Beaters /\ known' \subseteq up' \cup lapsed'
             /\ \A m \in known' \ lapsed' : Young(m)'
  <2>1. /\ up' = up /\ lapsed' = lapsed /\ sinceBeat' = sinceBeat /\ misses' = misses
        /\ beating' = beating
    BY <1>6 DEF Leading, LeadStamp, LeadStore
  <2>2. /\ n \in up \cap Beaters /\ known' \subseteq known \cup {n}
        /\ \/ known' = known /\ age' = age
           \/ leadAge[n] \in 0..Latency /\ age' = [age EXCEPT ![n] = leadAge[n]]
    BY <1>6, <1>t DEF Leading, LeadStamp, LeadStore, StoreRecord, recordVars, CallsInv
  <2>3. ASSUME NEW m \in known' \ lapsed' PROVE Young(m)'
    <3>1. m \in up \cap Beaters /\ m \in Nodes
      BY <2>1, <2>2, <1>r, <1>t
    <3>2. SinceStored(m)' = SinceStored(m) /\ SinceStored(m) \in Nat
      BY <2>1, <3>1, YoungSame, SinceStoredBound
    <3>3. \/ m \in known \ lapsed /\ age'[m] = age[m]
          \/ age'[m] \in 0..Latency
      BY <2>1, <2>2, <3>1, <1>t
    <3> QED
      BY <3>2, <3>3, <1>r, RoomFacts DEF Young
  <2> QED
    BY <2>1, <2>2, <2>3, <1>r
<1>8. ASSUME UNCHANGED vars \/ \E d \in Nodes : QueueAdd(d) \/ CheckFailures(d)
      PROVE  /\ known' \subseteq Beaters /\ known' \subseteq up' \cup lapsed'
             /\ \A m \in known' \ lapsed' : Young(m)'
  <2>1. /\ up' = up /\ lapsed' = lapsed /\ sinceBeat' = sinceBeat /\ misses' = misses
        /\ beating' = beating /\ known' = known /\ age' = age
    BY <1>8 DEF QueueAdd, CheckFailures, CheckBlock, CheckList, CheckListFail, CheckJudge,
                CheckGet, beatVars, recordVars, vars
  <2> QED
    BY <2>1, <1>r, YoungSame DEF Young
<1>12. ASSUME Tick
      PROVE  /\ known' \subseteq Beaters /\ known' \subseteq up' \cup lapsed'
             /\ \A m \in known' \ lapsed' : Young(m)'
  <2>1. /\ up' = up /\ lapsed' = lapsed /\ misses' = misses /\ beating' = beating
        /\ known' \subseteq known
    BY <1>12 DEF Tick
  <2>2. ASSUME NEW m \in known' \ lapsed' PROVE Young(m)'
    <3> DEFINE k == (misses[m] + (IF m \in beating THEN 1 ELSE 0)) * Beat
    <3>1. m \in known \ lapsed /\ m \in up \cap Beaters /\ m \in Nodes
      BY <2>1, <1>r, <1>t
    <3>2. sinceBeat'[m] = sinceBeat[m] + 1
      BY <3>1, <1>12 DEF Tick
    <3>3. age'[m] <= age[m] + 1
      BY <3>1, <1>12, <1>t, RoomFacts DEF Tick, Older
    <3>4. SinceStored(m)' = (sinceBeat[m] + 1) + k /\ SinceStored(m) = sinceBeat[m] + k
      BY <2>1, <3>2 DEF SinceStored
    <3>5. age[m] <= SinceStored(m) + Latency /\ age[m] \in Nat /\ age'[m] \in Nat
      BY <3>1, <1>r, <1>t, <1>12, RoomFacts DEF Young, Tick, Older
    <3>6. k \in Nat /\ sinceBeat[m] \in Nat
      BY <3>1, <1>t, MoreMisses, RoomFacts
    <3> HIDE DEF k
    <3> QED
      BY <3>3, <3>4, <3>5, <3>6, RoomFacts DEF Young
  <2> QED
    BY <2>1, <2>2, <1>r
<1> QED
  BY <1>1, <1>3, <1>4, <1>6, <1>8, <1>12 DEF Next, Heartbeat

------------------------------------------------------------------------------

\* How old the record of a node can be that did not lapse.
LEMMA KnownYoung ==
    ASSUME TypeOK, CallsInv, RecordInv, NEW n \in known \ lapsed
    PROVE  age[n] <= Room + 2 * Latency
<1>1. n \in up \cap Beaters /\ age[n] <= SinceStored(n) + Latency /\ age[n] \in Nat
  BY RoomFacts DEF RecordInv, TypeOK
<1>2. SinceStored(n) \in Nat /\ SinceStored(n) <= Room + Latency
  BY <1>1, SinceStoredBound
<1> QED
  BY <1>1, <1>2, RoomFacts

\* Every step keeps what a detector has read young: after the read it ages no
\* faster than the call of the detector.
LEMMA SeenStep ==
    TypeOK /\ CallsInv /\ RecordInv /\ SeenInv /\ [Next]_vars => SeenInv'
<1> SUFFICES ASSUME TypeOK, CallsInv, RecordInv, SeenInv, [Next]_vars,
                    NEW e \in Nodes, NEW n \in got'[e] \ lapsed'
             PROVE  seen'[e][n] <= Room + 2 * Latency + sinceCheck'[e]
  BY DEF SeenInv
<1>t. /\ sinceCheck \in [Nodes -> 0..Check] /\ known \subseteq Nodes
      /\ check \in [Nodes -> [at : Lookers, todo : SUBSET Nodes]]
      /\ got \in [Nodes -> SUBSET Nodes]
      /\ seen \in [Nodes -> [Nodes -> 0..Ancient]] /\ age \in [Nodes -> 0..Ancient]
  BY DEF TypeOK
<1>s. ASSUME n \in got[e] \ lapsed PROVE seen[e][n] <= Room + 2 * Latency + sinceCheck[e]
  BY <1>s DEF SeenInv
<1>1. ASSUME NEW d \in Nodes, StartNode(d)
      PROVE  seen'[e][n] <= Room + 2 * Latency + sinceCheck'[e]
  <2>1. d # e
    BY <1>1 DEF StartNode, CallsInv
  <2> QED
    BY <1>1, <1>s, <1>t, <2>1 DEF StartNode
<1>2. ASSUME NEW d \in Nodes, KillNode(d)
      PROVE  seen'[e][n] <= Room + 2 * Latency + sinceCheck'[e]
  BY <1>2, <1>s, <1>t DEF KillNode
<1>b. ASSUME NEW d \in Nodes, CheckBlock(d)
      PROVE  seen'[e][n] <= Room + 2 * Latency + sinceCheck'[e]
  <2>1. got[d] = {} /\ got' = got
    BY <1>b DEF CheckBlock, CheckDue, CallsInv
  <2> QED
    BY <1>b, <1>s, <1>t, <2>1 DEF CheckBlock, CheckDue, beatVars
<1>q. ASSUME NEW d \in Nodes, QueueAdd(d)
      PROVE  seen'[e][n] <= Room + 2 * Latency + sinceCheck'[e]
  BY <1>q, <1>s DEF QueueAdd, beatVars
<1>3. CASE UNCHANGED vars \/ \E d \in Nodes : Heartbeat(d) \/ Leading(d)
  <2>1. UNCHANGED checkVars /\ lapsed \subseteq lapsed'
    BY <1>3 DEF Heartbeat, Leading, BeatStamp, BeatStore, BeatFail, LeadStamp, LeadStore,
                vars, beatVars
  <2> QED
    BY <2>1, <1>s DEF checkVars
<1>8. ASSUME NEW d \in Nodes, CheckList(d)
      PROVE  seen'[e][n] <= Room + 2 * Latency + sinceCheck'[e]
  <2>1. lapsed' = lapsed
    BY <1>8 DEF CheckList, CheckDue, beatVars
  <2>2. CASE d # e
    BY <1>8, <1>s, <1>t, <2>1, <2>2 DEF CheckList, CheckDue
  <2>3. CASE d = e
    <3>1. got[d] = {}
      BY <1>8 DEF CheckList, CheckDue, CallsInv
    <3>2. n \in known \ lapsed /\ seen'[e][n] = age[n] /\ sinceCheck'[e] = 0
      BY <1>8, <1>t, <2>1, <2>3, <3>1 DEF CheckList, CheckDue
    <3>3. age[n] \in Nat
      BY <3>2, <1>t, RoomFacts
    <3> QED
      BY <3>2, <3>3, KnownYoung, RoomFacts
  <2> QED
    BY <2>2, <2>3
<1>9. ASSUME NEW d \in Nodes, CheckListFail(d)
      PROVE  seen'[e][n] <= Room + 2 * Latency + sinceCheck'[e]
  <2>1. got[d] = {} /\ got' = got
    BY <1>9 DEF CheckListFail, CheckDue, CallsInv
  <2> QED
    BY <1>9, <1>s, <1>t, <2>1 DEF CheckListFail, CheckDue, beatVars
<1>10. ASSUME NEW d \in Nodes, CheckJudge(d)
      PROVE  seen'[e][n] <= Room + 2 * Latency + sinceCheck'[e]
  BY <1>10, <1>s, <1>t DEF CheckJudge, CheckIdle, beatVars
<1>11. ASSUME NEW d \in Nodes, NEW m \in Nodes, CheckGet(d, m)
      PROVE  seen'[e][n] <= Room + 2 * Latency + sinceCheck'[e]
  <2>1. lapsed' = lapsed /\ sinceCheck' = sinceCheck /\ sinceCheck[e] \in Nat
    BY <1>11, <1>t, RoomFacts DEF CheckGet, beatVars
  <2>2. \/ n \in got[e] /\ seen'[e][n] = seen[e][n]
        \/ n \in known /\ seen'[e][n] = age[n]
    <3>1. CASE UNCHANGED <<got, seen>>
      BY <3>1
    <3>2. CASE /\ m \in known /\ got' = [got EXCEPT ![d] = got[d] \cup {m}]
               /\ seen' = [seen EXCEPT ![d] = [seen[d] EXCEPT ![m] = age[m]]]
      <4>1. CASE e # d
        BY <3>2, <4>1, <1>t
      <4>2. CASE e = d
        <5>1. seen'[d] = [seen[d] EXCEPT ![m] = age[m]] /\ got'[d] = got[d] \cup {m}
          BY <3>2, <1>t
        <5>2. seen[d] \in [Nodes -> 0..Ancient] /\ got[d] \subseteq Nodes
          BY <1>t
        <5> QED
          BY <3>2, <4>2, <5>1, <5>2
      <4> QED
        BY <4>1, <4>2
    <3> QED
      BY <1>11, <3>1, <3>2 DEF CheckGet
  <2>3. CASE n \in got[e] /\ seen'[e][n] = seen[e][n]
    BY <1>s, <2>1, <2>3
  <2>4. CASE n \in known /\ seen'[e][n] = age[n]
    <3>1. age[n] \in Nat /\ age[n] <= Room + 2 * Latency
      BY <2>1, <2>4, <1>t, KnownYoung, RoomFacts
    <3> QED
      BY <3>1, <2>1, <2>4, RoomFacts
  <2> QED
    BY <2>2, <2>3, <2>4
<1>12. CASE Tick
  <2>1. lapsed' = lapsed /\ got' = got
    BY <1>12 DEF Tick
  <2>2. e \in up \cap Watchers /\ check[e].at # "stuck" /\ n \in Nodes
    BY <2>1, <1>t DEF CallsInv
  <2>3. sinceCheck'[e] = sinceCheck[e] + 1 /\ seen'[e][n] = Older(seen[e][n])
    BY <1>12, <2>1, <2>2 DEF Tick
  <2>4. seen[e][n] \in Nat /\ sinceCheck[e] \in Nat /\ seen'[e][n] <= seen[e][n] + 1
        /\ seen'[e][n] \in Nat
    BY <2>2, <2>3, <1>t, RoomFacts DEF Older
  <2> QED
    BY <2>1, <2>3, <2>4, <1>s, RoomFacts
<1> QED
  BY <1>1, <1>2, <1>b, <1>q, <1>3, <1>8, <1>9, <1>10, <1>11, <1>12 DEF Next, CheckFailures

\* The verdict: what is too old belongs to a node that lapsed.
LEMMA AccusedStep ==
    TypeOK /\ CallsInv /\ SeenInv /\ AccusedHadLapsed /\ [Next]_vars => AccusedHadLapsed'
<1> SUFFICES ASSUME TypeOK, CallsInv, SeenInv, AccusedHadLapsed, [Next]_vars
             PROVE  AccusedHadLapsed'
  OBVIOUS
<1>1. CASE \E d \in Nodes : CheckJudge(d)
  <2>1. PICK d \in Nodes : CheckJudge(d)
    BY <1>1
  <2>2. ASSUME NEW n \in got[d], TooOld(seen[d][n]) PROVE n \in lapsed
    <3>1. SUFFICES ASSUME n \notin lapsed PROVE FALSE
      OBVIOUS
    <3>2. sinceCheck[d] <= Latency /\ sinceCheck[d] \in Nat /\ seen[d][n] \in Nat
      BY <2>1, RoomFacts DEF CheckJudge, CallsInv, TypeOK
    <3>3. seen[d][n] <= Room + 2 * Latency + sinceCheck[d]
      BY <3>1 DEF SeenInv
    <3> QED
      BY <2>2, <3>2, <3>3, RoomFacts DEF TooOld
  <2> QED
    BY <2>1, <2>2 DEF CheckJudge, AccusedHadLapsed, beatVars, TypeOK
<1>2. CASE \E d \in Nodes : KillNode(d)
  BY <1>2 DEF KillNode, AccusedHadLapsed, TypeOK
<1>3. CASE UNCHANGED failedNodes /\ lapsed \subseteq lapsed'
  BY <1>3 DEF AccusedHadLapsed
<1> QED
  BY <1>1, <1>2, <1>3 DEF Next, Heartbeat, Leading, CheckFailures, StartNode, BeatStamp,
     BeatStore, BeatFail, LeadStamp, LeadStore, QueueAdd, CheckBlock, CheckList,
     CheckListFail, CheckGet, Tick, vars, beatVars, checkVars

------------------------------------------------------------------------------

\* The storage stays what it is, and a slow call is never forgotten.
LEMMA LateStep == [Next]_vars => storage' = storage /\ (late => late')
<1> SUFFICES ASSUME [Next]_vars PROVE storage' = storage /\ (late => late')
  OBVIOUS
<1>1. CASE Tick
  <2>1. storage' = storage
    BY <1>1 DEF Tick
  <2>2. late' = (late \/ Calling # {})
    BY <1>1 DEF Tick
  <2> QED
    BY <2>1, <2>2, Zenon
<1>2. CASE UNCHANGED <<storage, late>>
  BY <1>2
<1> QED
  BY <1>1, <1>2 DEF Next, Heartbeat, Leading, CheckFailures, StartNode, KillNode,
     BeatStamp, BeatStore, BeatFail, LeadStamp, LeadStore, QueueAdd, CheckBlock, CheckList,
     CheckListFail, CheckJudge, CheckGet, vars

\* Over Redis, as long as calls take no time, nothing that can be read is
\* older than its TTL.
LEMMA PromptStep ==
    TypeOK /\ CallsInv /\ PromptInv /\ [Next]_vars => PromptInv'
<1> SUFFICES ASSUME TypeOK, CallsInv, PromptInv, [Next]_vars, ~late'
             PROVE  /\ \A n \in beating' : sinceBeat'[n] = 0
                    /\ \A n \in Nodes : leadAge'[n] \in {NoStamp, 0}
                    /\ storage' = "redis" =>
                           /\ \A n \in known' : age'[n] = kept'[n]
                           /\ \A d \in Nodes : \A n \in got'[d] : seen'[d][n] <= TTL
  BY DEF PromptInv
<1> DEFINE Prompt == /\ \A n \in beating : sinceBeat[n] = 0
                     /\ \A n \in Nodes : leadAge[n] \in {NoStamp, 0}
           InRedis == /\ \A n \in known : age[n] = kept[n]
                      /\ \A d \in Nodes : \A n \in got[d] : seen[d][n] <= TTL
           Goal == Prompt' /\ (storage' = "redis" => InRedis')
<1>t. /\ up \subseteq Nodes /\ beating \subseteq up /\ known \subseteq Nodes
      /\ sinceBeat \in [Nodes -> 0..Beat]
      /\ leadAge \in [Nodes -> {NoStamp} \cup 0..Latency]
      /\ age \in [Nodes -> 0..Ancient] /\ kept \in [Nodes -> 0..TTL]
      /\ check \in [Nodes -> [at : Lookers, todo : SUBSET Nodes]]
      /\ got \in [Nodes -> SUBSET Nodes]
      /\ seen \in [Nodes -> [Nodes -> 0..Ancient]]
  BY DEF TypeOK
<1>p. ~late /\ Prompt /\ storage' = storage /\ (storage = "redis" => InRedis)
  BY LateStep DEF PromptInv
<1> SUFFICES Goal
  OBVIOUS
<1>1. ASSUME NEW n \in Nodes, StartNode(n) PROVE Goal
  BY <1>1, <1>p, <1>t DEF StartNode, recordVars
<1>2. ASSUME NEW n \in Nodes, KillNode(n) PROVE Goal
  BY <1>2, <1>p, <1>t DEF KillNode, recordVars
<1>3. ASSUME NEW n \in Nodes, BeatStamp(n) PROVE Goal
  BY <1>3, <1>p, <1>t DEF BeatStamp, recordVars, checkVars
<1>4. ASSUME NEW n \in Nodes, BeatStore(n) \/ BeatFail(n) PROVE Goal
  <2>1. Prompt'
    BY <1>4, <1>p, <1>t DEF BeatStore, BeatFail
  <2>2. sinceBeat[n] = 0
    BY <1>4, <1>p DEF BeatStore, BeatFail
  <2>3. StoreRecord(n, 0) \/ UNCHANGED recordVars
    BY <1>4, <2>2 DEF BeatStore, BeatFail
  <2>4. storage = "redis" => \A m \in known' : age'[m] = kept'[m]
    BY <2>3, <1>p, <1>t DEF StoreRecord, recordVars
  <2>5. UNCHANGED <<got, seen>>
    BY <1>4 DEF BeatStore, BeatFail, checkVars
  <2> QED
    BY <2>1, <2>4, <2>5, <1>p
<1>6. ASSUME NEW n \in Nodes, LeadStamp(n) PROVE Goal
  BY <1>6, <1>p, <1>t DEF LeadStamp, recordVars, checkVars
<1>7. ASSUME NEW n \in Nodes, LeadStore(n) PROVE Goal
  <2>1. Prompt'
    BY <1>7, <1>p, <1>t DEF LeadStore
  <2>2. leadAge[n] = 0
    BY <1>7, <1>p DEF LeadStore
  <2>3. StoreRecord(n, 0) \/ UNCHANGED recordVars
    BY <1>7, <2>2 DEF LeadStore
  <2>4. storage = "redis" => \A m \in known' : age'[m] = kept'[m]
    BY <2>3, <1>p, <1>t DEF StoreRecord, recordVars
  <2>5. UNCHANGED <<got, seen>>
    BY <1>7 DEF LeadStore, checkVars
  <2> QED
    BY <2>1, <2>4, <2>5, <1>p
<1>q. ASSUME NEW n \in Nodes, QueueAdd(n) \/ CheckBlock(n) PROVE Goal
  BY <1>q, <1>p DEF QueueAdd, CheckBlock, recordVars, beatVars
<1>8. ASSUME NEW d \in Nodes, CheckList(d) PROVE Goal
  BY <1>8, <1>p DEF CheckList, CheckDue, recordVars, beatVars
<1>9. ASSUME NEW d \in Nodes, CheckListFail(d) PROVE Goal
  BY <1>9, <1>p DEF CheckListFail, CheckDue, recordVars, beatVars
<1>10. ASSUME NEW d \in Nodes, CheckJudge(d) PROVE Goal
  BY <1>10, <1>p, <1>t DEF CheckJudge, CheckIdle, recordVars, beatVars
<1>11. ASSUME NEW d \in Nodes, NEW m \in Nodes, CheckGet(d, m) PROVE Goal
  <2>1. UNCHANGED <<beating, sinceBeat, leadAge, known, age, kept>>
    BY <1>11 DEF CheckGet, recordVars, beatVars
  <2>2. ASSUME storage = "redis", NEW e \in Nodes, NEW n \in got'[e] PROVE seen'[e][n] <= TTL
    <3>1. CASE UNCHANGED <<got, seen>>
      BY <2>2, <3>1, <1>p
    <3>2. CASE /\ m \in known /\ got' = [got EXCEPT ![d] = got[d] \cup {m}]
               /\ seen' = [seen EXCEPT ![d] = [seen[d] EXCEPT ![m] = age[m]]]
      <4>1. age[m] <= TTL
        BY <2>2, <3>2, <1>p, <1>t, RoomFacts
      <4>2. CASE e # d
        BY <2>2, <3>2, <4>2, <1>t, <1>p
      <4>3. CASE e = d
        <5>1. seen'[d] = [seen[d] EXCEPT ![m] = age[m]] /\ got'[d] = got[d] \cup {m}
          BY <3>2, <1>t
        <5>2. seen[d] \in [Nodes -> 0..Ancient] /\ got[d] \subseteq Nodes
          BY <1>t
        <5>3. \A k \in got[d] : seen[d][k] <= TTL
          BY <1>p, <2>2
        <5> QED
          BY <4>1, <4>3, <5>1, <5>2, <5>3
      <4> QED
        BY <4>2, <4>3
    <3> QED
      BY <1>11, <3>1, <3>2 DEF CheckGet
  <2> QED
    BY <2>1, <2>2, <1>p
<1>12. ASSUME Tick PROVE Goal
  <2>1. Calling = {} /\ UNCHANGED <<beating, up, got, check>>
    BY <1>12 DEF Tick
  <2>2. beating = {} /\ \A n \in Nodes : leadAge[n] = NoStamp
    BY <2>1, <1>t DEF Calling, CallsInv
  <2>3. \A d \in Nodes : got[d] = {}
    <3>1. SUFFICES ASSUME NEW d \in Nodes PROVE check[d].at # "read"
      BY DEF CallsInv
    <3> QED
      BY <2>1 DEF Calling, CallsInv
  <2>4. Prompt'
    BY <1>12, <2>1, <2>2 DEF Tick
  <2>5. ASSUME storage = "redis", NEW n \in known' PROVE age'[n] = kept'[n]
    <3>1. n \in known \ Expired /\ n \in Nodes
      BY <1>12, <1>t DEF Tick
    <3>2. age'[n] = Older(age[n]) /\ kept'[n] = kept[n] + 1
      BY <1>12, <2>5, <3>1 DEF Tick
    <3>3. age[n] = kept[n] /\ kept[n] \in Nat /\ kept[n] <= TTL
      BY <2>5, <3>1, <1>p, <1>t, RoomFacts
    <3> QED
      BY <3>2, <3>3, RoomFacts DEF Older
  <2> QED
    BY <2>1, <2>3, <2>4, <2>5, <1>p
<1>13. CASE UNCHANGED vars
  BY <1>13, <1>p DEF vars, beatVars, recordVars, checkVars
<1> QED
  BY <1>1, <1>2, <1>3, <1>4, <1>6, <1>7, <1>q, <1>8, <1>9, <1>10, <1>11, <1>12, <1>13
     DEF Next, Heartbeat, Leading, CheckFailures

\* Over prompt Redis no judgement finds a record that is too old: it has been
\* dropped by then (storage.go:197).
LEMMA HiddenStep ==
    TypeOK /\ PromptInv /\ RedisHidesDeaths /\ [Next]_vars => RedisHidesDeaths'
<1> SUFFICES ASSUME TypeOK, PromptInv, RedisHidesDeaths, [Next]_vars
             PROVE  RedisHidesDeaths'
  OBVIOUS
<1>0. storage' = storage /\ (late => late')
  BY LateStep
<1>1. CASE \E d \in Nodes : CheckJudge(d)
  <2>1. PICK d \in Nodes : CheckJudge(d)
    BY <1>1
  <2>2. ASSUME storage = "redis", ~late, NEW n \in got[d] PROVE ~TooOld(seen[d][n])
    <3>1. seen[d][n] <= TTL /\ seen[d][n] \in Nat
      BY <2>2, RoomFacts DEF PromptInv, TypeOK
    <3> QED
      BY <3>1, RoomFacts DEF TooOld
  <2> QED
    BY <1>0, <2>1, <2>2 DEF CheckJudge, RedisHidesDeaths, TypeOK
<1>2. CASE \E d \in Nodes : KillNode(d)
  BY <1>0, <1>2 DEF KillNode, RedisHidesDeaths, TypeOK
<1>3. CASE UNCHANGED failedNodes
  BY <1>0, <1>3 DEF RedisHidesDeaths
<1> QED
  BY <1>1, <1>2, <1>3 DEF Next, Heartbeat, Leading, CheckFailures, StartNode, BeatStamp,
     BeatStore, BeatFail, LeadStamp, LeadStore, QueueAdd, CheckBlock, CheckList,
     CheckListFail, CheckGet, Tick, vars, checkVars

------------------------------------------------------------------------------

\* The inductive invariant.
IInv == /\ TypeOK /\ CallsInv /\ RecordInv /\ SeenInv /\ PromptInv
        /\ AccusedHadLapsed /\ RedisHidesDeaths

\* All parts of the invariant hold of every reachable state.
LEMMA RegistryInvariant == Spec => []IInv
<1>1. Init => IInv
  <2> SUFFICES ASSUME Init PROVE IInv
    OBVIOUS
  <2>1. TypeOK
    BY TypeInit
  <2>2. CallsInv /\ RecordInv /\ SeenInv /\ PromptInv
    BY DEF Init, CallsInv, RecordInv, SeenInv, PromptInv, Looking
  <2>3. AccusedHadLapsed /\ RedisHidesDeaths
    BY DEF Init, AccusedHadLapsed, RedisHidesDeaths
  <2> QED
    BY <2>1, <2>2, <2>3 DEF IInv
<1>2. IInv /\ [Next]_vars => IInv'
  BY TypeStep, CallsStep, RecordStep, SeenStep, AccusedStep, PromptStep, HiddenStep DEF IInv
<1> QED
  BY <1>1, <1>2, PTL DEF Spec

\* The registry keeps its types in every behaviour, for any periods.
THEOREM RegistryTypeCorrect == Spec => []TypeOK
BY RegistryInvariant, PTL DEF IInv

\* Nobody is held for failed who did not die or miss more heartbeats than
\* RoomForMissedBeats allows, however many nodes write and look at once
\* (scheduler.go:365-377, 446-468).
THEOREM NobodyAccusedInVain == Spec => []AccusedHadLapsed
BY RegistryInvariant, PTL DEF IInv

\* With a TTL no longer than the limit of the detector, prompt calls to Redis
\* never show it a failure (storage.go:197, scheduler.go:461).
THEOREM RedisNeverShowsDeaths == Spec => []RedisHidesDeaths
BY RegistryInvariant, PTL DEF IInv

=============================================================================
