------------------------- MODULE SchedulerNodeProofs -------------------------
(****************************************************************************)
(* The scheduler node for any number of handlers, workers, tasks and        *)
(* restarts.                                                                *)
(****************************************************************************)
EXTENDS SchedulerNode, FiniteSetTheorems, TLAPS

\* Whoever is in the middle of something knows the task it is about.
TasksInHand ==
    /\ \A w \in Workers : pc[w] \in Holding => cur[w] \in Objects /\ cur[w][1] \in issued
    /\ \A r \in Requests : sub[r].at \in {"save", "add", "push"} =>
           \E id \in issued : sub[r].obj = ByNewTask(id)
    /\ reas.at = "add" => reas.obj \in Objects /\ reas.obj[1] \in issued /\ reas.obj[2] > 2
    /\ api.at = "write" => api.id \in issued

\* Nothing in memory or in Redis is about a task that was never issued.
OnlyIssued ==
    /\ \A o \in queue : o[1] \in issued
    /\ \A id \in Ids : (stored[id] # "none" \/ listed[id] # "none") => id \in issued
    /\ rec.todo \subseteq issued /\ reas.todo \subseteq issued

NodeInv == NodeTypeOK /\ TasksInHand /\ OnlyIssued

\* The structs of an id.
LEMMA Structs ==
    /\ \A o \in Objects : o[1] \in Ids /\ o[2] \in Nat
    /\ \A id \in Ids : /\ ByNewTask(id) \in Objects /\ ByRecovery(id) \in Objects
                       /\ ByNewTask(id)[1] = id /\ ByNewTask(id)[2] = 1
                       /\ ByRecovery(id)[1] = id /\ ByRecovery(id)[2] = 2
BY CopiesAssumption, CopiesForRecovery DEF Objects, ByNewTask, ByRecovery

\* The node starts empty.
LEMMA InitNodeInv == NodeInit => NodeInv
<1> SUFFICES ASSUME NodeInit PROVE NodeInv
  OBVIOUS
<1> USE DEF NodeInit, Idle, Statuses, Terminal, Locations, Holding
<1>1. TypeOK
  BY DEF TypeOK
<1>2. /\ sub \in [Requests -> [at : {"idle", "save", "add", "push", "stuck"},
                             obj : Objects \cup {None}]]
      /\ rec \in [at : {"off", "read", "loop", "done", "failed", "stuck"}, todo : SUBSET Ids]
      /\ reas \in [at : {"idle", "loop", "add", "stuck"}, todo : SUBSET Ids,
                   obj : Objects \cup {None}]
      /\ api \in [at : {"idle", "write"}, id : Ids \cup {None}, status : Statuses]
  OBVIOUS
<1>3. wedged \in BOOLEAN /\ lenRelocks \in LenRelocks
  OBVIOUS
<1>4. listed \in [Ids -> Statuses] /\ restarts \in 0..MaxRestarts
  BY MaxRestartsAssumption
<1>5. issued \in SUBSET Ids /\ acked \in SUBSET issued /\ ran \in SUBSET issued
  OBVIOUS
<1>6. NodeTypeOK
  <2>1. excused \in SUBSET Ids
    OBVIOUS
  <2>2. QED
    BY <1>1, <1>2, <1>3, <1>4, <1>5, <2>1, Zenon DEF NodeTypeOK
<1>7. TasksInHand /\ OnlyIssued
  BY DEF TasksInHand, OnlyIssued
<1>8. QED
  BY <1>6, <1>7 DEF NodeInv

\* The history variable only ever holds task ids.
LEMMA NextHistory == NodeInv /\ [NodeNext]_allVars => excused' \in SUBSET Ids
<1> SUFFICES ASSUME NodeInv, [NodeNext]_allVars PROVE excused' \in SUBSET Ids
  OBVIOUS
<1>0. excused \in SUBSET Ids
  BY DEF NodeInv, NodeTypeOK
<1> USE <1>0
<1>1. CASE NodeStart \/ NodeStop \/ NodeStopReturn \/ Die
  BY <1>1 DEF NodeStart, NodeStop, NodeStopReturn, Die
<1>2. ASSUME NEW r \in Requests, Submission(r) \/ \E id \in Ids : SubmitCheck(r, id)
      PROVE  excused' \in SUBSET Ids
  <2>1. CASE SubmitSave(r)
    <3>1. sub[r].obj[1] \in Ids
      BY <2>1, Structs DEF SubmitSave, NodeInv, NodeTypeOK, TasksInHand
    <3>2. QED
      BY <2>1, <3>1 DEF SubmitSave
  <2>2. CASE ~SubmitSave(r)
    BY <1>2, <2>2 DEF Submission, SubmitCheck, SubmitAdd, SubmitPush
  <2>3. QED
    BY <2>1, <2>2
<1>3. CASE Recovery
  BY <1>3 DEF Recovery, RecoverRead, RecoverAdd, RecoverDone
<1>4. CASE ReassignRead \/ ReassignAdd \/ ReassignDone
  BY <1>4 DEF ReassignRead, ReassignAdd, ReassignDone
<1>5. ASSUME NEW o \in Objects, ReassignUpdate(o)
      PROVE  excused' \in SUBSET Ids
  BY <1>5, Structs DEF ReassignUpdate
<1>6. ASSUME NEW id \in ApiIds, UpdateRead(id) \/ DeleteTask(id)
      PROVE  excused' \in SUBSET Ids
  BY <1>6, ApiIdsAssumption DEF UpdateRead, DeleteTask
<1>7. CASE UpdateWrite
  BY <1>7 DEF UpdateWrite
<1>8. ASSUME NEW w \in Workers, NodeWork(w)
      PROVE  excused' \in SUBSET Ids
  BY <1>8 DEF NodeWork, Silent, TakeNext, ProcessTask
<1>9. CASE UNCHANGED allVars
  BY <1>9 DEF allVars
<1>10. QED
  BY <1>1, <1>2, <1>3, <1>4, <1>5, <1>6, <1>7, <1>8, <1>9 DEF NodeNext

\* Every step of the node is about issued tasks and keeps the types.
LEMMA NextNodeInv == NodeInv /\ [NodeNext]_allVars => NodeInv'
<1> SUFFICES ASSUME NodeInv, [NodeNext]_allVars PROVE NodeInv'
  OBVIOUS
<1>0. excused' \in SUBSET Ids
  BY NextHistory DEF NodeInv
<1> USE <1>0, Structs, NoneNotObject
    DEF NodeInv, NodeTypeOK, TypeOK, TasksInHand, OnlyIssued, Idle,
        Statuses, Terminal, Locations, Holding, nodeVars, poolVars, metrics, store
<1>1. CASE NodeStart
  BY <1>1 DEF NodeStart, Start
<1>2. CASE NodeStop \/ NodeStopReturn
  BY <1>2 DEF NodeStop, NodeStopReturn, StopCancel, StopReturn
<1>3. CASE Die
  <2> USE <1>3 DEF Die
  <2>1. TypeOK'
    OBVIOUS
  <2>2. /\ sub' \in [Requests -> [at : {"idle", "save", "add", "push", "stuck"},
                                obj : Objects \cup {None}]]
        /\ rec' \in [at : {"off", "read", "loop", "done", "failed", "stuck"}, todo : SUBSET Ids]
        /\ reas' \in [at : {"idle", "loop", "add", "stuck"}, todo : SUBSET Ids,
                     obj : Objects \cup {None}]
        /\ api' \in [at : {"idle", "write"}, id : Ids \cup {None}, status : Statuses]
    OBVIOUS
  <2>3. wedged' \in BOOLEAN /\ lenRelocks' \in LenRelocks
    OBVIOUS
  <2>4. listed' \in [Ids -> Statuses] /\ restarts' \in 0..MaxRestarts
    BY MaxRestartsAssumption
  <2>5. (issued \in SUBSET Ids /\ acked \in SUBSET issued /\ ran \in SUBSET issued)'
    OBVIOUS
  <2>6. NodeTypeOK'
    BY <1>0, <2>1, <2>2, <2>3, <2>4, <2>5, Zenon DEF NodeTypeOK
  <2>7. TasksInHand' /\ OnlyIssued'
    OBVIOUS
  <2>8. QED
    BY <2>6, <2>7
<1>4. ASSUME NEW r \in Requests, NEW id \in Ids, SubmitCheck(r, id) PROVE NodeInv'
  <2> USE <1>4 DEF SubmitCheck
  <2>0. sub' \in [Requests -> [at : {"idle", "save", "add", "push", "stuck"},
                               obj : Objects \cup {None}]]
    OBVIOUS
  <2>1. NodeTypeOK'
    BY <2>0
  <2>2. TasksInHand'
    <3>1. id \in issued' /\ sub'[r].obj = ByNewTask(id) /\ issued \subseteq issued'
      OBVIOUS
    <3>2. ASSUME NEW q \in Requests, sub'[q].at \in {"save", "add", "push"}
          PROVE  \E i \in issued' : sub'[q].obj = ByNewTask(i)
      <4>1. CASE q = r
        <5>1. id \in issued' /\ sub'[q].obj = ByNewTask(id)
          BY <3>1, <4>1
        <5> HIDE <1>4 DEF SubmitCheck
        <5>2. QED
          BY <5>1
      <4>2. CASE q # r
        <5>1. sub'[q] = sub[q]
          BY <4>2
        <5>2. QED
          BY <3>1, <3>2, <5>1
      <4>3. QED
        BY <4>1, <4>2
    <3>3. /\ \A w \in Workers : pc'[w] \in Holding =>
                cur'[w] \in Objects /\ cur'[w][1] \in issued'
          /\ reas'.at = "add" =>
                reas'.obj \in Objects /\ reas'.obj[1] \in issued' /\ reas'.obj[2] > 2
          /\ api'.at = "write" => api'.id \in issued'
      BY <3>1
    <3>4. QED
      BY <3>2, <3>3
  <2>3. OnlyIssued'
    OBVIOUS
  <2>4. QED
    BY <2>1, <2>2, <2>3
<1>5. ASSUME NEW r \in Requests, SubmitSave(r) PROVE NodeInv'
  <2> USE <1>5 DEF SubmitSave, Write
  <2>1. NodeTypeOK'
    <3>1. sub[r].obj \in Objects /\ sub[r].obj[1] \in Ids
      OBVIOUS
    <3>2. stored' \in [Ids -> Statuses]
      BY <3>1
    <3>3. /\ sub \in [Requests -> [at : {"idle", "save", "add", "push", "stuck"},
                                   obj : Objects \cup {None}]]
          /\ sub' = [sub EXCEPT ![r].at = "add"] \/ sub' = [sub EXCEPT ![r] = Idle]
      OBVIOUS
    <3>4. sub' \in [Requests -> [at : {"idle", "save", "add", "push", "stuck"},
                                obj : Objects \cup {None}]]
      <4> HIDE <1>0, <1>5 DEF NodeInv, SubmitSave
      <4>1. QED
        BY <3>3
    <3> QED
      BY <3>2, <3>4
  <2>2. TasksInHand'
    OBVIOUS
  <2>3. OnlyIssued'
    OBVIOUS
  <2>4. QED
    BY <2>1, <2>2, <2>3
<1>6. ASSUME NEW r \in Requests, SubmitAdd(r) PROVE NodeInv'
  <2> USE <1>6, LenRelocksAssumption DEF SubmitAdd, QueueAdd, AfterAdd
  <2>1. NodeTypeOK'
    OBVIOUS
  <2>2. TasksInHand'
    OBVIOUS
  <2>3. OnlyIssued'
    OBVIOUS
  <2>4. QED
    BY <2>1, <2>2, <2>3
<1>7. ASSUME NEW r \in Requests, SubmitPush(r) PROVE NodeInv'
  <2> USE <1>7 DEF SubmitPush
  <2>1. NodeTypeOK'
    <3>1. TypeOK'
      OBVIOUS
    <3>2. sub' \in [Requests -> [at : {"idle", "save", "add", "push", "stuck"},
                                obj : Objects \cup {None}]]
      OBVIOUS
    <3>3. sub[r].obj \in Objects /\ sub[r].obj[1] \in issued
      OBVIOUS
    <3>4. listed' \in [Ids -> Statuses] /\ acked' \in SUBSET issued
      BY <3>3
    <3> QED
      BY <3>1, <3>2, <3>4
  <2>2. TasksInHand'
    OBVIOUS
  <2>3. OnlyIssued'
    OBVIOUS
  <2>4. QED
    BY <2>1, <2>2, <2>3
<1>8. CASE RecoverRead \/ RecoverDone
  BY <1>8 DEF RecoverRead, RecoverDone
<1>9. ASSUME NEW id \in Ids, RecoverAdd(id) PROVE NodeInv'
  BY <1>9, LenRelocksAssumption DEF RecoverAdd, QueueAdd, AfterAdd
<1>10. CASE ReassignRead \/ ReassignDone
  BY <1>10 DEF ReassignRead, ReassignDone
<1>11. ASSUME NEW o \in Objects, ReassignUpdate(o) PROVE NodeInv'
  <2> USE <1>11 DEF ReassignUpdate, ByReassignment, Write
  <2>1. o[1] \in issued /\ o[1] \in Ids /\ o[2] > 2
    OBVIOUS
  <2>2. stored' \in [Ids -> Statuses] /\ status' \in [Objects -> Statuses]
    <3>1. \/ /\ stored' = [stored EXCEPT ![o[1]] = "pending"]
             /\ status' = [status EXCEPT ![o] = "pending"]
          \/ /\ stored' \in {stored, [stored EXCEPT ![o[1]] = "pending"]}
             /\ UNCHANGED status
      OBVIOUS
    <3>2. stored \in [Ids -> Statuses] /\ status \in [Objects -> Statuses]
      OBVIOUS
    <3> HIDE <1>0, <1>11 DEF NodeInv, ReassignUpdate
    <3>3. QED
      BY <2>1, <3>1, <3>2
  <2>3. reas' \in [at : {"idle", "loop", "add", "stuck"}, todo : SUBSET Ids,
                  obj : Objects \cup {None}]
    OBVIOUS
  <2>4. NodeTypeOK'
    BY <2>2, <2>3
  <2>5. TasksInHand'
    BY <2>1
  <2>6. OnlyIssued'
    BY <2>1
  <2>7. QED
    BY <2>4, <2>5, <2>6
<1>12. CASE ReassignAdd
  <2> USE <1>12 DEF ReassignAdd, QueueAdd, AfterAdd
  <2>1. wedged' \in BOOLEAN /\ lenRelocks' \in LenRelocks
    BY LenRelocksAssumption
  <2>2. TypeOK'
    OBVIOUS
  <2>3. reas' \in [at : {"idle", "loop", "add", "stuck"}, todo : SUBSET Ids,
                  obj : Objects \cup {None}]
    OBVIOUS
  <2>4. NodeTypeOK'
    BY <2>1, <2>2, <2>3
  <2>5. TasksInHand'
    OBVIOUS
  <2>6. OnlyIssued'
    OBVIOUS
  <2>7. QED
    BY <2>4, <2>5, <2>6
<1>13. ASSUME NEW id \in ApiIds, UpdateRead(id) PROVE NodeInv'
  <2>1. PICK s \in ApiStatuses \cup {stored[id]} :
            api' = [at |-> "write", id |-> id, status |-> s]
    BY <1>13 DEF UpdateRead
  <2>2. id \in Ids /\ id \in issued
    BY <1>13, ApiIdsAssumption DEF UpdateRead
  <2>3. s \in Statuses
    <3>1. stored[id] \in Statuses
      BY <2>2
    <3> HIDE DEF NodeInv, Statuses, Terminal
    <3> QED
      BY <3>1, ApiStatusesAssumption
  <2>4. api' \in [at : {"idle", "write"}, id : Ids \cup {None}, status : Statuses]
    BY <2>1, <2>2, <2>3
  <2>5. NodeTypeOK'
    BY <1>13, <2>4 DEF UpdateRead
  <2>6. TasksInHand' /\ OnlyIssued'
    BY <1>13, <2>1, <2>2 DEF UpdateRead
  <2>7. QED
    BY <2>5, <2>6
<1>14. ASSUME NEW id \in ApiIds, DeleteTask(id) PROVE NodeInv'
  BY <1>14, ApiIdsAssumption DEF DeleteTask, Write
<1>15. CASE UpdateWrite
  BY <1>15 DEF UpdateWrite, Write
<1>16. ASSUME NEW w \in Workers, Silent(w) PROVE NodeInv'
  <2>1. CASE SelectDone(w) \/ SelectDefault(w) \/ Enter(w) \/ Leave(w)
    <3> USE <2>1 DEF SelectDone, SelectDefault, Enter, Leave, Goto
    <3>1. UNCHANGED nodeVars
      BY <1>16 DEF Silent
    <3>e. excused' \subseteq Ids /\ UNCHANGED <<stored, refused, pool, queue, status>>
      BY <1>16 DEF Silent
    <3>p. pc' \in [Workers -> Locations]
      OBVIOUS
    <3>i. /\ inProgress' \in Int /\ UNCHANGED <<processed, failed, queueSize>>
          /\ cur' \in [Workers -> Objects \cup {None}]
      OBVIOUS
    <3>2. NodeTypeOK'
      BY <3>1, <3>e, <3>p, <3>i
    <3>3. TasksInHand' /\ OnlyIssued'
      BY <3>1
    <3> QED
      BY <3>2, <3>3
  <2>2. CASE MarkRunning(w)
    BY <1>16, <2>2 DEF Silent, MarkRunning, Goto
  <2>3. CASE SaveRunning(w) \/ SaveFinal(w)
    <3> USE <1>16, <2>3 DEF Silent, SaveRunning, SaveFinal, UpdateTask, Goto
    <3>1. cur[w] \in Objects /\ cur[w][1] \in issued
      OBVIOUS
    <3>2. stored' \in [Ids -> Statuses] /\ refused' \in SUBSET Ids
      BY <3>1
    <3>3. pc' \in [Workers -> Locations]
      OBVIOUS
    <3>4. NodeTypeOK'
      BY <3>2, <3>3
    <3>5. TasksInHand'
      BY <3>1
    <3>6. OnlyIssued'
      BY <3>1
    <3> QED
      BY <3>4, <3>5, <3>6
  <2>4. QED
    BY <1>16, <2>1, <2>2, <2>3 DEF Silent
<1>17. ASSUME NEW w \in Workers, TakeNext(w) PROVE NodeInv'
  <2>1. CASE RemoveNil(w)
    BY <1>17, <2>1 DEF TakeNext, RemoveNil, Goto
  <2>2. ASSUME NEW o \in Objects, RemoveTask(w, o) PROVE NodeInv'
    <3> USE <1>17, <2>2 DEF TakeNext, RemoveTask, Goto
    <3>1. NodeTypeOK'
      OBVIOUS
    <3>2. TasksInHand' /\ OnlyIssued'
      OBVIOUS
    <3> QED
      BY <3>1, <3>2
  <2> QED
    BY <1>17, <2>1, <2>2 DEF TakeNext
<1>18. ASSUME NEW w \in Workers, ProcessTask(w) PROVE NodeInv'
  BY <1>18 DEF ProcessTask, ProcessOk, Goto
<1>19. CASE UNCHANGED allVars
  BY <1>19 DEF allVars
<1>20. QED
  BY <1>1, <1>2, <1>3, <1>4, <1>5, <1>6, <1>7, <1>8, <1>9, <1>10, <1>11, <1>12,
     <1>13, <1>14, <1>15, <1>16, <1>17, <1>18, <1>19
     DEF NodeNext, Submission, Recovery, NodeWork

\* Type correctness of the node with its pool (scheduler.go:17-56).
THEOREM NodeTypeCorrect == NodeSpec => []NodeTypeOK
<1>1. NodeInv => NodeTypeOK
  BY DEF NodeInv
<1>2. QED
  BY <1>1, InitNodeInv, NextNodeInv, PTL DEF NodeSpec

------------------------------------------------------------------------------
(* The code as it stands: the first Add never returns.                      *)

\* With the lock taken again in Len, a task is in the queue only behind the
\* wedge, nobody gets past Add and nobody gets a task.
RelockInv ==
    lenRelocks => /\ RelockedNodeDoesNothing
                  /\ ~wedged => queue = {}
                  /\ rec.todo = {}
                  /\ \A r \in Requests : sub[r].at # "push"

\* No step of a relocking node answers, pushes or runs anything.
LEMMA NextRelock == NodeInv /\ RelockInv /\ [NodeNext]_allVars => RelockInv'
<1> SUFFICES ASSUME NodeInv, RelockInv, [NodeNext]_allVars, lenRelocks'
             PROVE  /\ acked' = {} /\ ran' = {}
                    /\ \A id \in Ids : listed'[id] = "none"
                    /\ \A w \in Workers : pc'[w] \notin Holding
                    /\ ~wedged' => queue' = {}
                    /\ rec'.todo = {}
                    /\ \A r \in Requests : sub'[r].at # "push"
  BY DEF RelockInv, RelockedNodeDoesNothing
<1>1. lenRelocks' = lenRelocks
  BY DEF NodeNext, allVars, nodeVars, NodeStart, NodeStop, NodeStopReturn, Die,
      Submission, SubmitCheck, SubmitSave, SubmitAdd, SubmitPush, Recovery,
      RecoverRead, RecoverAdd, RecoverDone, ReassignRead, ReassignUpdate, ReassignAdd,
      ReassignDone, UpdateRead, UpdateWrite, DeleteTask, NodeWork, Silent, TakeNext,
      ProcessTask
<1>2. /\ acked = {} /\ ran = {}
      /\ \A id \in Ids : listed[id] = "none"
      /\ \A w \in Workers : pc[w] \notin Holding
      /\ ~wedged => queue = {}
      /\ rec.todo = {}
      /\ \A r \in Requests : sub[r].at # "push"
  BY <1>1 DEF RelockInv, RelockedNodeDoesNothing
<1>3. lenRelocks /\ rec \in [at : {"off", "read", "loop", "done", "failed", "stuck"}, todo : SUBSET Ids]
  BY <1>1 DEF NodeInv, NodeTypeOK
<1>4. /\ pc \in [Workers -> Locations]
      /\ sub \in [Requests -> [at : {"idle", "save", "add", "push", "stuck"},
                               obj : Objects \cup {None}]]
  BY DEF NodeInv, NodeTypeOK, TypeOK
<1> USE <1>2, <1>3, <1>4 DEF Holding, Locations, nodeVars, poolVars
<1>5. CASE NodeStart \/ NodeStop \/ NodeStopReturn
  BY <1>5 DEF NodeStart, NodeStop, NodeStopReturn, Start, StopCancel, StopReturn
<1>6. CASE Die
  BY <1>6 DEF Die, Idle
<1>7. ASSUME NEW r \in Requests,
             SubmitSave(r) \/ SubmitPush(r) \/ \E id \in Ids : SubmitCheck(r, id)
      PROVE  /\ acked' = {} /\ ran' = {}
             /\ \A id \in Ids : listed'[id] = "none"
             /\ \A w \in Workers : pc'[w] \notin Holding
             /\ ~wedged' => queue' = {}
             /\ rec'.todo = {}
             /\ \A q \in Requests : sub'[q].at # "push"
  BY <1>7 DEF SubmitSave, SubmitPush, SubmitCheck, Idle
<1>8. ASSUME NEW r \in Requests, SubmitAdd(r)
      PROVE  /\ acked' = {} /\ ran' = {}
             /\ \A id \in Ids : listed'[id] = "none"
             /\ \A w \in Workers : pc'[w] \notin Holding
             /\ ~wedged' => queue' = {}
             /\ rec'.todo = {}
             /\ \A q \in Requests : sub'[q].at # "push"
  <2>1. wedged' /\ sub' = [sub EXCEPT ![r].at = "stuck"]
    BY <1>8 DEF SubmitAdd, QueueAdd, AfterAdd
  <2>2. QED
    BY <1>8, <2>1 DEF SubmitAdd
<1>9. CASE Recovery
  BY <1>9 DEF Recovery, RecoverRead, RecoverAdd, RecoverDone
<1>10. CASE ReassignRead \/ ReassignDone \/ UpdateWrite
            \/ (\E o \in Objects : ReassignUpdate(o))
            \/ (\E id \in ApiIds : UpdateRead(id) \/ DeleteTask(id))
  BY <1>10 DEF ReassignRead, ReassignDone, UpdateWrite, ReassignUpdate, UpdateRead,
       DeleteTask
<1>11. CASE ReassignAdd
  <2>1. wedged'
    BY <1>11 DEF ReassignAdd, QueueAdd
  <2>2. QED
    BY <1>11, <2>1 DEF ReassignAdd
<1>12. ASSUME NEW w \in Workers, NodeWork(w)
       PROVE  /\ acked' = {} /\ ran' = {}
              /\ \A id \in Ids : listed'[id] = "none"
              /\ \A v \in Workers : pc'[v] \notin Holding
              /\ ~wedged' => queue' = {}
              /\ rec'.todo = {}
              /\ \A q \in Requests : sub'[q].at # "push"
  <2>1. SelectDone(w) \/ SelectDefault(w) \/ RemoveNil(w)
    BY <1>12 DEF NodeWork, Silent, TakeNext, ProcessTask, Enter, MarkRunning,
         SaveRunning, SaveFinal, Leave, ProcessOk, RemoveTask
  <2>2. UNCHANGED nodeVars /\ queue' = queue
    BY <1>12, <2>1 DEF NodeWork, Silent, TakeNext, ProcessTask, ProcessOk, RemoveNil,
         SelectDone, SelectDefault
  <2>3. QED
    BY <2>1, <2>2 DEF SelectDone, SelectDefault, RemoveNil, Goto
<1>13. CASE UNCHANGED allVars
  BY <1>13 DEF allVars
<1>14. QED
  BY <1>5, <1>6, <1>7, <1>8, <1>9, <1>10, <1>11, <1>12, <1>13
     DEF NodeNext, Submission

\* As the code stands, whatever the number of handlers, workers and restarts,
\* no submission is answered with success and no task is ever run.
THEOREM NothingRuns == NodeSpec => []RelockedNodeDoesNothing
<1>1. NodeInit => RelockInv
  BY DEF NodeInit, RelockInv, RelockedNodeDoesNothing, Idle, Holding
<1>2. RelockInv => RelockedNodeDoesNothing
  BY DEF RelockInv, RelockedNodeDoesNothing
<1>3. QED
  BY <1>1, <1>2, InitNodeInv, NextNodeInv, NextRelock, PTL DEF NodeSpec

------------------------------------------------------------------------------
(* The queue limit under concurrent submissions.                            *)

Front == {o \in queue : o[2] = 1}
Flying == {r \in Requests : sub[r].at \in {"save", "add"}}

Bounded == Cardinality(Front) + Cardinality(Flying)
               <= MaxQueueSize + Cardinality(Requests) - 1

\* There are finitely many task structs.
LEMMA StructsFinite == IsFiniteSet(Objects)
<1>1. IsFiniteSet(1..Copies)
  BY CopiesAssumption, FS_Interval
<1>2. QED
  BY <1>1, IdsFinite, FS_Product DEF Objects

\* The sets that are counted are finite.
LEMMA Countable ==
    ASSUME queue \in SUBSET Objects
    PROVE  /\ IsFiniteSet(queue) /\ Cardinality(queue) \in Nat
           /\ IsFiniteSet(Front) /\ Cardinality(Front) \in Nat
           /\ Cardinality(Front) <= Cardinality(queue)
           /\ IsFiniteSet(Flying) /\ Cardinality(Flying) \in Nat
           /\ Cardinality(Flying) <= Cardinality(Requests)
           /\ Cardinality(Requests) \in Nat
<1>1. IsFiniteSet(queue) /\ Cardinality(queue) \in Nat
  BY StructsFinite, FS_Subset, FS_CardinalityType
<1>2. Front \in SUBSET queue /\ Flying \in SUBSET Requests
  BY DEF Front, Flying
<1>3. QED
  BY <1>1, <1>2, RequestsFinite, FS_Subset, FS_CardinalityType

\* Smaller sets stay within the limit.
LEMMA BoundedDown ==
    ASSUME queue \in SUBSET Objects, queue' \in SUBSET Objects, Bounded,
           Front' \subseteq Front, Flying' \subseteq Flying
    PROVE  Bounded'
<1>1. /\ Cardinality(Front') <= Cardinality(Front) /\ Cardinality(Front') \in Nat
      /\ Cardinality(Flying') <= Cardinality(Flying) /\ Cardinality(Flying') \in Nat
  BY Countable, FS_Subset, FS_CardinalityType
<1>2. QED
  BY <1>1, Countable, MaxQueueSizeAssumption DEF Bounded

\* A handler that passes the check brings the count to the limit at most, and
\* its Add only moves the task from one side of the sum to the other.
LEMMA NextBounded == NodeInv /\ Bounded /\ [NodeNext]_allVars => Bounded'
<1> SUFFICES ASSUME NodeInv, Bounded, [NodeNext]_allVars PROVE Bounded'
  OBVIOUS
<1>0. /\ queue \in SUBSET Objects /\ queue' \in SUBSET Objects
      /\ sub \in [Requests -> [at : {"idle", "save", "add", "push", "stuck"},
                               obj : Objects \cup {None}]]
  BY NextNodeInv DEF NodeInv, NodeTypeOK, TypeOK
<1> USE <1>0
<1>1. ASSUME NEW r \in Requests, NEW id \in Ids, SubmitCheck(r, id) PROVE Bounded'
  <2>1. queue' = queue /\ Cardinality(queue) < MaxQueueSize
    BY <1>1 DEF SubmitCheck
  <2>2. Front' = Front
    BY <2>1 DEF Front
  <2>3. Flying' \in SUBSET Requests
    BY DEF Flying
  <2>4. Cardinality(Flying') \in Nat /\ Cardinality(Flying') <= Cardinality(Requests)
    BY <2>3, RequestsFinite, FS_Subset, FS_CardinalityType
  <2>5. QED
    BY <2>1, <2>2, <2>4, Countable, MaxQueueSizeAssumption DEF Bounded
<1>2. ASSUME NEW r \in Requests, SubmitAdd(r) PROVE Bounded'
  <2>1. PICK id \in issued : sub[r].obj = ByNewTask(id)
    BY <1>2 DEF SubmitAdd, NodeInv, TasksInHand
  <2>2. Front' = Front \cup {sub[r].obj}
    BY <1>2, <2>1 DEF SubmitAdd, QueueAdd, Front, ByNewTask
  <2>3. Flying' = Flying \ {r} /\ r \in Flying
    BY <1>2 DEF SubmitAdd, AfterAdd, Flying
  <2>4. Cardinality(Front') <= Cardinality(Front) + 1 /\ Cardinality(Front') \in Nat
    <3>1. IsFiniteSet(Front) /\ Cardinality(Front) \in Nat
      BY Countable
    <3>2. Cardinality(Front \cup {sub[r].obj}) =
              IF sub[r].obj \in Front THEN Cardinality(Front) ELSE Cardinality(Front) + 1
      BY <3>1, FS_AddElement
    <3>3. QED
      BY <2>2, <3>1, <3>2
  <2>5. Cardinality(Flying') = Cardinality(Flying) - 1
    BY <2>3, Countable, FS_RemoveElement
  <2>6. QED
    BY <2>4, <2>5, Countable, MaxQueueSizeAssumption DEF Bounded
<1>3. ASSUME NEW r \in Requests, SubmitSave(r) \/ SubmitPush(r) PROVE Bounded'
  <2>1. queue' = queue
    BY <1>3 DEF SubmitSave, SubmitPush, poolVars
  <2>2. Front' = Front
    BY <2>1 DEF Front
  <2>3. Flying' \subseteq Flying
    BY <1>3 DEF SubmitSave, SubmitPush, Flying, Idle
  <2>4. QED
    BY <2>2, <2>3, BoundedDown
<1>4. CASE Die
  <2>1. Front' = {} /\ Flying' = {}
    BY <1>4 DEF Die, Front, Flying, Idle
  <2>2. QED
    BY <2>1, BoundedDown
<1>5. ASSUME NEW id \in Ids, RecoverAdd(id) PROVE Bounded'
  <2>1. Front' = Front /\ Flying' = Flying
    BY <1>5 DEF RecoverAdd, QueueAdd, ByRecovery, Front, Flying
  <2>2. QED
    BY <2>1, BoundedDown
<1>6. CASE ReassignAdd
  <2>1. Front' = Front /\ Flying' = Flying
    BY <1>6, Structs DEF ReassignAdd, QueueAdd, NodeInv, TasksInHand, Front, Flying
  <2>2. QED
    BY <2>1, BoundedDown
<1>7. ASSUME NEW w \in Workers, NodeWork(w) PROVE Bounded'
  <2>1. sub' = sub /\ queue' \subseteq queue
    BY <1>7 DEF NodeWork, Silent, TakeNext, ProcessTask, nodeVars, SelectDone,
         SelectDefault, Enter, MarkRunning, SaveRunning, SaveFinal, Leave, RemoveNil,
         RemoveTask, ProcessOk
  <2>2. Front' \subseteq Front /\ Flying' = Flying
    BY <2>1 DEF Front, Flying
  <2>3. QED
    BY <2>2, BoundedDown
<1>8. CASE \/ NodeStart \/ NodeStop \/ NodeStopReturn \/ RecoverRead \/ RecoverDone
           \/ ReassignRead \/ ReassignDone \/ UpdateWrite
           \/ (\E o \in Objects : ReassignUpdate(o))
           \/ (\E id \in ApiIds : UpdateRead(id) \/ DeleteTask(id))
           \/ UNCHANGED allVars
  <2>1. sub' = sub /\ queue' = queue
    BY <1>8 DEF NodeStart, NodeStop, NodeStopReturn, Start, StopCancel, StopReturn,
         RecoverRead, RecoverDone, ReassignRead, ReassignDone, UpdateWrite,
         ReassignUpdate, UpdateRead, DeleteTask, allVars, poolVars, nodeVars
  <2>2. Front' = Front /\ Flying' = Flying
    BY <2>1 DEF Front, Flying
  <2>3. QED
    BY <2>2, BoundedDown
<1>9. QED
  BY <1>1, <1>2, <1>3, <1>4, <1>5, <1>6, <1>7, <1>8
     DEF NodeNext, Submission, Recovery

\* With any number K of handlers submitting at once, the tasks they have put
\* into the queue never exceed maxQueueSize by more than K - 1.
THEOREM OvershootIsBounded == NodeSpec => []SubmittedQueueBounded
<1>1. NodeInit => Bounded
  <2>1. ASSUME NodeInit PROVE Front = {} /\ Flying = {} /\ queue \in SUBSET Objects
    BY <2>1 DEF NodeInit, Front, Flying, Idle
  <2>2. QED
    BY <2>1, FS_EmptySet, Countable, MaxQueueSizeAssumption DEF Bounded
<1>2. Bounded => SubmittedQueueBounded
  BY DEF Bounded, SubmittedQueueBounded, Front, Flying
<1>3. QED
  BY <1>1, <1>2, InitNodeInv, NextNodeInv, NextBounded, PTL DEF NodeSpec

------------------------------------------------------------------------------
(* Acknowledged tasks.                                                      *)

\* No worker runs before Start, and a recovery that is over has left nothing.
\* What a worker has processed has run; what a handler is about to push, and
\* what the recovery was to bring back, has run, is still to be brought back,
\* or is live.
LiveInv ==
    /\ pool = "new" => \A w \in Workers : pc[w] = "off"
    /\ rec.at = "done" => rec.todo = {}
    /\ \A w \in Workers : pc[w] \in {"saveFinal", "leave"} => cur[w][1] \in ran
    /\ \A r \in Requests : sub[r].at = "push" => sub[r].obj[1] \in ran \/ Live(sub[r].obj[1])
    /\ \A id \in acked \ ran :
           rec.at \in {"loop", "done"} /\ listed[id] = "pending" => id \in rec.todo \/ Live(id)

\* As long as the process lives, a live task stays live until it has run.
LEMMA LiveStays ==
    ASSUME NodeInv, LiveInv, [NodeNext]_allVars, ~Die, NEW id \in Ids, Live(id)
    PROVE  id \in ran' \/ Live(id)'
<1>0. /\ queue \in SUBSET Objects /\ pc \in [Workers -> Locations]
      /\ cur \in [Workers -> Objects \cup {None}]
  BY DEF NodeInv, NodeTypeOK, TypeOK
<1>1. PICK o \in Objects : o[1] = id /\ (o \in queue \/ \E w \in Workers : Holds(w, o))
  BY DEF Live
<1> SUFFICES ASSUME id \notin ran' PROVE o \in queue' \/ \E w \in Workers : Holds(w, o)'
  BY <1>1 DEF Live
<1>2. ran \subseteq ran'
  BY DEF NodeNext, allVars, nodeVars, NodeStart, NodeStop, NodeStopReturn, Die,
      Submission, SubmitCheck, SubmitSave, SubmitAdd, SubmitPush, Recovery,
      RecoverRead, RecoverAdd, RecoverDone, ReassignRead, ReassignUpdate, ReassignAdd,
      ReassignDone, UpdateRead, UpdateWrite, DeleteTask, NodeWork, Silent, TakeNext,
      ProcessTask
<1>3. CASE \E w \in Workers : NodeWork(w)
  <2>1. PICK w \in Workers : NodeWork(w)
    BY <1>3
  <2>2. CASE Silent(w)
    <3>1. queue' = queue /\ \A v \in Workers \ {w} : pc'[v] = pc[v] /\ cur'[v] = cur[v]
      BY <1>0, <2>2 DEF Silent, SelectDone, SelectDefault, Enter, MarkRunning, SaveRunning,
           SaveFinal, Leave, Goto
    <3>2. Holds(w, o) => Holds(w, o)'
      BY <1>0, <1>1, <1>2, <2>2 DEF Silent, SelectDone, SelectDefault, Enter, MarkRunning,
           SaveRunning, SaveFinal, Leave, Goto, Holds, Holding, LiveInv
    <3>3. QED
      BY <1>1, <3>1, <3>2 DEF Holds
  <2>3. CASE TakeNext(w)
    BY <1>0, <1>1, <2>3 DEF TakeNext, RemoveNil, RemoveTask, Goto, Holds, Holding
  <2>4. CASE ProcessTask(w)
    BY <1>0, <1>1, <2>4 DEF ProcessTask, ProcessOk, Goto, Holds, Holding
  <2>5. QED
    BY <2>1, <2>2, <2>3, <2>4 DEF NodeWork
<1>4. CASE NodeStart
  <2>1. queue' = queue /\ cur' = cur
    BY <1>4 DEF NodeStart, Start
  <2>2. \A w \in Workers : pc[w] \notin Holding
    BY <1>4 DEF NodeStart, Start, LiveInv, Holding
  <2>3. QED
    BY <1>1, <2>1, <2>2 DEF Holds
<1>5. CASE ~NodeStart /\ ~\E w \in Workers : NodeWork(w)
  <2>1. queue \subseteq queue' /\ pc' = pc /\ cur' = cur
    BY <1>5 DEF NodeNext, allVars, poolVars, NodeStop, NodeStopReturn, StopCancel, StopReturn,
      Submission, SubmitCheck, SubmitSave, SubmitAdd, SubmitPush, Recovery, QueueAdd,
      RecoverRead, RecoverAdd, RecoverDone, ReassignRead, ReassignUpdate, ReassignAdd,
      ReassignDone, UpdateRead, UpdateWrite, DeleteTask
  <2>2. QED
    BY <1>1, <2>1 DEF Holds
<1>6. QED
  BY <1>3, <1>4, <1>5

\* Every step keeps what is known of live tasks.
LEMMA NextLive == NodeInv /\ LiveInv /\ [NodeNext]_allVars => LiveInv'
<1> SUFFICES ASSUME NodeInv, LiveInv, [NodeNext]_allVars PROVE LiveInv'
  OBVIOUS
<1>0. /\ queue \in SUBSET Objects /\ pc \in [Workers -> Locations]
      /\ cur \in [Workers -> Objects \cup {None}]
      /\ sub \in [Requests -> [at : {"idle", "save", "add", "push", "stuck"},
                               obj : Objects \cup {None}]]
      /\ rec \in [at : {"off", "read", "loop", "done", "failed", "stuck"}, todo : SUBSET Ids]
      /\ listed \in [Ids -> Statuses] /\ acked \in SUBSET Ids
      /\ \A r \in Requests : sub[r].at \in {"save", "add", "push"} =>
             sub[r].obj \in Objects /\ sub[r].obj[1] \in Ids
  <2>1. \A r \in Requests : sub[r].at \in {"save", "add", "push"} =>
            \E id \in Ids : sub[r].obj = ByNewTask(id)
    BY DEF NodeInv, NodeTypeOK, TasksInHand
  <2>2. QED
    BY <2>1, Structs DEF NodeInv, NodeTypeOK, TypeOK
<1>1. CASE Die
  BY <1>1 DEF Die, LiveInv, Idle
<1>2. CASE ~Die
  <2>1. \A id \in Ids : Live(id) => id \in ran' \/ Live(id)'
    BY <1>2, LiveStays
  <2>2. ran \subseteq ran'
    BY <1>2 DEF NodeNext, allVars, nodeVars, NodeStart, NodeStop, NodeStopReturn,
        Submission, SubmitCheck, SubmitSave, SubmitAdd, SubmitPush, Recovery,
        RecoverRead, RecoverAdd, RecoverDone, ReassignRead, ReassignUpdate, ReassignAdd,
        ReassignDone, UpdateRead, UpdateWrite, DeleteTask, NodeWork, Silent, TakeNext,
        ProcessTask
  <2>3. /\ (pool = "new" => \A w \in Workers : pc[w] = "off")'
        /\ (\A w \in Workers : pc[w] \in {"saveFinal", "leave"} => cur[w][1] \in ran)'
    <3>1. ASSUME NEW w \in Workers, NodeWork(w)
          PROVE  /\ (pool = "new" => \A v \in Workers : pc[v] = "off")'
                 /\ (\A v \in Workers : pc[v] \in {"saveFinal", "leave"} => cur[v][1] \in ran)'
      <4>1. pool' = pool /\ pc[w] # "off"
        BY <3>1 DEF NodeWork, Silent, TakeNext, ProcessTask, SelectDone, SelectDefault, Enter,
             MarkRunning, SaveRunning, SaveFinal, Leave, RemoveNil, RemoveTask, ProcessOk
      <4>2. \A v \in Workers \ {w} : pc'[v] = pc[v] /\ cur'[v] = cur[v]
        BY <1>0, <3>1 DEF NodeWork, Silent, TakeNext, ProcessTask, SelectDone, SelectDefault,
             Enter, MarkRunning, SaveRunning, SaveFinal, Leave, RemoveNil, RemoveTask,
             ProcessOk, Goto
      <4>3. pc'[w] \in {"saveFinal", "leave"} => cur'[w][1] \in ran'
        BY <1>0, <2>2, <3>1 DEF NodeWork, Silent, TakeNext, ProcessTask, SelectDone,
             SelectDefault, Enter, MarkRunning, SaveRunning, SaveFinal, Leave, RemoveNil,
             RemoveTask, ProcessOk, Goto, LiveInv
      <4>4. QED
        BY <2>2, <4>1, <4>2, <4>3 DEF LiveInv
    <3>2. CASE NodeStart
      BY <3>2 DEF NodeStart, Start
    <3>3. CASE ~NodeStart /\ ~\E w \in Workers : NodeWork(w)
      <4>1. pc' = pc /\ cur' = cur
        BY <1>2, <3>3 DEF NodeNext, allVars, poolVars, NodeStop, NodeStopReturn, StopCancel,
          StopReturn, Submission, SubmitCheck, SubmitSave, SubmitAdd, SubmitPush, Recovery,
          RecoverRead, RecoverAdd, RecoverDone, ReassignRead, ReassignUpdate, ReassignAdd,
          ReassignDone, UpdateRead, UpdateWrite, DeleteTask
      <4>2. pool' = pool \/ NodeStop \/ NodeStopReturn
        BY <1>2, <3>3 DEF NodeNext, allVars, poolVars, Submission, SubmitCheck, SubmitSave,
          SubmitAdd, SubmitPush, Recovery, RecoverRead, RecoverAdd, RecoverDone, ReassignRead,
          ReassignUpdate, ReassignAdd, ReassignDone, UpdateRead, UpdateWrite, DeleteTask
      <4>3. pool' = "new" => pool = "new"
        BY <4>2 DEF NodeStop, NodeStopReturn, StopCancel, StopReturn
      <4>4. QED
        BY <2>2, <4>1, <4>3 DEF LiveInv
    <3>4. QED
      BY <3>1, <3>2, <3>3
  <2>4. (\A r \in Requests :
             sub[r].at = "push" => sub[r].obj[1] \in ran \/ Live(sub[r].obj[1]))'
    <3> SUFFICES ASSUME NEW r \in Requests, sub'[r].at = "push"
                 PROVE  (sub[r].obj[1] \in ran \/ Live(sub[r].obj[1]))'
      OBVIOUS
    <3>1. CASE sub'[r] = sub[r]
      <4>1. sub[r].obj[1] \in Ids /\ (sub[r].obj[1] \in ran \/ Live(sub[r].obj[1]))
        BY <1>0, <3>1 DEF LiveInv
      <4>2. QED
        BY <2>1, <2>2, <3>1, <4>1
    <3>2. CASE sub'[r] # sub[r]
      <4>1. SubmitAdd(r)
        <5>1. CASE \E q \in Requests : Submission(q) \/ \E id \in Ids : SubmitCheck(q, id)
          <6>1. PICK q \in Requests : Submission(q) \/ \E id \in Ids : SubmitCheck(q, id)
            BY <5>1
          <6>2. /\ ~\E id \in Ids : SubmitCheck(q, id)
                /\ ~SubmitSave(q) /\ ~SubmitPush(q)
            BY <1>0, <3>2 DEF SubmitCheck, SubmitSave, SubmitPush, Idle
          <6>3. SubmitAdd(q) => q = r
            BY <1>0, <3>2 DEF SubmitAdd
          <6>4. QED
            BY <6>1, <6>2, <6>3 DEF Submission
        <5>2. CASE ~\E q \in Requests : Submission(q) \/ \E id \in Ids : SubmitCheck(q, id)
          BY <1>2, <3>2, <5>2 DEF NodeNext, allVars, nodeVars, NodeStart, NodeStop,
            NodeStopReturn, Recovery, RecoverRead, RecoverAdd, RecoverDone, ReassignRead,
            ReassignUpdate, ReassignAdd, ReassignDone, UpdateRead, UpdateWrite, DeleteTask,
            NodeWork, Silent, TakeNext, ProcessTask
        <5>3. QED
          BY <5>1, <5>2
      <4>2. sub'[r].obj \in queue' /\ sub'[r].obj \in Objects
        BY <1>0, <4>1 DEF SubmitAdd, QueueAdd
      <4>3. QED
        BY <4>2 DEF Live
    <3>3. QED
      BY <3>1, <3>2
  <2>5. \A id \in acked' \ ran' :
            rec'.at \in {"loop", "done"} /\ listed'[id] = "pending"
                => id \in rec'.todo \/ Live(id)'
    <3> SUFFICES ASSUME NEW id \in acked', id \notin ran', rec'.at \in {"loop", "done"},
                        listed'[id] = "pending", id \notin rec'.todo
                 PROVE  Live(id)'
      OBVIOUS
    <3>1. CASE \E r \in Requests : SubmitPush(r)
      <4>1. PICK r \in Requests : SubmitPush(r)
        BY <3>1
      <4>2. rec' = rec /\ ran' = ran /\ sub[r].obj[1] \in Ids
        BY <1>0, <4>1 DEF SubmitPush
      <4>3. CASE id = sub[r].obj[1]
        BY <2>1, <4>1, <4>2, <4>3 DEF SubmitPush, LiveInv
      <4>4. CASE id # sub[r].obj[1]
        <5>1. id \in acked /\ listed'[id] = listed[id]
          BY <1>0, <4>1, <4>4 DEF SubmitPush
        <5>2. QED
          BY <1>0, <2>1, <4>2, <5>1 DEF LiveInv
      <4>5. QED
        BY <4>3, <4>4
    <3>2. CASE ~\E r \in Requests : SubmitPush(r)
      <4>1. acked' = acked /\ listed' = listed
        BY <1>2, <3>2 DEF NodeNext, allVars, nodeVars, NodeStart, NodeStop, NodeStopReturn,
            Submission, SubmitCheck, SubmitSave, SubmitAdd, Recovery, RecoverRead,
            RecoverAdd, RecoverDone, ReassignRead, ReassignUpdate, ReassignAdd,
            ReassignDone, UpdateRead, UpdateWrite, DeleteTask, NodeWork, Silent, TakeNext,
            ProcessTask
      <4>2. id \in Ids /\ id \in acked \ ran
        BY <1>0, <2>2, <4>1
      <4>3. CASE RecoverRead
        BY <4>1, <4>2, <4>3 DEF RecoverRead
      <4>4. ASSUME NEW i \in Ids, RecoverAdd(i) PROVE Live(id)'
        <5>1. CASE id = i
          <6>1. ByRecovery(i) \in queue' /\ ByRecovery(i) \in Objects /\ ByRecovery(i)[1] = id
            BY <4>4, <5>1, Structs DEF RecoverAdd, QueueAdd
          <6>2. QED
            BY <6>1 DEF Live
        <5>2. CASE id # i
          <6>1. rec.at = "loop" /\ id \notin rec.todo
            BY <4>4, <5>2 DEF RecoverAdd
          <6>2. QED
            BY <2>1, <4>1, <4>2, <6>1 DEF LiveInv
        <5>3. QED
          BY <5>1, <5>2
      <4>5. CASE ~RecoverRead /\ ~\E i \in Ids : RecoverAdd(i)
        <5>1. rec.at \in {"loop", "done"} /\ id \notin rec.todo
          <6>1. rec' = rec \/ RecoverDone
            BY <1>2, <4>5 DEF NodeNext, allVars, nodeVars, NodeStart, NodeStop, NodeStopReturn,
              Submission, SubmitCheck, SubmitSave, SubmitAdd, SubmitPush, Recovery,
              ReassignRead, ReassignUpdate, ReassignAdd, ReassignDone, UpdateRead,
              UpdateWrite, DeleteTask, NodeWork, Silent, TakeNext, ProcessTask
          <6>2. QED
            BY <1>0, <6>1 DEF RecoverDone
        <5>2. QED
          BY <2>1, <4>1, <4>2, <5>1 DEF LiveInv
      <4>6. QED
        BY <4>3, <4>4, <4>5
    <3>3. QED
      BY <3>1, <3>2
  <2>6. rec'.at = "done" => rec'.todo = {}
    <3>1. rec' = rec \/ Recovery \/ NodeStart
      BY <1>2 DEF NodeNext, allVars, nodeVars, NodeStop, NodeStopReturn, Submission,
        SubmitCheck, SubmitSave, SubmitAdd, SubmitPush, ReassignRead, ReassignUpdate,
        ReassignAdd, ReassignDone, UpdateRead, UpdateWrite, DeleteTask, NodeWork, Silent,
        TakeNext, ProcessTask
    <3>2. QED
      BY <1>0, <3>1 DEF LiveInv, Recovery, RecoverRead, RecoverAdd, RecoverDone, AfterAdd,
        NodeStart
  <2>7. QED
    BY <2>3, <2>4, <2>5, <2>6 DEF LiveInv
<1>3. QED
  BY <1>1, <1>2

\* A submission answered with success whose snapshot on the list says Pending
\* has run, is queued or is being worked on once the recovery is over, however
\* often the process dies and whichever writes fail.
THEOREM AckedTasksSurvive == NodeSpec => []AckedSurvivesRestart
<1>1. NodeInit => LiveInv
  BY DEF NodeInit, LiveInv, Idle
<1>2. NodeInv /\ LiveInv => AckedSurvivesRestart
  <2> SUFFICES ASSUME LiveInv, NodeInv, NEW id \in acked \ ran, rec.at = "done",
                      listed[id] = "pending"
               PROVE  Live(id)
    BY DEF AckedSurvivesRestart
  <2>1. id \in rec.todo \/ Live(id)
    BY DEF LiveInv
  <2>2. rec.at = "done" => rec.todo = {}
    BY DEF LiveInv
  <2>3. QED
    BY <2>1, <2>2
<1>3. QED
  BY <1>1, <1>2, InitNodeInv, NextNodeInv, NextLive, PTL DEF NodeSpec

------------------------------------------------------------------------------
(* Unfinished records.                                                      *)

\* Whoever is on its way to queue.Add carries the struct.
Carried(r) == sub[r].at \in {"save", "add"}

\* A struct that is still to be made does not exist yet: the one of an id that
\* was never issued, and the one the recovery will decode.
FreshInv ==
    /\ pool = "new" => rec.at = "off"
    /\ \A id \in Ids \ issued : status[ByNewTask(id)] = "none"
    /\ \A id \in Ids : rec.at \in {"off", "read"} \/ id \in rec.todo =>
           status[ByRecovery(id)] = "none"

\* A queued struct exists and no worker holds it.
QueuedInv == \A o \in queue : status[o] # "none" /\ \A w \in Workers : ~Holds(w, o)

\* A struct that a worker holds exists, is held by no other worker, and has
\* an outcome when the worker comes to save it.
HeldInv ==
    \A w \in Workers :
        /\ pc[w] \in Holding => status[cur[w]] # "none"
        /\ pc[w] \in {"saveFinal", "leave"} => status[cur[w]] \in Terminal
        /\ \A v \in Workers : pc[w] \in Holding /\ Holds(v, cur[w]) => v = w

\* A struct on its way to the queue exists and is nowhere else.
CarriedInv ==
    /\ \A r \in Requests : Carried(r) =>
           /\ status[sub[r].obj] # "none"
           /\ sub[r].obj \notin queue /\ \A w \in Workers : ~Holds(w, sub[r].obj)
           /\ \A q \in Requests : Carried(q) /\ sub[q].obj = sub[r].obj => q = r
    /\ reas.at = "add" =>
           /\ status[reas.obj] # "none"
           /\ reas.obj \notin queue /\ \A w \in Workers : ~Holds(w, reas.obj)

StructInv == FreshInv /\ QueuedInv /\ HeldInv /\ CarriedInv

\* What the proofs below use of the types.
LEMMA StructTypes ==
    ASSUME NodeInv
    PROVE  /\ queue \in SUBSET Objects /\ pc \in [Workers -> Locations]
           /\ cur \in [Workers -> Objects \cup {None}]
           /\ status \in [Objects -> Statuses] /\ stored \in [Ids -> Statuses]
           /\ issued \in SUBSET Ids
           /\ sub \in [Requests -> [at : {"idle", "save", "add", "push", "stuck"},
                                    obj : Objects \cup {None}]]
           /\ rec \in [at : {"off", "read", "loop", "done", "failed", "stuck"},
                       todo : SUBSET Ids]
           /\ reas \in [at : {"idle", "loop", "add", "stuck"}, todo : SUBSET Ids,
                        obj : Objects \cup {None}]
           /\ \A w \in Workers : pc[w] \in Holding => cur[w] \in Objects /\ cur[w][1] \in issued
           /\ \A r \in Requests : sub[r].at \in {"save", "add", "push"} =>
                  sub[r].obj \in Objects /\ sub[r].obj[1] \in issued /\ sub[r].obj[2] = 1
           /\ reas.at = "add" => reas.obj \in Objects /\ reas.obj[2] > 2
           /\ \A o \in queue : o[1] \in issued
<1>1. \A r \in Requests : sub[r].at \in {"save", "add", "push"} =>
          \E id \in issued : sub[r].obj = ByNewTask(id)
  BY DEF NodeInv, TasksInHand
<1>2. issued \in SUBSET Ids
  BY DEF NodeInv, NodeTypeOK
<1>3. \A r \in Requests : sub[r].at \in {"save", "add", "push"} =>
          sub[r].obj \in Objects /\ sub[r].obj[1] \in issued /\ sub[r].obj[2] = 1
  BY <1>1, <1>2, Structs
<1>4. QED
  BY <1>2, <1>3 DEF NodeInv, NodeTypeOK, TypeOK, TasksInHand, OnlyIssued

\* Steps that make no struct, move none and take no handler or reassignment
\* any nearer to queue.Add.
LEMMA StructKept ==
    ASSUME NodeInv, StructInv, pc' = pc, cur' = cur, status' = status, queue' = queue,
           issued' = issued, pool' = "new" => pool = "new",
           rec' = rec \/ (rec'.at \in {"loop", "done", "failed"} /\ pool # "new"
                          /\ (rec.at = "read" \/ rec'.todo \subseteq rec.todo)
                          /\ rec'.todo \subseteq Ids),
           \A r \in Requests : sub'[r].obj = sub[r].obj \/ ~Carried(r)',
           \A r \in Requests : Carried(r)' => Carried(r),
           reas'.at = "add" => reas' = reas
    PROVE  StructInv'
<1>1. FreshInv'
  BY DEF StructInv, FreshInv
<1>2. QueuedInv' /\ HeldInv'
  BY DEF StructInv, QueuedInv, HeldInv, Holds
<1>3. CarriedInv'
  BY DEF StructInv, CarriedInv, Holds
<1>4. QED
  BY <1>1, <1>2, <1>3 DEF StructInv

\* Every step keeps each struct in one place.
LEMMA NextStruct == NodeInv /\ LiveInv /\ StructInv /\ [NodeNext]_allVars => StructInv'
<1> SUFFICES ASSUME NodeInv, LiveInv, StructInv, [NodeNext]_allVars PROVE StructInv'
  OBVIOUS
<1> USE StructTypes, Structs
<1>1. CASE NodeStart
  <2>1. /\ pool = "new" /\ pool' = "running" /\ rec'.at = "read"
        /\ pc' = [w \in Workers |-> "select"]
        /\ UNCHANGED <<queue, status, cur, sub, reas, issued>>
    BY <1>1 DEF NodeStart, Start
  <2>2. FreshInv'
    BY <2>1 DEF StructInv, FreshInv
  <2>3. \A w \in Workers : pc'[w] \notin Holding /\ pc'[w] \notin {"saveFinal", "leave"}
    BY <2>1 DEF Holding
  <2>4. QueuedInv' /\ HeldInv' /\ CarriedInv'
    BY <2>1, <2>3 DEF StructInv, QueuedInv, HeldInv, CarriedInv, Carried, Holds
  <2>5. QED
    BY <2>2, <2>4 DEF StructInv
<1>2. CASE Die
  <2>1. /\ rec'.at = "off" /\ queue' = {} /\ status' = [o \in Objects |-> "none"]
        /\ pc' = [w \in Workers |-> "off"] /\ sub' = [r \in Requests |-> Idle]
        /\ reas'.at = "idle" /\ issued' = issued
    BY <1>2 DEF Die
  <2>2. \A w \in Workers : pc'[w] \notin Holding /\ pc'[w] \notin {"saveFinal", "leave"}
    BY <2>1 DEF Holding
  <2>3. \A r \in Requests : ~Carried(r)'
    BY <2>1 DEF Carried, Idle
  <2>4. QED
    BY <2>1, <2>2, <2>3 DEF StructInv, FreshInv, QueuedInv, HeldInv, CarriedInv
<1>3. CASE NodeStop \/ NodeStopReturn \/ UpdateWrite
  BY <1>3, StructKept DEF NodeStop, StopCancel, NodeStopReturn, StopReturn, UpdateWrite,
       nodeVars, Carried
<1>4. ASSUME NEW r \in Requests, NEW id \in Ids, SubmitCheck(r, id) PROVE StructInv'
  <2>1. /\ id \in Ids \ issued /\ issued' = issued \cup {id}
        /\ status' = [status EXCEPT ![ByNewTask(id)] = "pending"]
        /\ sub' = [sub EXCEPT ![r] = [at |-> "save", obj |-> ByNewTask(id)]]
        /\ UNCHANGED <<pool, queue, pc, cur, reas, rec>>
    BY <1>4 DEF SubmitCheck
  <2>2. FreshInv'
    BY <2>1 DEF StructInv, FreshInv
  <2>3. /\ \A o \in queue : o # ByNewTask(id)
        /\ \A w \in Workers : pc[w] \in Holding => cur[w] # ByNewTask(id)
        /\ \A q \in Requests : Carried(q) => sub[q].obj # ByNewTask(id)
        /\ reas.at = "add" => reas.obj # ByNewTask(id)
    BY <2>1 DEF Carried
  <2>4. QueuedInv' /\ HeldInv'
    BY <2>1, <2>3 DEF StructInv, QueuedInv, HeldInv, Holds, Holding
  <2>5. /\ sub'[r].obj = ByNewTask(id) /\ status'[ByNewTask(id)] # "none"
        /\ \A q \in Requests \ {r} : sub'[q] = sub[q]
        /\ \A o \in Objects : o # ByNewTask(id) => status'[o] = status[o]
    BY <2>1
  <2>6. CarriedInv'
    BY <2>1, <2>3, <2>5 DEF StructInv, CarriedInv, Carried, Holds
  <2>7. QED
    BY <2>2, <2>4, <2>6 DEF StructInv
<1>5. ASSUME NEW r \in Requests, SubmitSave(r) \/ SubmitPush(r) PROVE StructInv'
  <2>1. /\ UNCHANGED <<pool, queue, status, pc, cur, issued, rec, reas>>
        /\ \A q \in Requests \ {r} : sub'[q] = sub[q]
    BY <1>5 DEF SubmitSave, SubmitPush, poolVars
  <2>2. (sub'[r].obj = sub[r].obj /\ Carried(r)) \/ ~Carried(r)'
    BY <1>5 DEF SubmitSave, SubmitPush, Carried, Idle
  <2>3. QED
    BY <2>1, <2>2, StructKept DEF Carried
<1>6. ASSUME NEW r \in Requests, SubmitAdd(r) PROVE StructInv'
  <2>1. /\ UNCHANGED <<pool, status, pc, cur, issued, rec, reas>>
        /\ queue' = queue \cup {sub[r].obj} /\ Carried(r) /\ ~Carried(r)'
        /\ \A q \in Requests \ {r} : sub'[q] = sub[q]
    BY <1>6 DEF SubmitAdd, QueueAdd, AfterAdd, Carried
  <2>2. FreshInv' /\ HeldInv'
    BY <2>1 DEF StructInv, FreshInv, HeldInv, Holds
  <2>3. QueuedInv'
    BY <2>1 DEF StructInv, QueuedInv, CarriedInv, Holds
  <2>4. reas.at = "add" => reas.obj # sub[r].obj
    BY <2>1 DEF Carried
  <2>5. CarriedInv'
    BY <2>1, <2>4 DEF StructInv, CarriedInv, Carried, Holds
  <2>6. QED
    BY <2>2, <2>3, <2>5 DEF StructInv
<1>7. CASE RecoverRead \/ RecoverDone
  <2>1. /\ UNCHANGED <<pool, queue, status, pc, cur, issued, sub, reas>>
        /\ rec.at \in {"read", "loop"}
        /\ rec'.at \in {"loop", "done", "failed"} /\ rec'.todo \subseteq Ids
        /\ rec.at = "read" \/ rec'.todo = rec.todo
    BY <1>7 DEF RecoverRead, RecoverDone, poolVars
  <2>2. pool # "new"
    BY <2>1 DEF StructInv, FreshInv
  <2>3. QED
    BY <2>1, <2>2, StructKept DEF Carried
<1>8. ASSUME NEW id \in Ids, RecoverAdd(id) PROVE StructInv'
  <2>1. /\ UNCHANGED <<pool, pc, cur, issued, sub, reas>>
        /\ queue' = queue \cup {ByRecovery(id)}
        /\ status' = [status EXCEPT ![ByRecovery(id)] = "pending"]
        /\ rec.at = "loop" /\ id \in rec.todo
        /\ rec'.at \in {"loop", "stuck"} /\ rec'.todo = rec.todo \ {id}
    BY <1>8 DEF RecoverAdd, QueueAdd, AfterAdd
  <2>2. FreshInv'
    BY <2>1 DEF StructInv, FreshInv
  <2>3. status[ByRecovery(id)] = "none"
    BY <2>1 DEF StructInv, FreshInv
  <2>4. /\ \A w \in Workers : pc[w] \in Holding => cur[w] # ByRecovery(id)
        /\ status'[ByRecovery(id)] # "none"
        /\ \A o \in Objects : o # ByRecovery(id) => status'[o] = status[o]
    BY <2>1, <2>3 DEF StructInv, HeldInv
  <2>5. QueuedInv'
    BY <2>1, <2>4 DEF StructInv, QueuedInv, Holds
  <2>6. HeldInv'
    BY <2>1, <2>4 DEF StructInv, HeldInv, Holds, Holding
  <2>7. CarriedInv'
    BY <2>1, <2>4 DEF StructInv, CarriedInv, Carried, Holds
  <2>8. QED
    BY <2>2, <2>5, <2>6, <2>7 DEF StructInv
<1>9. CASE ReassignRead \/ ReassignDone
  BY <1>9, StructKept DEF ReassignRead, ReassignDone, poolVars, Carried
<1>10. ASSUME NEW o \in Objects, ReassignUpdate(o) PROVE StructInv'
  <2>1. /\ UNCHANGED <<pool, queue, pc, cur, issued, sub, rec>>
        /\ o[2] > 2 /\ status[o] = "none" /\ reas.at = "loop"
    BY <1>10 DEF ReassignUpdate, ByReassignment
  <2>2. CASE status' = status /\ reas'.at = "loop"
    BY <2>1, <2>2, StructKept DEF Carried
  <2>3. CASE /\ status' = [status EXCEPT ![o] = "pending"]
             /\ reas'.at = "add" /\ reas'.obj = o
    <3>1. /\ \A p \in queue : p # o
          /\ \A w \in Workers : pc[w] \in Holding => cur[w] # o
          /\ \A q \in Requests : Carried(q) => sub[q].obj # o
          /\ status'[o] # "none"
          /\ \A p \in Objects : p # o => status'[p] = status[p]
      BY <2>1, <2>3 DEF StructInv, QueuedInv, HeldInv, CarriedInv
    <3>2. FreshInv'
      BY <2>1, <3>1 DEF StructInv, FreshInv
    <3>3. QueuedInv'
      BY <2>1, <3>1 DEF StructInv, QueuedInv, Holds
    <3>4. HeldInv'
      BY <2>1, <3>1 DEF StructInv, HeldInv, Holds, Holding
    <3>5. CarriedInv'
      BY <2>1, <2>3, <3>1 DEF StructInv, CarriedInv, Carried, Holds
    <3>6. QED
      BY <3>2, <3>3, <3>4, <3>5 DEF StructInv
  <2>4. QED
    BY <1>10, <2>2, <2>3 DEF ReassignUpdate
<1>11. CASE ReassignAdd
  <2>1. /\ UNCHANGED <<pool, status, pc, cur, issued, rec, sub>>
        /\ queue' = queue \cup {reas.obj} /\ reas.at = "add" /\ reas'.at # "add"
    BY <1>11 DEF ReassignAdd, QueueAdd, AfterAdd
  <2>2. FreshInv' /\ HeldInv'
    BY <2>1 DEF StructInv, FreshInv, HeldInv, Holds
  <2>3. QueuedInv'
    BY <2>1 DEF StructInv, QueuedInv, CarriedInv, Holds
  <2>4. \A r \in Requests : Carried(r) => sub[r].obj # reas.obj
    BY <2>1 DEF Carried
  <2>5. CarriedInv'
    BY <2>1, <2>4 DEF StructInv, CarriedInv, Carried, Holds
  <2>6. QED
    BY <2>2, <2>3, <2>5 DEF StructInv
<1>12. ASSUME NEW id \in ApiIds, UpdateRead(id) \/ DeleteTask(id) PROVE StructInv'
  BY <1>12, StructKept DEF UpdateRead, DeleteTask, poolVars, nodeVars, Carried
<1>13. ASSUME NEW w \in Workers, NodeWork(w) PROVE StructInv'
  <2>1. /\ UNCHANGED <<pool, issued, sub, rec, reas>>
        /\ \A v \in Workers \ {w} : pc'[v] = pc[v] /\ cur'[v] = cur[v]
    BY <1>13 DEF NodeWork, Silent, TakeNext, ProcessTask, SelectDone, SelectDefault, Enter,
         MarkRunning, SaveRunning, SaveFinal, Leave, RemoveNil, RemoveTask, ProcessOk,
         Goto, nodeVars
  <2>2. CASE \/ SelectDone(w) \/ SelectDefault(w) \/ RemoveNil(w) \/ Enter(w)
             \/ SaveRunning(w) \/ SaveFinal(w) \/ Leave(w)
    <3>1. /\ queue' = queue /\ status' = status
          /\ pc'[w] \in Holding => pc[w] \in Holding /\ cur'[w] = cur[w]
          /\ pc'[w] \in {"saveFinal", "leave"} => pc[w] = "saveFinal"
      BY <2>2 DEF SelectDone, SelectDefault, RemoveNil, Enter, SaveRunning, SaveFinal,
         Leave, Goto, Holding
    <3>2. \A v \in Workers, o \in Objects : Holds(v, o)' => Holds(v, o)
      BY <2>1, <3>1 DEF Holds
    <3>3. FreshInv'
      BY <2>1, <3>1 DEF StructInv, FreshInv
    <3>4. QueuedInv'
      BY <3>1, <3>2 DEF StructInv, QueuedInv
    <3>5. HeldInv'
      BY <2>1, <3>1 DEF StructInv, HeldInv, Holds, Holding
    <3>6. CarriedInv'
      BY <2>1, <3>1, <3>2 DEF StructInv, CarriedInv, Carried
    <3>7. QED
      BY <3>3, <3>4, <3>5, <3>6 DEF StructInv
  <2>3. ASSUME NEW o \in Objects, RemoveTask(w, o) PROVE StructInv'
    <3>1. /\ o \in queue /\ queue' = queue \ {o} /\ status' = status
          /\ pc'[w] = "enter" /\ cur'[w] = o
      BY <2>3 DEF RemoveTask, Goto
    <3>2. FreshInv'
      BY <2>1, <3>1 DEF StructInv, FreshInv
    <3>3. QueuedInv'
      BY <2>1, <3>1 DEF StructInv, QueuedInv, Holds
    <3>4. HeldInv'
      BY <2>1, <3>1 DEF StructInv, QueuedInv, HeldInv, Holds, Holding
    <3>5. CarriedInv'
      BY <2>1, <3>1 DEF StructInv, CarriedInv, Carried, Holds
    <3>6. QED
      BY <3>2, <3>3, <3>4, <3>5 DEF StructInv
  <2>4. CASE MarkRunning(w) \/ ProcessOk(w)
    <3>1. /\ queue' = queue /\ cur' = cur
          /\ pc[w] \in {"mark", "process"} /\ pc'[w] \in {"saveRunning", "saveFinal"}
          /\ pc[w] \in Holding /\ pc'[w] \in Holding
          /\ status'[cur[w]] # "none"
          /\ pc'[w] = "saveFinal" => status'[cur[w]] \in Terminal
          /\ \A o \in Objects : o # cur[w] => status'[o] = status[o]
      BY <2>4 DEF MarkRunning, ProcessOk, Goto, Holding, Terminal
    <3>2. \A v \in Workers, o \in Objects : Holds(v, o)' <=> Holds(v, o)
      BY <2>1, <3>1 DEF Holds
    <3>3. FreshInv'
      BY <2>1, <3>1 DEF StructInv, FreshInv, HeldInv
    <3>4. QueuedInv'
      BY <3>1, <3>2 DEF StructInv, QueuedInv
    <3>5. HeldInv'
      BY <2>1, <3>1 DEF StructInv, HeldInv, Holds, Holding
    <3>6. CarriedInv'
      BY <2>1, <3>1, <3>2 DEF StructInv, CarriedInv, Carried
    <3>7. QED
      BY <3>3, <3>4, <3>5, <3>6 DEF StructInv
  <2>5. QED
    BY <1>13, <2>2, <2>3, <2>4 DEF NodeWork, Silent, TakeNext, ProcessTask
<1>14. CASE UNCHANGED allVars
  BY <1>14, StructKept DEF allVars, poolVars, nodeVars, Carried
<1>15. QED
  BY <1>1, <1>2, <1>3, <1>4, <1>5, <1>6, <1>7, <1>8, <1>9, <1>10, <1>11, <1>12, <1>13,
     <1>14 DEF NodeNext, Submission, Recovery

\* As long as the process lives, a task in hand stays in hand until a worker
\* has saved an outcome for it.
LEMMA InHandStays ==
    ASSUME NodeInv, LiveInv, [NodeNext]_allVars, ~Die, NEW id \in Ids, InHand(id),
           ~\E w \in Workers : Silent(w) /\ SaveFinal(w) /\ cur[w][1] = id
    PROVE  InHand(id)'
<1> USE StructTypes
<1>1. CASE \E w \in Workers : NodeWork(w)
  <2>1. PICK w \in Workers : NodeWork(w)
    BY <1>1
  <2>2. sub' = sub /\ reas' = reas
    BY <2>1 DEF NodeWork, Silent, TakeNext, ProcessTask, nodeVars
  <2>3. CASE Silent(w) \/ ProcessTask(w)
    <3>1. /\ queue' = queue
          /\ \A v \in Workers \ {w} : pc'[v] = pc[v] /\ cur'[v] = cur[v]
          /\ pc[w] \in Holding \ {"leave"} /\ cur[w][1] = id =>
                 pc'[w] \in Holding \ {"leave"} /\ cur'[w][1] = id
      BY <2>3 DEF Silent, ProcessTask, SelectDone, SelectDefault, Enter, MarkRunning,
         SaveRunning, SaveFinal, Leave, ProcessOk, Goto, Holding
    <3>2. QED
      BY <2>2, <3>1 DEF InHand
  <2>4. CASE RemoveNil(w)
    <3>1. queue' = queue /\ cur' = cur /\ pc[w] \notin Holding
          /\ \A v \in Workers \ {w} : pc'[v] = pc[v]
      BY <2>4 DEF RemoveNil, Goto, Holding
    <3>2. QED
      BY <2>2, <3>1 DEF InHand
  <2>5. ASSUME NEW o \in Objects, RemoveTask(w, o) PROVE InHand(id)'
    <3>1. /\ queue' = queue \ {o} /\ pc[w] \notin Holding
          /\ pc'[w] \in Holding \ {"leave"} /\ cur'[w] = o
          /\ \A v \in Workers \ {w} : pc'[v] = pc[v] /\ cur'[v] = cur[v]
      BY <2>5 DEF RemoveTask, Goto, Holding
    <3>2. QED
      BY <2>2, <3>1 DEF InHand
  <2>6. QED
    BY <2>1, <2>3, <2>4, <2>5 DEF NodeWork, TakeNext
<1>2. CASE NodeStart
  <2>1. queue' = queue /\ sub' = sub /\ reas' = reas
    BY <1>2 DEF NodeStart, Start
  <2>2. \A w \in Workers : pc[w] \notin Holding
    BY <1>2 DEF NodeStart, Start, LiveInv, Holding
  <2>3. QED
    BY <2>1, <2>2 DEF InHand
<1>3. CASE ~NodeStart /\ ~\E w \in Workers : NodeWork(w)
  <2>1. queue \subseteq queue' /\ pc' = pc /\ cur' = cur
    BY <1>3 DEF NodeNext, allVars, poolVars, NodeStop, NodeStopReturn, StopCancel, StopReturn,
      Submission, SubmitCheck, SubmitSave, SubmitAdd, SubmitPush, Recovery, QueueAdd,
      RecoverRead, RecoverAdd, RecoverDone, ReassignRead, ReassignUpdate, ReassignAdd,
      ReassignDone, UpdateRead, UpdateWrite, DeleteTask
  <2>2. ASSUME NEW r \in Requests, sub[r].at = "add"
        PROVE  (sub'[r].at = "add" /\ sub'[r].obj = sub[r].obj) \/ sub[r].obj \in queue'
    <3>1. CASE sub' = sub
      BY <2>2, <3>1
    <3>2. ASSUME NEW q \in Requests, Submission(q) \/ \E i \in Ids : SubmitCheck(q, i)
          PROVE  (sub'[r].at = "add" /\ sub'[r].obj = sub[r].obj) \/ sub[r].obj \in queue'
      <4>1. CASE q = r
        BY <2>2, <3>2, <4>1 DEF Submission, SubmitCheck, SubmitSave, SubmitAdd, SubmitPush,
          QueueAdd
      <4>2. CASE q # r
        BY <2>2, <3>2, <4>2 DEF Submission, SubmitCheck, SubmitSave, SubmitAdd, SubmitPush
      <4>3. QED
        BY <4>1, <4>2
    <3>3. sub' = sub \/ \E q \in Requests : Submission(q) \/ \E i \in Ids : SubmitCheck(q, i)
      BY <1>3 DEF NodeNext, allVars, nodeVars, NodeStop, NodeStopReturn, Recovery,
        RecoverRead, RecoverAdd, RecoverDone, ReassignRead, ReassignUpdate, ReassignAdd,
        ReassignDone, UpdateRead, UpdateWrite, DeleteTask
    <3>4. QED
      BY <3>1, <3>2, <3>3
  <2>3. reas.at = "add" => reas' = reas \/ reas.obj \in queue'
    BY <1>3 DEF NodeNext, allVars, nodeVars, NodeStop, NodeStopReturn, Submission,
      SubmitCheck, SubmitSave, SubmitAdd, SubmitPush, Recovery, RecoverRead, RecoverAdd,
      RecoverDone, ReassignRead, ReassignUpdate, ReassignAdd, ReassignDone, UpdateRead,
      UpdateWrite, DeleteTask, QueueAdd
  <2>4. QED
    BY <2>1, <2>2, <2>3 DEF InHand
<1>4. QED
  BY <1>1, <1>2, <1>3

\* Every step keeps the unfinished records in hand or excuses them.
LEMMA NextInHand ==
    NodeInv /\ LiveInv /\ StructInv /\ UnfinishedIsInHand /\ [NodeNext]_allVars
        => UnfinishedIsInHand'
<1> SUFFICES ASSUME NodeInv, LiveInv, StructInv, UnfinishedIsInHand, [NodeNext]_allVars,
                    NEW id \in Ids, id \notin excused', stored'[id] \in Unfinished
             PROVE  InHand(id)'
  BY DEF UnfinishedIsInHand
<1> USE StructTypes
<1>1. ~Die
  BY DEF Die
<1>2. ~\E w \in Workers : Silent(w) /\ SaveFinal(w) /\ cur[w][1] = id
  <2> SUFFICES ASSUME NEW w \in Workers, Silent(w), SaveFinal(w), cur[w][1] = id
               PROVE  FALSE
    OBVIOUS
  <2>1. status[cur[w]] \in Terminal /\ pc[w] = "saveFinal"
    BY DEF SaveFinal, StructInv, HeldInv
  <2>2. QED
    BY <2>1 DEF Silent, Terminal, Unfinished
<1>3. ASSUME NEW o \in Objects, ReassignUpdate(o), o[1] = id PROVE InHand(id)'
  <2>1. CASE reas'.at = "add" /\ reas'.obj = o
    BY <1>3, <2>1 DEF InHand
  <2>2. CASE UNCHANGED <<stored, excused>>
    <3>1. InHand(id)
      BY <2>2 DEF UnfinishedIsInHand
    <3>2. QED
      BY <1>1, <1>2, <3>1, InHandStays
  <2>3. QED
    BY <1>3, <2>1, <2>2 DEF ReassignUpdate
<1>4. CASE ~\E o \in Objects : ReassignUpdate(o) /\ o[1] = id
  <2>1. id \notin excused
    <3>1. excused \subseteq excused' \/ (\E o \in Objects : ReassignUpdate(o)) \/ UpdateWrite
          \/ (\E i \in ApiIds : DeleteTask(i)) \/ \E w \in Workers : Silent(w)
      BY <1>1 DEF NodeNext, allVars, NodeStart, NodeStop, NodeStopReturn, Submission,
        SubmitCheck, SubmitSave, SubmitAdd, SubmitPush, Recovery, RecoverRead, RecoverAdd,
        RecoverDone, ReassignRead, ReassignAdd, ReassignDone, UpdateRead, NodeWork, TakeNext,
        ProcessTask
    <3>2. ASSUME NEW o \in Objects, ReassignUpdate(o) PROVE id \notin excused
      BY <1>4, <3>2 DEF ReassignUpdate
    <3>3. UpdateWrite => id \notin excused
      BY DEF UpdateWrite
    <3>4. ASSUME NEW i \in ApiIds, DeleteTask(i) PROVE id \notin excused
      BY <3>4, ApiIdsAssumption DEF DeleteTask, Write, Unfinished
    <3>5. ASSUME NEW w \in Workers, Silent(w) PROVE id \notin excused
      BY <3>5 DEF Silent
    <3>6. QED
      BY <3>1, <3>2, <3>3, <3>4, <3>5
  <2>2. CASE stored'[id] = stored[id]
    <3>1. InHand(id)
      BY <2>1, <2>2 DEF UnfinishedIsInHand
    <3>2. QED
      BY <1>1, <1>2, <3>1, InHandStays
  <2>3. CASE stored'[id] # stored[id]
    <3>1. \/ \E r \in Requests : SubmitSave(r)
          \/ \E o \in Objects : ReassignUpdate(o)
          \/ \E i \in ApiIds : DeleteTask(i)
          \/ UpdateWrite
          \/ \E w \in Workers : Silent(w) /\ (SaveRunning(w) \/ SaveFinal(w))
      BY <1>1, <2>3 DEF NodeNext, allVars, poolVars, store, NodeStart, Start, NodeStop, StopCancel,
        NodeStopReturn, StopReturn, Submission, SubmitCheck, SubmitAdd, SubmitPush,
        Recovery, RecoverRead, RecoverAdd, RecoverDone, ReassignRead, ReassignAdd,
        ReassignDone, UpdateRead, NodeWork, Silent, TakeNext, ProcessTask, SelectDone,
        SelectDefault, Enter, MarkRunning, Leave, RemoveNil, RemoveTask, ProcessOk
    <3>2. ASSUME NEW r \in Requests, SubmitSave(r) PROVE InHand(id)'
      BY <2>3, <3>2, Structs DEF SubmitSave, Write, InHand
    <3>3. ASSUME NEW o \in Objects, ReassignUpdate(o) PROVE FALSE
      BY <1>4, <2>3, <3>3, Structs DEF ReassignUpdate, Write
    <3>4. ASSUME NEW i \in ApiIds, DeleteTask(i) PROVE FALSE
      BY <2>3, <3>4, ApiIdsAssumption DEF DeleteTask, Write, Unfinished
    <3>5. ~UpdateWrite
      BY <2>3 DEF UpdateWrite
    <3>6. ASSUME NEW w \in Workers, Silent(w), SaveRunning(w) \/ SaveFinal(w) PROVE InHand(id)'
      <4>1. cur[w] \in Objects /\ cur[w][1] = id
        BY <2>3, <3>6, Structs DEF SaveRunning, SaveFinal, UpdateTask, Holding
      <4>2. SaveRunning(w)
        BY <1>2, <3>6, <4>1
      <4>3. pc'[w] \in Holding \ {"leave"} /\ cur'[w][1] = id
        BY <4>1, <4>2 DEF SaveRunning, Goto, Holding
      <4>4. QED
        BY <4>3 DEF InHand
    <3>7. QED
      BY <3>1, <3>2, <3>3, <3>4, <3>5, <3>6
  <2>4. QED
    BY <2>2, <2>3
<1>5. QED
  BY <1>3, <1>4

\* Whatever the storage says is unfinished somebody has in hand, apart from
\* what writes answered with an error, updates through the API and the end of
\* a process left behind, with any number of handlers, workers, tasks, copies
\* of a task and restarts.
THEOREM UnfinishedTasksInHand == NodeSpec => []UnfinishedIsInHand
<1>1. NodeInit => LiveInv
  BY DEF NodeInit, LiveInv, Idle
<1>2. NodeInit => StructInv
  <2> SUFFICES ASSUME NodeInit PROVE StructInv
    OBVIOUS
  <2>1. FreshInv
    BY Structs DEF NodeInit, FreshInv
  <2>2. QueuedInv /\ HeldInv /\ CarriedInv
    BY DEF NodeInit, QueuedInv, HeldInv, CarriedInv, Carried, Idle, Holding
  <2>3. QED
    BY <2>1, <2>2 DEF StructInv
<1>3. NodeInit => UnfinishedIsInHand
  BY DEF NodeInit, UnfinishedIsInHand, Unfinished
<1>4. QED
  BY <1>1, <1>2, <1>3, InitNodeInv, NextNodeInv, NextLive, NextStruct, NextInHand, PTL
     DEF NodeSpec

==============================================================================
