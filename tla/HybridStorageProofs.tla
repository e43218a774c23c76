------------------------ MODULE HybridStorageProofs ------------------------
(****************************************************************************)
(* Proofs about HybridStorage, for any number of clients, of writes, of     *)
(* failing calls and for any statuses the writes carry.                     *)
(*                                                                          *)
(* The promises about settled stores say nothing while an operation is      *)
(* under way.  SoloInv says what an operation that is alone knows at each   *)
(* of its calls: between its two halves Redis already has what PostgreSQL   *)
(* will get.  SettledInv says what it hands over to the next one, and       *)
(* CalmInv what holds if, besides, no call failed.  DeletionInv and         *)
(* StatusInv are about all behaviours: a client deletes alone only as long  *)
(* as nobody writes, and every copy of a task has the status of its write.  *)
(****************************************************************************)
EXTENDS HybridStorage, TLAPS

\* A task that went through the row at most once, and a row, as their write
\* gave them.
GoodTask(t) ==
    /\ t.write = 0 => t = Absent
    /\ t.write # 0 =>
           t.status = IF t.whole THEN Given[t.write]
                                 ELSE ParseStatus(StatusString(Given[t.write]))
GoodRow(r) ==
    /\ r.write = 0 => r = NoRow
    /\ r.write # 0 => r.status = StatusString(Given[r.write])

StatusInv ==
    /\ GoodTask(redis) /\ GoodRow(postgres)
    /\ \A c \in Clients :
           /\ GoodTask(arg[c])
           /\ pc[c] \in Writing => arg[c].write # 0 /\ arg[c].whole
           /\ pc[c] = "fillRedis" => arg[c].write # 0

\* What an operation that has been alone so far knows.
SoloInv ==
    solo =>
        /\ \A c, d \in Clients : pc[c] # "idle" /\ pc[d] # "idle" => c = d
        /\ \A c \in Clients :
               /\ pc[c] \in Writing => arg[c].write = writes
               /\ pc[c] = "savePostgres" => redis = arg[c]
               /\ pc[c] = "delPostgres" => redis = Absent

\* What holds as long as operations have not overlapped again.
SettledInv ==
    settled =>
        /\ \A c \in Clients : /\ pc[c] # "idle" => solo
                              /\ pc[c] = "fillRedis" => arg[c].write = postgres.write
        /\ (succeeded /\ \A c \in Clients : pc[c] \in {"idle"} \cup Reading)
               => redis.write = want /\ postgres.write = want
        /\ redis.write # 0 => postgres.write <= redis.write

\* What holds as long as, besides, no call failed.
CalmInv ==
    /\ ~erred => succeeded
    /\ (settled /\ ~erred) =>
           /\ redis.whole
           /\ \A c \in Clients : /\ pc[c] = "getPostgres" => redis.write = 0
                                 /\ pc[c] # "fillRedis"

\* A deletion that is alone, or was, has met no write.
DeletionInv ==
    /\ (tomb \/ alone # {}) => \A c \in Clients : pc[c] \notin Writing
    /\ tomb => postgres = NoRow

\* No record is newer than the last write that was started.
Bounded ==
    /\ redis.write <= writes /\ postgres.write <= writes
    /\ \A c \in Clients : arg[c].write <= writes

Inv ==
    /\ TypeOK /\ Bounded /\ StatusInv
    /\ SoloInv /\ SettledInv /\ CalmInv /\ DeletionInv

\* The values that stand for nothing: no task, and no row.
LEMMA NothingThere ==
    /\ Absent \in Tasks /\ GoodTask(Absent) /\ Absent.write = 0 /\ Absent.whole
    /\ NoRow \in Rows /\ GoodRow(NoRow) /\ NoRow.write = 0
  BY MaxWritesAssumption
     DEF Absent, NoRow, Tasks, Rows, Texts, Writes, GoodTask, GoodRow, StatusPending

\* What a write sends is a whole task with the status it was given.
LEMMA SentTask ==
    ASSUME NEW n \in 1..MaxWrites
    PROVE  /\ Sent(n) \in Tasks /\ GoodTask(Sent(n))
           /\ Sent(n).write = n /\ Sent(n).whole
  BY MaxWritesAssumption, GivenAssumption DEF Sent, Tasks, Writes, GoodTask

\* The row of a whole task has the name of its status
\* (postgres_storage.go:74-101).
LEMMA RowOfTask ==
    ASSUME NEW t \in Tasks, GoodTask(t), t.write # 0, t.whole
    PROVE  /\ ToRow(t) \in Rows /\ GoodRow(ToRow(t))
           /\ ToRow(t).write = t.write
<1>1. StatusString(t.status) \in Texts
  BY DEF StatusString, Texts
<1> QED
  BY <1>1 DEF ToRow, Tasks, Rows, GoodTask, GoodRow

\* The task of a row has the status its name stands for, and is not whole
\* (postgres_storage.go:103-143).
LEMMA TaskOfRow ==
    ASSUME NEW r \in Rows, GoodRow(r), r # NoRow
    PROVE  /\ FromRow(r) \in Tasks /\ GoodTask(FromRow(r))
           /\ FromRow(r).write = r.write /\ r.write # 0
<1>1. ParseStatus(r.status) \in Int
  BY DEF ParseStatus, StatusPending, StatusRunning, StatusCompleted,
         StatusFailed, StatusTimeout
<1> QED
  BY <1>1 DEF FromRow, Tasks, Rows, GoodTask, GoodRow

\* The facts hold of every reachable state: one case per call of
\* hybrid_storage.go:29-83.
THEOREM StorageInvariant == Spec => []Inv
<1> USE MaxWritesAssumption, MayFailAssumption
<1> USE DEF Inv, TypeOK, Bounded, Writing, Deleting, Reading
<1>1. Init => Inv
  <2> SUFFICES ASSUME Init PROVE Inv
    OBVIOUS
  <2>1. TypeOK
    <3>1. redis \in Tasks /\ postgres \in Rows /\ writes \in Writes /\ want \in Writes
      BY NothingThere DEF Init, Writes
    <3>2. /\ pc \in [Clients -> {"idle"} \cup Writing \cup Deleting \cup Reading]
          /\ arg \in [Clients -> Tasks]
      BY NothingThere DEF Init
    <3>3. /\ {succeeded, erred, solo, settled, tomb} \subseteq BOOLEAN
          /\ alone \in SUBSET Clients
      BY Zenon DEF Init
    <3> QED
      BY <3>1, <3>2, <3>3
  <2>2. Bounded /\ SoloInv /\ SettledInv /\ CalmInv
    BY NothingThere DEF Init, SoloInv, SettledInv, CalmInv
  <2>3. DeletionInv /\ StatusInv
    BY NothingThere DEF Init, DeletionInv, StatusInv
  <2> QED
    BY <2>1, <2>2, <2>3
<1>2. Inv /\ [Next]_vars => Inv'
  <2> SUFFICES ASSUME Inv, [Next]_vars PROVE Inv'
    OBVIOUS
  <2>1. CASE UNCHANGED vars
    BY <2>1 DEF vars, result, deletions, SoloInv, SettledInv, CalmInv,
                DeletionInv, StatusInv, GoodTask, GoodRow
  <2>2. ASSUME NEW c \in Clients, Step(c) PROVE Inv'
    <3>a. /\ redis \in Tasks /\ redis.write \in Writes
          /\ postgres \in Rows /\ postgres.write \in Writes
          /\ \A d \in Clients : arg[d] \in Tasks /\ arg[d].write \in Writes
      BY DEF Tasks, Rows
    <3>1. CASE BeginSave(c)
      <4> USE <3>1, <3>a, NothingThere DEF BeginSave, Begin, Busy, deletions
      <4>s. /\ writes + 1 \in 1..MaxWrites
            /\ Sent(writes + 1) \in Tasks /\ GoodTask(Sent(writes + 1))
            /\ Sent(writes + 1).write = writes + 1 /\ Sent(writes + 1).whole
        BY SentTask DEF Writes
      <4>1. pc' \in [Clients -> {"idle"} \cup Writing \cup Deleting \cup Reading]
        OBVIOUS
      <4>2. arg' \in [Clients -> Tasks] /\ redis' \in Tasks /\ postgres' \in Rows
        BY <4>s
      <4>3. /\ {succeeded', erred', solo', settled', tomb'} \subseteq BOOLEAN
            /\ alone' \in SUBSET Clients
        BY Zenon
      <4>4. writes' \in Writes /\ want' \in Writes
        BY <4>s DEF Writes
      <4>5. Bounded'
        BY <4>2, <4>s DEF Writes
      <4>6. StatusInv'
        BY <4>2, <4>s DEF StatusInv
      <4>7. SoloInv'
        BY <4>s DEF SoloInv
      <4>8. SettledInv'
        BY <4>2, <4>4, <4>s DEF SoloInv, SettledInv, Writes
      <4>9. CalmInv'
        BY <4>s DEF SoloInv, SettledInv, CalmInv, StatusInv, GoodRow
      <4>10. DeletionInv'
        BY DEF DeletionInv
      <4> QED
        BY <4>1, <4>2, <4>3, <4>4, <4>5, <4>6, <4>7, <4>8, <4>9, <4>10
    <3>2. CASE BeginDelete(c)
      <4> USE <3>2, <3>a, NothingThere DEF BeginDelete, Begin, Busy
      <4>1. pc' \in [Clients -> {"idle"} \cup Writing \cup Deleting \cup Reading]
        OBVIOUS
      <4>2. arg' \in [Clients -> Tasks] /\ redis' \in Tasks /\ postgres' \in Rows
        OBVIOUS
      <4>3. /\ {succeeded', erred', solo', settled', tomb'} \subseteq BOOLEAN
            /\ alone' \in SUBSET Clients
        BY Zenon
      <4>4. writes' \in Writes /\ want' \in Writes
        BY DEF Writes
      <4>5. Bounded'
        BY <4>2 DEF Writes
      <4>6. StatusInv'
        BY <4>2 DEF StatusInv
      <4>7. SoloInv'
        BY DEF SoloInv
      <4>8. SettledInv'
        BY <4>2, <4>4 DEF SoloInv, SettledInv, Writes
      <4>9. CalmInv'
        BY DEF SoloInv, SettledInv, CalmInv, StatusInv, GoodRow
      <4>10. DeletionInv'
        BY DEF DeletionInv
      <4> QED
        BY <4>1, <4>2, <4>3, <4>4, <4>5, <4>6, <4>7, <4>8, <4>9, <4>10
    <3>3. CASE BeginGet(c)
      <4> USE <3>3, <3>a, NothingThere DEF BeginGet, Begin, Busy, deletions
      <4>1. pc' \in [Clients -> {"idle"} \cup Writing \cup Deleting \cup Reading]
        OBVIOUS
      <4>2. arg' \in [Clients -> Tasks] /\ redis' \in Tasks /\ postgres' \in Rows
        OBVIOUS
      <4>3. /\ {succeeded', erred', solo', settled', tomb'} \subseteq BOOLEAN
            /\ alone' \in SUBSET Clients
        BY Zenon
      <4>4. writes' \in Writes /\ want' \in Writes
        BY DEF Writes
      <4>5. Bounded'
        BY <4>2 DEF Writes
      <4>6. StatusInv'
        BY <4>2 DEF StatusInv
      <4>7. SoloInv'
        BY DEF SoloInv
      <4>8. SettledInv'
        BY <4>2, <4>4 DEF SoloInv, SettledInv, Writes
      <4>9. CalmInv'
        BY DEF SoloInv, SettledInv, CalmInv, StatusInv, GoodRow
      <4>10. DeletionInv'
        BY DEF DeletionInv
      <4> QED
        BY <4>1, <4>2, <4>3, <4>4, <4>5, <4>6, <4>7, <4>8, <4>9, <4>10
    <3>4. CASE SaveRedis(c)
      <4> USE <3>4, <3>a, NothingThere DEF SaveRedis, Goto, Finish, Return, result, deletions
      <4>s. /\ arg[c].write # 0 /\ arg[c].whole /\ GoodTask(arg[c])
            /\ ToRow(arg[c]) \in Rows /\ GoodRow(ToRow(arg[c]))
            /\ ToRow(arg[c]).write = arg[c].write
        BY RowOfTask DEF StatusInv
      <4>1. pc' \in [Clients -> {"idle"} \cup Writing \cup Deleting \cup Reading]
        OBVIOUS
      <4>2. arg' \in [Clients -> Tasks] /\ redis' \in Tasks /\ postgres' \in Rows
        BY <4>s
      <4>3. /\ {succeeded', erred', solo', settled', tomb'} \subseteq BOOLEAN
            /\ alone' \in SUBSET Clients
        BY Zenon
      <4>4. writes' \in Writes /\ want' \in Writes
        BY <4>s DEF Writes
      <4>5. Bounded'
        BY <4>2, <4>s DEF Writes
      <4>6. StatusInv'
        BY <4>2, <4>s DEF StatusInv
      <4>7. SoloInv'
        BY <4>s DEF SoloInv
      <4>8. SettledInv'
        <5>0. settled' => solo /\ solo' /\ \A d \in Clients : d # c => pc[d] = "idle"
          BY DEF SoloInv, SettledInv
        <5>1. ASSUME settled', NEW d \in Clients
              PROVE  /\ pc'[d] # "idle" => solo'
                     /\ pc'[d] = "fillRedis" => arg'[d].write = postgres'.write
          BY <5>0, <5>1
        <5>2. (settled' /\ succeeded' /\ \A d \in Clients : pc'[d] \in {"idle"} \cup Reading)
                => redis'.write = want' /\ postgres'.write = want'
          BY <4>2, <4>4, <4>s DEF SoloInv, SettledInv
        <5>3. settled' /\ redis'.write # 0 => postgres'.write <= redis'.write
          <6>1. settled' => arg[c].write = writes /\ settled
            BY <5>0 DEF SoloInv
          <6>2. CASE redis' = arg[c]
            BY <6>1, <6>2 DEF Writes
          <6>3. CASE redis' = redis
            BY <6>1, <6>3 DEF SettledInv
          <6> QED
            BY <6>2, <6>3
        <5> QED
          BY <5>1, <5>2, <5>3 DEF SettledInv
      <4>9. CalmInv'
        BY <4>s DEF SoloInv, SettledInv, CalmInv, StatusInv, GoodRow
      <4>10. DeletionInv'
        BY DEF DeletionInv
      <4> QED
        BY <4>1, <4>2, <4>3, <4>4, <4>5, <4>6, <4>7, <4>8, <4>9, <4>10
    <3>5. CASE SavePostgres(c)
      <4> USE <3>5, <3>a, NothingThere DEF SavePostgres, Finish, Return, deletions
      <4>s. /\ arg[c].write # 0 /\ arg[c].whole /\ GoodTask(arg[c])
            /\ ToRow(arg[c]) \in Rows /\ GoodRow(ToRow(arg[c]))
            /\ ToRow(arg[c]).write = arg[c].write
        BY RowOfTask DEF StatusInv
      <4>1. pc' \in [Clients -> {"idle"} \cup Writing \cup Deleting \cup Reading]
        OBVIOUS
      <4>2. arg' \in [Clients -> Tasks] /\ redis' \in Tasks /\ postgres' \in Rows
        BY <4>s
      <4>3. /\ {succeeded', erred', solo', settled', tomb'} \subseteq BOOLEAN
            /\ alone' \in SUBSET Clients
        BY Zenon
      <4>4. writes' \in Writes /\ want' \in Writes
        BY <4>s DEF Writes
      <4>5. Bounded'
        BY <4>2, <4>s DEF Writes
      <4>6. StatusInv'
        BY <4>2, <4>s DEF StatusInv
      <4>7. SoloInv'
        BY <4>s DEF SoloInv
      <4>8. SettledInv'
        <5>0. settled' => solo /\ solo' /\ \A d \in Clients : d # c => pc[d] = "idle"
          BY DEF SoloInv, SettledInv
        <5>1. ASSUME settled', NEW d \in Clients
              PROVE  /\ pc'[d] # "idle" => solo'
                     /\ pc'[d] = "fillRedis" => arg'[d].write = postgres'.write
          BY <5>0, <5>1
        <5>2. (settled' /\ succeeded' /\ \A d \in Clients : pc'[d] \in {"idle"} \cup Reading)
                => redis'.write = want' /\ postgres'.write = want'
          BY <4>2, <4>4, <4>s DEF SoloInv, SettledInv
        <5>3. settled' /\ redis'.write # 0 => postgres'.write <= redis'.write
          <6>1. settled' => redis' = arg[c] /\ arg[c].write = writes
            BY <5>0 DEF SoloInv
          <6>2. postgres'.write <= writes
            BY <4>s DEF Writes
          <6> QED
            BY <6>1, <6>2
        <5> QED
          BY <5>1, <5>2, <5>3 DEF SettledInv
      <4>9. CalmInv'
        BY <4>s DEF SoloInv, SettledInv, CalmInv, StatusInv, GoodRow
      <4>10. DeletionInv'
        BY DEF DeletionInv
      <4> QED
        BY <4>1, <4>2, <4>3, <4>4, <4>5, <4>6, <4>7, <4>8, <4>9, <4>10
    <3>6. CASE DelRedis(c)
      <4> USE <3>6, <3>a, NothingThere DEF DelRedis, Goto, Finish, Return, result
      <4>1. pc' \in [Clients -> {"idle"} \cup Writing \cup Deleting \cup Reading]
        OBVIOUS
      <4>2. arg' \in [Clients -> Tasks] /\ redis' \in Tasks /\ postgres' \in Rows
        OBVIOUS
      <4>3. /\ {succeeded', erred', solo', settled', tomb'} \subseteq BOOLEAN
            /\ alone' \in SUBSET Clients
        BY Zenon
      <4>4. writes' \in Writes /\ want' \in Writes
        BY DEF Writes
      <4>5. Bounded'
        BY <4>2 DEF Writes
      <4>6. StatusInv'
        BY <4>2 DEF StatusInv
      <4>7. SoloInv'
        BY DEF SoloInv
      <4>8. SettledInv'
        <5>0. settled' => solo /\ solo' /\ \A d \in Clients : d # c => pc[d] = "idle"
          BY DEF SoloInv, SettledInv
        <5>1. ASSUME settled', NEW d \in Clients
              PROVE  /\ pc'[d] # "idle" => solo'
                     /\ pc'[d] = "fillRedis" => arg'[d].write = postgres'.write
          BY <5>0, <5>1
        <5>2. (settled' /\ succeeded' /\ \A d \in Clients : pc'[d] \in {"idle"} \cup Reading)
                => redis'.write = want' /\ postgres'.write = want'
          BY <4>2, <4>4 DEF SoloInv, SettledInv
        <5>3. settled' /\ redis'.write # 0 => postgres'.write <= redis'.write
          BY <5>0, <4>2, <4>4 DEF SoloInv, SettledInv, Writes
        <5> QED
          BY <5>1, <5>2, <5>3 DEF SettledInv
      <4>9. CalmInv'
        BY DEF SoloInv, SettledInv, CalmInv, StatusInv, GoodRow
      <4>10. DeletionInv'
        BY DEF DeletionInv
      <4> QED
        BY <4>1, <4>2, <4>3, <4>4, <4>5, <4>6, <4>7, <4>8, <4>9, <4>10
    <3>7. CASE DelPostgres(c)
      <4> USE <3>7, <3>a, NothingThere DEF DelPostgres, Finish, Return
      <4>1. pc' \in [Clients -> {"idle"} \cup Writing \cup Deleting \cup Reading]
        OBVIOUS
      <4>2. arg' \in [Clients -> Tasks] /\ redis' \in Tasks /\ postgres' \in Rows
        OBVIOUS
      <4>3. /\ {succeeded', erred', solo', settled', tomb'} \subseteq BOOLEAN
            /\ alone' \in SUBSET Clients
        BY Zenon
      <4>4. writes' \in Writes /\ want' \in Writes
        BY DEF Writes
      <4>5. Bounded'
        BY <4>2 DEF Writes
      <4>6. StatusInv'
        BY <4>2 DEF StatusInv
      <4>7. SoloInv'
        BY DEF SoloInv
      <4>8. SettledInv'
        <5>0. settled' => solo /\ solo' /\ \A d \in Clients : d # c => pc[d] = "idle"
          BY DEF SoloInv, SettledInv
        <5>1. ASSUME settled', NEW d \in Clients
              PROVE  /\ pc'[d] # "idle" => solo'
                     /\ pc'[d] = "fillRedis" => arg'[d].write = postgres'.write
          BY <5>0, <5>1
        <5>2. (settled' /\ succeeded' /\ \A d \in Clients : pc'[d] \in {"idle"} \cup Reading)
                => redis'.write = want' /\ postgres'.write = want'
          BY <4>2, <4>4 DEF SoloInv, SettledInv
        <5>3. settled' /\ redis'.write # 0 => postgres'.write <= redis'.write
          BY <5>0, <4>2, <4>4 DEF SoloInv, SettledInv, Writes
        <5> QED
          BY <5>1, <5>2, <5>3 DEF SettledInv
      <4>9. CalmInv'
        BY DEF SoloInv, SettledInv, CalmInv, StatusInv, GoodRow
      <4>10. DeletionInv'
        BY DEF DeletionInv
      <4> QED
        BY <4>1, <4>2, <4>3, <4>4, <4>5, <4>6, <4>7, <4>8, <4>9, <4>10
    <3>8. CASE GetRedis(c)
      <4> USE <3>8, <3>a, NothingThere DEF GetRedis, Goto, Return, deletions
      <4>1. pc' \in [Clients -> {"idle"} \cup Writing \cup Deleting \cup Reading]
        OBVIOUS
      <4>2. arg' \in [Clients -> Tasks] /\ redis' \in Tasks /\ postgres' \in Rows
        OBVIOUS
      <4>3. /\ {succeeded', erred', solo', settled', tomb'} \subseteq BOOLEAN
            /\ alone' \in SUBSET Clients
        BY Zenon
      <4>4. writes' \in Writes /\ want' \in Writes
        BY DEF Writes
      <4>5. Bounded'
        BY <4>2 DEF Writes
      <4>6. StatusInv'
        BY <4>2 DEF StatusInv
      <4>7. SoloInv'
        BY DEF SoloInv
      <4>8. SettledInv'
        BY <4>2, <4>4 DEF SoloInv, SettledInv, Writes
      <4>9. CalmInv'
        BY DEF SoloInv, SettledInv, CalmInv, StatusInv, GoodRow
      <4>10. DeletionInv'
        BY DEF DeletionInv
      <4> QED
        BY <4>1, <4>2, <4>3, <4>4, <4>5, <4>6, <4>7, <4>8, <4>9, <4>10
    <3>9. CASE GetPostgres(c)
      <4> USE <3>9, <3>a, NothingThere DEF GetPostgres, Goto, Return, deletions
      <4>s. postgres # NoRow =>
                /\ FromRow(postgres) \in Tasks /\ GoodTask(FromRow(postgres))
                /\ FromRow(postgres).write = postgres.write /\ postgres.write # 0
        BY TaskOfRow DEF StatusInv
      <4>1. pc' \in [Clients -> {"idle"} \cup Writing \cup Deleting \cup Reading]
        OBVIOUS
      <4>2. arg' \in [Clients -> Tasks] /\ redis' \in Tasks /\ postgres' \in Rows
        BY <4>s
      <4>3. /\ {succeeded', erred', solo', settled', tomb'} \subseteq BOOLEAN
            /\ alone' \in SUBSET Clients
        BY Zenon
      <4>4. writes' \in Writes /\ want' \in Writes
        BY <4>s DEF Writes
      <4>5. Bounded'
        BY <4>2, <4>s DEF Writes
      <4>6. StatusInv'
        BY <4>2, <4>s DEF StatusInv
      <4>7. SoloInv'
        BY <4>s DEF SoloInv
      <4>8. SettledInv'
        BY <4>2, <4>4, <4>s DEF SoloInv, SettledInv, Writes
      <4>9. CalmInv'
        BY <4>s DEF SoloInv, SettledInv, CalmInv, StatusInv, GoodRow
      <4>10. DeletionInv'
        BY DEF DeletionInv
      <4> QED
        BY <4>1, <4>2, <4>3, <4>4, <4>5, <4>6, <4>7, <4>8, <4>9, <4>10
    <3>10. CASE FillRedis(c)
      <4> USE <3>10, <3>a, NothingThere DEF FillRedis, Return, deletions
      <4>1. pc' \in [Clients -> {"idle"} \cup Writing \cup Deleting \cup Reading]
        OBVIOUS
      <4>2. arg' \in [Clients -> Tasks] /\ redis' \in Tasks /\ postgres' \in Rows
        OBVIOUS
      <4>3. /\ {succeeded', erred', solo', settled', tomb'} \subseteq BOOLEAN
            /\ alone' \in SUBSET Clients
        BY Zenon
      <4>4. writes' \in Writes /\ want' \in Writes
        BY DEF Writes
      <4>5. Bounded'
        BY <4>2 DEF Writes
      <4>6. StatusInv'
        BY <4>2 DEF StatusInv
      <4>7. SoloInv'
        BY DEF SoloInv
      <4>8. SettledInv'
        BY <4>2, <4>4 DEF SoloInv, SettledInv, Writes
      <4>9. CalmInv'
        BY DEF SoloInv, SettledInv, CalmInv, StatusInv, GoodRow
      <4>10. DeletionInv'
        BY DEF DeletionInv
      <4> QED
        BY <4>1, <4>2, <4>3, <4>4, <4>5, <4>6, <4>7, <4>8, <4>9, <4>10
    <3> QED
      BY <2>2, <3>1, <3>2, <3>3, <3>4, <3>5, <3>6, <3>7, <3>8, <3>9, <3>10 DEF Step
  <2> QED
    BY <2>1, <2>2 DEF Next
<1> QED
  BY <1>1, <1>2, PTL DEF Spec

\* The state keeps its type, however clients, failures and writes interleave.
THEOREM StorageTypeCorrect == Spec => []TypeOK
  BY StorageInvariant, PTL DEF Inv

\* Once a write or delete that was alone has succeeded, and until operations
\* overlap again, both stores show the last success (hybrid_storage.go:29-83).
THEOREM LastSuccess == Spec => []LastSuccessIsShown
<1>1. Inv => LastSuccessIsShown
  BY DEF Inv, SettledInv, LastSuccessIsShown, Busy, Reading
<1> QED
  BY <1>1, StorageInvariant, PTL

\* As long, besides, as no call fails, the task in Redis is whole
\* (hybrid_storage.go:41-59).
THEOREM KeptWhole == Spec => []TaskKeptWhole
<1>1. Inv => TaskKeptWhole
  BY DEF Inv, CalmInv, TaskKeptWhole
<1> QED
  BY <1>1, StorageInvariant, PTL

\* PostgreSQL is never ahead of Redis until operations overlap
\* (hybrid_storage.go:29-83).
THEOREM NeverAhead == Spec => []PostgresNeverAhead
<1>1. Inv => PostgresNeverAhead
  BY DEF Inv, SettledInv, StatusInv, GoodTask, PostgresNeverAhead
<1> QED
  BY <1>1, StorageInvariant, PTL

\* Whatever overlaps and fails, a task keeps the status it was written with,
\* through its row and back, unless that number has no name
\* (hybrid_storage.go:41-59, types.go:53-86).
THEOREM StatusKept == Spec => []FallbackKeepsStatus
<1>1. Inv => FallbackKeepsStatus
  <2> SUFFICES ASSUME Inv, redis # Absent
               PROVE  redis.status = IF redis.whole \/ Given[redis.write] \in StatusCodes
                                     THEN Given[redis.write]
                                     ELSE StatusPending
    BY DEF FallbackKeepsStatus
  <2>1. redis.write \in 1..MaxWrites
    BY MaxWritesAssumption DEF Inv, TypeOK, Tasks, Writes, StatusInv, GoodTask
  <2>2. Given[redis.write] \in Int
    BY <2>1, GivenAssumption
  <2>3. ParseStatus(StatusString(Given[redis.write]))
          = IF Given[redis.write] \in StatusCodes THEN Given[redis.write] ELSE StatusPending
    BY <2>2 DEF ParseStatus, StatusString, StatusCodes, StatusPending, StatusRunning,
                StatusCompleted, StatusFailed, StatusTimeout
  <2>4. redis.whole \in BOOLEAN
    BY DEF Inv, TypeOK, Tasks
  <2> QED
    BY <2>1, <2>3, <2>4 DEF Inv, StatusInv, GoodTask
<1> QED
  BY <1>1, StorageInvariant, PTL

\* The row of a deleted task comes back only by a write, whatever overlaps
\* (hybrid_storage.go:41-83).
THEOREM RowStaysDeleted == Spec => []DeletedRowStaysDeleted
<1>1. Inv => DeletedRowStaysDeleted
  BY DEF Inv, DeletionInv, DeletedRowStaysDeleted
<1> QED
  BY <1>1, StorageInvariant, PTL

=============================================================================
