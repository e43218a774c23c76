------------------------ MODULE LeaderElectionProofs ------------------------
(****************************************************************************)
(* Proofs about LeaderElection, for any set of nodes, any choice of seeds   *)
(* and any number of elections.                                             *)
(*                                                                          *)
(* The three parts of the inductive invariant are about one node each:      *)
(* ConfigInv, that a configuration is a seed alone; PollInv, that the flag  *)
(* and the monitor's memory are the same and what the monitor has read is   *)
(* what Raft says unless Raft changed since; CountInv, that an election the *)
(* monitor has not reported yet is still to be counted.                     *)
(****************************************************************************)
EXTENDS LeaderElection, TLAPS

ConfigInvOf(n) ==
    /\ config[n] = {} \/ config[n] = {n}
    /\ config[n] # {} => n \in Seeds
    /\ (raft[n] = "leader" \/ isLeader[n] \/ seen[n]) => config[n] = {n}

ConfigInv == \A n \in Nodes : ConfigInvOf(n)

PollInvOf(n) ==
    /\ isLeader[n] = wasLeader[n]
    /\ (monitor[n] = "tick" /\ ~changed[n]) => (isLeader[n] <=> raft[n] = "leader")
    /\ (monitor[n] = "apply" /\ ~changed[n]) => (seen[n] <=> raft[n] = "leader")
    /\ proc[n] \in {"down", "joining"} =>
           monitor[n] = "off" /\ ~isLeader[n] /\ ~seen[n] /\ loops[n] = 0
    /\ (proc[n] \in {"down", "joining"} /\ ~changed[n]) => raft[n] # "leader"
    /\ proc[n] = "down" => raft[n] = "off" /\ ~changed[n]
    /\ proc[n] \in {"stopping", "stopped"} => raft[n] = "off"
    /\ monitor[n] = "off" => proc[n] # "up"

PollInv == \A n \in Nodes : PollInvOf(n)

CountInvOf(n) ==
    /\ loops[n] <= elections[n]
    /\ (monitor[n] = "apply" /\ seen[n] /\ ~wasLeader[n]) => loops[n] < elections[n]
    /\ (raft[n] = "leader" /\ monitor[n] \in {"off", "tick"} /\ ~wasLeader[n])
           => loops[n] < elections[n]
    /\ (raft[n] = "leader" /\ monitor[n] = "apply" /\ ~seen[n])
           => loops[n] < elections[n]

CountInv == \A n \in Nodes : CountInvOf(n)

Inv == TypeOK /\ ConfigInv /\ PollInv /\ CountInv

\* Every reachable state satisfies the invariant: one case per action of
\* leader_election.go:40-168 and scheduler.go:163-181, 320-377.
THEOREM ElectionInvariant == Spec => []Inv
<1> USE SeedsAssumption, MaxElectionsAssumption
<1> USE DEF TypeOK, Writers, Flags
<1>1. Init => Inv
  <2> SUFFICES ASSUME Init PROVE Inv
    OBVIOUS
  <2>1. TypeOK
    BY DEF Init, Nobody
  <2>2. ConfigInv /\ PollInv
    BY DEF Init, ConfigInv, ConfigInvOf, PollInv, PollInvOf
  <2>3. CountInv
    BY DEF Init, CountInv, CountInvOf
  <2> QED
    BY <2>1, <2>2, <2>3 DEF Inv
<1>2. Inv /\ [Next]_vars => Inv'
  <2> SUFFICES ASSUME Inv, [Next]_vars PROVE Inv'
    OBVIOUS
  <2> USE DEF Inv
  <2>1. CASE UNCHANGED vars
    BY <2>1 DEF vars, raftVars, monitorVars, infoVars, ConfigInv, ConfigInvOf,
                PollInv, PollInvOf, CountInv, CountInvOf
  <2>2. ASSUME NEW n \in Nodes, Start(n) PROVE Inv'
    <3> USE <2>2 DEF Start, raftVars, monitorVars, infoVars
    <3>1. TypeOK'
      OBVIOUS
    <3>2. ConfigInv'
      <4> SUFFICES ASSUME NEW m \in Nodes PROVE ConfigInvOf(m)'
        BY DEF ConfigInv
      <4>1. ConfigInvOf(m) /\ PollInvOf(m)
        BY DEF ConfigInv, PollInv
      <4> QED
        BY <4>1 DEF ConfigInvOf, PollInvOf
    <3>3. PollInv'
      <4> SUFFICES ASSUME NEW m \in Nodes PROVE PollInvOf(m)'
        BY DEF PollInv
      <4>1. PollInvOf(m)
        BY DEF PollInv
      <4> QED
        BY <4>1 DEF PollInvOf
    <3>4. CountInv'
      <4> SUFFICES ASSUME NEW m \in Nodes PROVE CountInvOf(m)'
        BY DEF CountInv
      <4>1. CountInvOf(m) /\ PollInvOf(m)
        BY DEF CountInv, PollInv
      <4> QED
        BY <4>1 DEF CountInvOf, PollInvOf
    <3> QED
      BY <3>1, <3>2, <3>3, <3>4
  <2>3. ASSUME NEW n \in Nodes, Join(n) PROVE Inv'
    <3> USE <2>3 DEF Join, BootstrapCluster, AddVoters, raftVars, monitorVars, infoVars
    <3>1. TypeOK'
      OBVIOUS
    <3>2. ConfigInv'
      <4> SUFFICES ASSUME NEW m \in Nodes PROVE ConfigInvOf(m)'
        BY DEF ConfigInv
      <4>1. ConfigInvOf(m) /\ PollInvOf(m)
        BY DEF ConfigInv, PollInv
      <4>2. raft[n] # "leader" \/ n \in Seeds
        BY DEF ConfigInv, ConfigInvOf
      <4>3. config'[m] = config[m] \/ (m = n /\ n \in Seeds /\ config[n] = {} /\ config'[n] = {n})
        BY <4>2
      <4>4. UNCHANGED <<raft, isLeader, seen>>
        OBVIOUS
      <4> QED
        BY <4>1, <4>3, <4>4 DEF ConfigInvOf
    <3>3. PollInv'
      <4> SUFFICES ASSUME NEW m \in Nodes PROVE PollInvOf(m)'
        BY DEF PollInv
      <4>1. PollInvOf(m)
        BY DEF PollInv
      <4> QED
        BY <4>1 DEF PollInvOf
    <3>4. CountInv'
      <4> SUFFICES ASSUME NEW m \in Nodes PROVE CountInvOf(m)'
        BY DEF CountInv
      <4>1. CountInvOf(m) /\ PollInvOf(m)
        BY DEF CountInv, PollInv
      <4> QED
        BY <4>1 DEF CountInvOf, PollInvOf
    <3> QED
      BY <3>1, <3>2, <3>3, <3>4
  <2>4. ASSUME NEW n \in Nodes, Elect(n) PROVE Inv'
    <3> USE <2>4 DEF Elect, Majority, raftVars, monitorVars, infoVars
    <3>1. TypeOK'
      OBVIOUS
    <3>2. ConfigInv'
      <4> SUFFICES ASSUME NEW m \in Nodes PROVE ConfigInvOf(m)'
        BY DEF ConfigInv
      <4>1. ConfigInvOf(m) /\ PollInvOf(m)
        BY DEF ConfigInv, PollInv
      <4> QED
        BY <4>1 DEF ConfigInvOf, PollInvOf
    <3>3. PollInv'
      <4> SUFFICES ASSUME NEW m \in Nodes PROVE PollInvOf(m)'
        BY DEF PollInv
      <4>1. PollInvOf(m)
        BY DEF PollInv
      <4> QED
        BY <4>1 DEF PollInvOf
    <3>4. CountInv'
      <4> SUFFICES ASSUME NEW m \in Nodes PROVE CountInvOf(m)'
        BY DEF CountInv
      <4>1. CountInvOf(m) /\ PollInvOf(m)
        BY DEF CountInv, PollInv
      <4> QED
        BY <4>1 DEF CountInvOf, PollInvOf
    <3> QED
      BY <3>1, <3>2, <3>3, <3>4
  <2>5. ASSUME NEW n \in Nodes, StepDown(n) PROVE Inv'
    <3> USE <2>5 DEF StepDown, raftVars, monitorVars, infoVars
    <3>1. TypeOK'
      OBVIOUS
    <3>2. ConfigInv'
      <4> SUFFICES ASSUME NEW m \in Nodes PROVE ConfigInvOf(m)'
        BY DEF ConfigInv
      <4>1. ConfigInvOf(m) /\ PollInvOf(m)
        BY DEF ConfigInv, PollInv
      <4> QED
        BY <4>1 DEF ConfigInvOf, PollInvOf
    <3>3. PollInv'
      <4> SUFFICES ASSUME NEW m \in Nodes PROVE PollInvOf(m)'
        BY DEF PollInv
      <4>1. PollInvOf(m)
        BY DEF PollInv
      <4> QED
        BY <4>1 DEF PollInvOf
    <3>4. CountInv'
      <4> SUFFICES ASSUME NEW m \in Nodes PROVE CountInvOf(m)'
        BY DEF CountInv
      <4>1. CountInvOf(m) /\ PollInvOf(m)
        BY DEF CountInv, PollInv
      <4> QED
        BY <4>1 DEF CountInvOf, PollInvOf
    <3> QED
      BY <3>1, <3>2, <3>3, <3>4
  <2>6. ASSUME NEW n \in Nodes, PollRead(n) PROVE Inv'
    <3> USE <2>6 DEF PollRead, raftVars, monitorVars, infoVars
    <3>1. TypeOK'
      OBVIOUS
    <3>2. ConfigInv'
      <4> SUFFICES ASSUME NEW m \in Nodes PROVE ConfigInvOf(m)'
        BY DEF ConfigInv
      <4>1. ConfigInvOf(m) /\ PollInvOf(m)
        BY DEF ConfigInv, PollInv
      <4> QED
        BY <4>1 DEF ConfigInvOf, PollInvOf
    <3>3. PollInv'
      <4> SUFFICES ASSUME NEW m \in Nodes PROVE PollInvOf(m)'
        BY DEF PollInv
      <4>1. PollInvOf(m)
        BY DEF PollInv
      <4> QED
        BY <4>1 DEF PollInvOf
    <3>4. CountInv'
      <4> SUFFICES ASSUME NEW m \in Nodes PROVE CountInvOf(m)'
        BY DEF CountInv
      <4>1. CountInvOf(m) /\ PollInvOf(m)
        BY DEF CountInv, PollInv
      <4> QED
        BY <4>1 DEF CountInvOf, PollInvOf
    <3> QED
      BY <3>1, <3>2, <3>3, <3>4
  <2>7. ASSUME NEW n \in Nodes, PollApply(n) PROVE Inv'
    <3> USE <2>7 DEF PollApply, OnLeaderChange, raftVars, monitorVars, infoVars
    <3>1. TypeOK'
      <4>1. ASSUME seen[n] # wasLeader[n], seen[n] PROVE loops[n] + 1 \in 0..MaxElections
        <5>1. seen[n] \in BOOLEAN /\ wasLeader[n] \in BOOLEAN
          OBVIOUS
        <5>2. ~wasLeader[n]
          BY <4>1, <5>1, Zenon
        <5>3. loops[n] < elections[n]
          BY <4>1, <5>2 DEF CountInv, CountInvOf
        <5> QED
          BY <5>3
      <4>2. loops' \in [Nodes -> 0..MaxElections]
        <5>1. CASE seen[n] # wasLeader[n] /\ seen[n]
          <6>1. loops' = [loops EXCEPT ![n] = loops[n] + 1]
            BY <5>1
          <6> HIDE <2>7 DEF PollApply, OnLeaderChange
          <6> QED
            BY <4>1, <5>1, <6>1
        <5>2. CASE ~(seen[n] # wasLeader[n] /\ seen[n])
          <6>1. loops' = loops
            BY <5>2
          <6> QED
            BY <6>1
        <5> QED
          BY <5>1, <5>2
      <4>3. isLeader' \in [Nodes -> BOOLEAN]
        <5>1. /\ isLeader' = [isLeader EXCEPT ![n] = seen[n]] \/ isLeader' = isLeader
              /\ seen \in [Nodes -> BOOLEAN] /\ isLeader \in [Nodes -> BOOLEAN]
          OBVIOUS
        <5> HIDE <2>7 DEF Inv, PollApply, OnLeaderChange
        <5> QED
          BY <5>1
      <4>4. wasLeader' \in [Nodes -> BOOLEAN] /\ seen' \in [Nodes -> BOOLEAN]
        <5>1. /\ wasLeader' = [wasLeader EXCEPT ![n] = seen[n]]
              /\ seen' = [seen EXCEPT ![n] = FALSE]
              /\ seen \in [Nodes -> BOOLEAN] /\ wasLeader \in [Nodes -> BOOLEAN]
          OBVIOUS
        <5> HIDE <2>7 DEF Inv, PollApply
        <5> QED
          BY <5>1
      <4> QED
        BY <4>2, <4>3, <4>4
    <3>2. ConfigInv'
      <4> SUFFICES ASSUME NEW m \in Nodes PROVE ConfigInvOf(m)'
        BY DEF ConfigInv
      <4>1. ConfigInvOf(m) /\ PollInvOf(m)
        BY DEF ConfigInv, PollInv
      <4>2. isLeader'[m] => isLeader[m] \/ (m = n /\ seen[m])
        OBVIOUS
      <4> QED
        BY <4>1, <4>2 DEF ConfigInvOf
    <3>3. PollInv'
      <4> SUFFICES ASSUME NEW m \in Nodes PROVE PollInvOf(m)'
        BY DEF PollInv
      <4>1. PollInvOf(m)
        BY DEF PollInv
      <4> QED
        BY <4>1 DEF PollInvOf
    <3>4. CountInv'
      <4> SUFFICES ASSUME NEW m \in Nodes PROVE CountInvOf(m)'
        BY DEF CountInv
      <4>1. CountInvOf(m) /\ PollInvOf(m)
        BY DEF CountInv, PollInv
      <4> QED
        BY <4>1 DEF CountInvOf, PollInvOf
    <3> QED
      BY <3>1, <3>2, <3>3, <3>4
  <2>8. ASSUME NEW n \in Nodes, MonitorQuit(n) PROVE Inv'
    <3> USE <2>8 DEF MonitorQuit, raftVars, monitorVars, infoVars
    <3>1. TypeOK'
      OBVIOUS
    <3>2. ConfigInv'
      <4> SUFFICES ASSUME NEW m \in Nodes PROVE ConfigInvOf(m)'
        BY DEF ConfigInv
      <4>1. ConfigInvOf(m) /\ PollInvOf(m)
        BY DEF ConfigInv, PollInv
      <4> QED
        BY <4>1 DEF ConfigInvOf, PollInvOf
    <3>3. PollInv'
      <4> SUFFICES ASSUME NEW m \in Nodes PROVE PollInvOf(m)'
        BY DEF PollInv
      <4>1. PollInvOf(m)
        BY DEF PollInv
      <4> QED
        BY <4>1 DEF PollInvOf
    <3>4. CountInv'
      <4> SUFFICES ASSUME NEW m \in Nodes PROVE CountInvOf(m)'
        BY DEF CountInv
      <4>1. CountInvOf(m) /\ PollInvOf(m)
        BY DEF CountInv, PollInv
      <4> QED
        BY <4>1 DEF CountInvOf, PollInvOf
    <3> QED
      BY <3>1, <3>2, <3>3, <3>4
  <2>9. ASSUME NEW n \in Nodes, Expire(n) PROVE Inv'
    <3> USE <2>9 DEF Expire, raftVars, monitorVars, infoVars
    <3>1. TypeOK'
      OBVIOUS
    <3>2. ConfigInv'
      <4> SUFFICES ASSUME NEW m \in Nodes PROVE ConfigInvOf(m)'
        BY DEF ConfigInv
      <4>1. ConfigInvOf(m) /\ PollInvOf(m)
        BY DEF ConfigInv, PollInv
      <4> QED
        BY <4>1 DEF ConfigInvOf, PollInvOf
    <3>3. PollInv'
      <4> SUFFICES ASSUME NEW m \in Nodes PROVE PollInvOf(m)'
        BY DEF PollInv
      <4>1. PollInvOf(m)
        BY DEF PollInv
      <4> QED
        BY <4>1 DEF PollInvOf
    <3>4. CountInv'
      <4> SUFFICES ASSUME NEW m \in Nodes PROVE CountInvOf(m)'
        BY DEF CountInv
      <4>1. CountInvOf(m) /\ PollInvOf(m)
        BY DEF CountInv, PollInv
      <4> QED
        BY <4>1 DEF CountInvOf, PollInvOf
    <3> QED
      BY <3>1, <3>2, <3>3, <3>4
  <2>10. ASSUME NEW n \in Nodes, Shutdown(n) PROVE Inv'
    <3> USE <2>10 DEF Shutdown, raftVars, monitorVars, infoVars
    <3>1. TypeOK'
      OBVIOUS
    <3>2. ConfigInv'
      <4> SUFFICES ASSUME NEW m \in Nodes PROVE ConfigInvOf(m)'
        BY DEF ConfigInv
      <4>1. ConfigInvOf(m) /\ PollInvOf(m)
        BY DEF ConfigInv, PollInv
      <4> QED
        BY <4>1 DEF ConfigInvOf, PollInvOf
    <3>3. PollInv'
      <4> SUFFICES ASSUME NEW m \in Nodes PROVE PollInvOf(m)'
        BY DEF PollInv
      <4>1. PollInvOf(m)
        BY DEF PollInv
      <4> QED
        BY <4>1 DEF PollInvOf
    <3>4. CountInv'
      <4> SUFFICES ASSUME NEW m \in Nodes PROVE CountInvOf(m)'
        BY DEF CountInv
      <4>1. CountInvOf(m) /\ PollInvOf(m)
        BY DEF CountInv, PollInv
      <4> QED
        BY <4>1 DEF CountInvOf, PollInvOf
    <3> QED
      BY <3>1, <3>2, <3>3, <3>4
  <2>11. ASSUME NEW n \in Nodes, Cancel(n) PROVE Inv'
    <3> USE <2>11 DEF Cancel, raftVars, monitorVars, infoVars
    <3>1. TypeOK'
      OBVIOUS
    <3>2. ConfigInv'
      <4> SUFFICES ASSUME NEW m \in Nodes PROVE ConfigInvOf(m)'
        BY DEF ConfigInv
      <4>1. ConfigInvOf(m) /\ PollInvOf(m)
        BY DEF ConfigInv, PollInv
      <4> QED
        BY <4>1 DEF ConfigInvOf, PollInvOf
    <3>3. PollInv'
      <4> SUFFICES ASSUME NEW m \in Nodes PROVE PollInvOf(m)'
        BY DEF PollInv
      <4>1. PollInvOf(m)
        BY DEF PollInv
      <4> QED
        BY <4>1 DEF PollInvOf
    <3>4. CountInv'
      <4> SUFFICES ASSUME NEW m \in Nodes PROVE CountInvOf(m)'
        BY DEF CountInv
      <4>1. CountInvOf(m) /\ PollInvOf(m)
        BY DEF CountInv, PollInv
      <4> QED
        BY <4>1 DEF CountInvOf, PollInvOf
    <3> QED
      BY <3>1, <3>2, <3>3, <3>4
  <2>12. ASSUME NEW n \in Nodes, Die(n) PROVE Inv'
    <3> USE <2>12 DEF Die, Nobody, raftVars, monitorVars, infoVars
    <3>1. TypeOK'
      OBVIOUS
    <3>2. ConfigInv'
      <4> SUFFICES ASSUME NEW m \in Nodes PROVE ConfigInvOf(m)'
        BY DEF ConfigInv
      <4>1. ConfigInvOf(m) /\ PollInvOf(m)
        BY DEF ConfigInv, PollInv
      <4> QED
        BY <4>1 DEF ConfigInvOf, PollInvOf
    <3>3. PollInv'
      <4> SUFFICES ASSUME NEW m \in Nodes PROVE PollInvOf(m)'
        BY DEF PollInv
      <4>1. PollInvOf(m)
        BY DEF PollInv
      <4> QED
        BY <4>1 DEF PollInvOf
    <3>4. CountInv'
      <4> SUFFICES ASSUME NEW m \in Nodes PROVE CountInvOf(m)'
        BY DEF CountInv
      <4>1. CountInvOf(m) /\ PollInvOf(m)
        BY DEF CountInv, PollInv
      <4> QED
        BY <4>1 DEF CountInvOf, PollInvOf
    <3> QED
      BY <3>1, <3>2, <3>3, <3>4
  <2>13. ASSUME NEW n \in Nodes, NEW g \in Writers, Info(n, g) PROVE Inv'
    <3> USE <2>13 DEF Info, InfoRead, InfoWrite, InfoFail, Flag, raftVars, monitorVars
    <3>1. TypeOK'
      <4>1. Flag(isLeader[n]) \in Flags
        OBVIOUS
      <4>2. read' \in [Nodes -> [Writers -> Flags]]
        <5>1. PICK f \in Flags : read' = [read EXCEPT ![n][g] = f]
          BY <4>1
        <5>2. read[n] \in [Writers -> Flags]
          OBVIOUS
        <5>3. [read[n] EXCEPT ![g] = f] \in [Writers -> Flags]
          BY <5>2
        <5> QED
          BY <5>1, <5>3
      <4>3. record' \in [Nodes -> Flags]
        <5>1. read[n][g] \in Flags
          OBVIOUS
        <5> QED
          BY <5>1
      <4>4. fresh' \in [Nodes -> BOOLEAN]
        OBVIOUS
      <4> QED
        BY <4>2, <4>3, <4>4
    <3>2. ConfigInv'
      <4>1. UNCHANGED <<config, raft, isLeader, seen>>
        OBVIOUS
      <4> QED
        BY <4>1 DEF ConfigInv, ConfigInvOf
    <3>3. PollInv'
      BY DEF PollInv, PollInvOf
    <3>4. CountInv'
      BY DEF CountInv, CountInvOf
    <3> QED
      BY <3>1, <3>2, <3>3, <3>4
  <2> QED
    BY <2>1, <2>2, <2>3, <2>4, <2>5, <2>6, <2>7, <2>8,
       <2>9, <2>10, <2>11, <2>12, <2>13 DEF Next, Poll
<1> QED
  BY <1>1, <1>2, PTL DEF Spec

\* The state keeps its type.
THEOREM ElectionTypeCorrect == Spec => []TypeOK
  BY ElectionInvariant, PTL DEF Inv

\* Whatever the topology, only nodes started without peers lead, each in a
\* cluster of its own (leader_election.go:81-99).
THEOREM SeedsLead == Spec => []OnlySeedsLead
<1>1. Inv => OnlySeedsLead
  BY DEF Inv, ConfigInv, ConfigInvOf, OnlySeedsLead
<1> QED
  BY <1>1, ElectionInvariant, PTL

\* s.isLeader is stale for one poll at the most (leader_election.go:148-168).
THEOREM FlagIsFresh == Spec => []FlagFollowsRaft
<1>1. Inv => FlagFollowsRaft
  BY DEF Inv, PollInv, PollInvOf, FlagFollowsRaft
<1> QED
  BY <1>1, ElectionInvariant, PTL

=============================================================================
