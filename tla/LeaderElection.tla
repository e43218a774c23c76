--------------------------- MODULE LeaderElection ---------------------------
(****************************************************************************)
(* internal/cluster/leader_election.go and what the scheduler makes of it:  *)
(* how a node joins Raft, the goroutine that polls Raft and reports changes *)
(* to onLeaderChange, the flag s.isLeader that gates submissions, and the   *)
(* goroutines that write the flag into the node's record.                   *)
(*                                                                          *)
(* Raft itself is a library.  All that is assumed of it is that a node is   *)
(* elected only by a majority of a configuration it belongs to, that a      *)
(* configuration is changed only by its leader, and that it is kept on disk.*)
(****************************************************************************)
EXTENDS Integers, FiniteSets

CONSTANTS
    Nodes,         \* node ids
    Seeds,         \* nodes that are started with an empty list of peers
    MaxElections   \* bound: how often a node is elected between two starts

ASSUME SeedsAssumption == Seeds \subseteq Nodes
ASSUME MaxElectionsAssumption == MaxElections \in Nat \ {0}

\* The goroutines that call updateNodeInfo: heartbeat, numbered 0, and one
\* leaderResponsibilities for every time the node became leader.
Writers == 0..MaxElections

VARIABLES
    proc,       \* "down", "joining" (in Start), "up", "stopping", "stopped"
    config,     \* the Raft configuration in the node's data directory
    raft,       \* what raft.State() says: "off", "follower" or "leader"
    monitor,    \* monitorLeaderChanges: "off", "tick" or "apply"
    seen,       \* the IsLeader() it has read and is about to apply
    wasLeader,  \* its local variable
    isLeader,   \* s.isLeader
    loops,      \* how many leaderResponsibilities were started
    read,       \* what each goroutine in updateNodeInfo has read of s.isLeader
    record,     \* IsLeader in the stored record of the node, "none" without one
    fresh,      \* the node runs and its last SaveNodeInfo succeeded
    elections,  \* how often the node was elected since its start
    changed     \* Raft's state changed since the monitor read it last

raftVars == <<config, raft, elections, changed>>
monitorVars == <<monitor, seen, wasLeader>>
infoVars == <<read, record, fresh>>
vars == <<proc, raftVars, monitorVars, isLeader, loops, infoVars>>

Flags == {"none", "yes", "no"}
Flag(b) == IF b THEN "yes" ELSE "no"

\* The one type invariant.
TypeOK ==
    /\ proc \in [Nodes -> {"down", "joining", "up", "stopping", "stopped"}]
    /\ config \in [Nodes -> SUBSET Nodes]
    /\ raft \in [Nodes -> {"off", "follower", "leader"}]
    /\ monitor \in [Nodes -> {"off", "tick", "apply"}]
    /\ seen \in [Nodes -> BOOLEAN] /\ wasLeader \in [Nodes -> BOOLEAN]
    /\ isLeader \in [Nodes -> BOOLEAN] /\ changed \in [Nodes -> BOOLEAN]
    /\ loops \in [Nodes -> 0..MaxElections]
    /\ read \in [Nodes -> [Writers -> Flags]]
    /\ record \in [Nodes -> Flags] /\ fresh \in [Nodes -> BOOLEAN]
    /\ elections \in [Nodes -> 0..MaxElections]

\* The goroutines of n that may be in updateNodeInfo.
Active(n) == 0..loops[n]

Nobody == [g \in Writers |-> "none"]

------------------------------------------------------------------------------

Init ==
    /\ proc = [n \in Nodes |-> "down"]
    /\ config = [n \in Nodes |-> {}]
    /\ raft = [n \in Nodes |-> "off"]
    /\ monitor = [n \in Nodes |-> "off"]
    /\ seen = [n \in Nodes |-> FALSE]
    /\ wasLeader = [n \in Nodes |-> FALSE]
    /\ isLeader = [n \in Nodes |-> FALSE]
    /\ loops = [n \in Nodes |-> 0]
    /\ read = [n \in Nodes |-> Nobody]
    /\ record = [n \in Nodes |-> "none"]
    /\ fresh = [n \in Nodes |-> FALSE]
    /\ elections = [n \in Nodes |-> 0]
    /\ changed = [n \in Nodes |-> FALSE]

\* LeaderElection.Start up to NewRaft, which begins as a follower.
Start(n) ==
    /\ proc[n] = "down"
    /\ proc' = [proc EXCEPT ![n] = "joining"]
    /\ raft' = [raft EXCEPT ![n] = "follower"]
    /\ UNCHANGED <<config, elections, changed, monitorVars, isLeader, loops,
                   infoVars>>

\* BootstrapCluster makes a configuration of the node alone, unless there is
\* one on disk; the error it returns then is not looked at.
BootstrapCluster(n) == IF config[n] = {} THEN {n} ELSE config[n]

\* Only a leader adds voters; a follower returns an error, which is logged.
AddVoters(n) == IF raft[n] = "leader" THEN Nodes ELSE config[n]

\* Mutated Join: a node with peers bootstraps too.
JoinBootstraps(n) ==
    /\ proc[n] = "joining"
    /\ config' = [config EXCEPT ![n] = BootstrapCluster(n)]
    /\ proc' = [proc EXCEPT ![n] = "up"]
    /\ monitor' = [monitor EXCEPT ![n] = "tick"]
    /\ UNCHANGED <<raft, elections, changed, seen, wasLeader, isLeader, loops,
                   infoVars>>

\* The rest of Start: without peers the node bootstraps a cluster, with peers
\* it asks its own Raft to add them.
Join(n) ==
    /\ proc[n] = "joining"
    /\ config' = [config EXCEPT ![n] =
                      IF n \in Seeds THEN BootstrapCluster(n) ELSE AddVoters(n)]
    /\ proc' = [proc EXCEPT ![n] = "up"]
    /\ monitor' = [monitor EXCEPT ![n] = "tick"]
    /\ UNCHANGED <<raft, elections, changed, seen, wasLeader, isLeader, loops,
                   infoVars>>

------------------------------------------------------------------------------
(* Raft.                                                                    *)

Majority(C) == {Q \in SUBSET C : 2 * Cardinality(Q) > Cardinality(C)}

Elect(n) ==
    /\ raft[n] = "follower"
    /\ elections[n] < MaxElections
    /\ \E Q \in Majority(config[n]) : n \in Q /\ \A m \in Q : raft[m] # "off"
    /\ raft' = [raft EXCEPT ![n] = "leader"]
    /\ elections' = [elections EXCEPT ![n] = @ + 1]
    /\ changed' = [changed EXCEPT ![n] = TRUE]
    /\ UNCHANGED <<config, proc, monitorVars, isLeader, loops, infoVars>>

\* A leader that cannot write its log becomes a follower.
StepDown(n) ==
    /\ raft[n] = "leader"
    /\ raft' = [raft EXCEPT ![n] = "follower"]
    /\ changed' = [changed EXCEPT ![n] = TRUE]
    /\ UNCHANGED <<config, elections, proc, monitorVars, isLeader, loops,
                   infoVars>>

------------------------------------------------------------------------------
(* monitorLeaderChanges and onLeaderChange.                                 *)

PollRead(n) ==
    /\ monitor[n] = "tick"
    /\ seen' = [seen EXCEPT ![n] = raft[n] = "leader"]
    /\ changed' = [changed EXCEPT ![n] = FALSE]
    /\ monitor' = [monitor EXCEPT ![n] = "apply"]
    /\ UNCHANGED <<config, raft, elections, proc, wasLeader, isLeader, loops,
                   infoVars>>

\* Mutated OnLeaderChange: leadership is taken and never given up.
OnLeaderChangeSticky(n, b) ==
    /\ isLeader' = [isLeader EXCEPT ![n] = @ \/ b]
    /\ loops' = [loops EXCEPT ![n] = IF b THEN @ + 1 ELSE @]

\* s.isLeader is set, and one more leaderResponsibilities is started on every
\* gain; the earlier ones go on until the scheduler stops.
OnLeaderChange(n, b) ==
    /\ isLeader' = [isLeader EXCEPT ![n] = b]
    /\ loops' = [loops EXCEPT ![n] = IF b THEN @ + 1 ELSE @]

\* Mutated PollApply: wasLeader is not kept, every poll of a leader is a gain.
PollApplyForgets(n) ==
    /\ monitor[n] = "apply"
    /\ monitor' = [monitor EXCEPT ![n] = "tick"]
    /\ \/ seen[n] # wasLeader[n] /\ OnLeaderChange(n, seen[n])
       \/ seen[n] = wasLeader[n] /\ UNCHANGED <<isLeader, loops>>
    /\ seen' = [seen EXCEPT ![n] = FALSE]
    /\ UNCHANGED <<raftVars, proc, wasLeader, infoVars>>

\* A difference to the poll before is reported, then remembered.
PollApply(n) ==
    /\ monitor[n] = "apply"
    /\ monitor' = [monitor EXCEPT ![n] = "tick"]
    /\ \/ seen[n] # wasLeader[n] /\ OnLeaderChange(n, seen[n])
       \/ seen[n] = wasLeader[n] /\ UNCHANGED <<isLeader, loops>>
    /\ wasLeader' = [wasLeader EXCEPT ![n] = seen[n]]
    /\ seen' = [seen EXCEPT ![n] = FALSE]
    /\ UNCHANGED <<raftVars, proc, infoVars>>

\* The ticker and ctx.Done() compete; either may be taken once both are ready.
MonitorQuit(n) ==
    /\ monitor[n] = "tick"
    /\ proc[n] = "stopped"
    /\ monitor' = [monitor EXCEPT ![n] = "off"]
    /\ UNCHANGED <<raftVars, proc, seen, wasLeader, isLeader, loops, infoVars>>

------------------------------------------------------------------------------
(* updateNodeInfo, by heartbeat and by every leaderResponsibilities.        *)

\* Mutated InfoRead: only a leader sends heartbeats.
InfoReadByLeader(n, g) ==
    /\ proc[n] \in {"up", "stopping"}
    /\ g \in Active(n)
    /\ isLeader[n]
    /\ read[n][g] = "none"
    /\ read' = [read EXCEPT ![n][g] = Flag(isLeader[n])]
    /\ UNCHANGED <<proc, raftVars, monitorVars, isLeader, loops, record, fresh>>

\* s.isLeader is read without s.mu; a goroutine may do so once more after
\* s.cancel(), when its ticker and ctx.Done() are both ready ...
InfoRead(n, g) ==
    /\ proc[n] \in {"up", "stopping"}
    /\ g \in Active(n)
    /\ read[n][g] = "none"
    /\ read' = [read EXCEPT ![n][g] = Flag(isLeader[n])]
    /\ UNCHANGED <<proc, raftVars, monitorVars, isLeader, loops, record, fresh>>

\* ... and may have changed when SaveNodeInfo stores it.
InfoWrite(n, g) ==
    /\ read[n][g] # "none"
    /\ record' = [record EXCEPT ![n] = read[n][g]]
    /\ read' = [read EXCEPT ![n][g] = "none"]
    /\ fresh' = [fresh EXCEPT ![n] = proc[n] = "up"]
    /\ UNCHANGED <<proc, raftVars, monitorVars, isLeader, loops>>

\* An error is logged and forgotten; the record may have been written.
InfoFail(n, g) ==
    /\ read[n][g] # "none"
    /\ record' \in {record, [record EXCEPT ![n] = read[n][g]]}
    /\ read' = [read EXCEPT ![n][g] = "none"]
    /\ fresh' = [fresh EXCEPT ![n] = FALSE]
    /\ UNCHANGED <<proc, raftVars, monitorVars, isLeader, loops>>

\* The record lives for 30 seconds and is written every 5, if it can be.
Expire(n) ==
    /\ ~fresh[n]
    /\ record[n] # "none"
    /\ record' = [record EXCEPT ![n] = "none"]
    /\ UNCHANGED <<proc, raftVars, monitorVars, isLeader, loops, read, fresh>>

------------------------------------------------------------------------------
(* Scheduler.Stop, and the end of the process.                              *)

\* s.cancel(), workerPool.Stop() and raft.Shutdown() ...
Shutdown(n) ==
    /\ proc[n] = "up"
    /\ proc' = [proc EXCEPT ![n] = "stopping"]
    /\ raft' = [raft EXCEPT ![n] = "off"]
    /\ changed' = [changed EXCEPT ![n] = TRUE]
    /\ fresh' = [fresh EXCEPT ![n] = FALSE]
    /\ UNCHANGED <<config, elections, monitorVars, isLeader, loops, read, record>>

\* ... then le.cancel(), whether or not the monitor has seen the shutdown.
Cancel(n) ==
    /\ proc[n] = "stopping"
    /\ proc' = [proc EXCEPT ![n] = "stopped"]
    /\ UNCHANGED <<raftVars, monitorVars, isLeader, loops, infoVars>>

\* The process ends, after Stop or by a crash; the data directory and the
\* record of the node stay.
Die(n) ==
    /\ proc[n] # "down"
    /\ proc' = [proc EXCEPT ![n] = "down"]
    /\ raft' = [raft EXCEPT ![n] = "off"]
    /\ elections' = [elections EXCEPT ![n] = 0]
    /\ changed' = [changed EXCEPT ![n] = FALSE]
    /\ monitor' = [monitor EXCEPT ![n] = "off"]
    /\ seen' = [seen EXCEPT ![n] = FALSE]
    /\ wasLeader' = [wasLeader EXCEPT ![n] = FALSE]
    /\ isLeader' = [isLeader EXCEPT ![n] = FALSE]
    /\ loops' = [loops EXCEPT ![n] = 0]
    /\ read' = [read EXCEPT ![n] = Nobody]
    /\ fresh' = [fresh EXCEPT ![n] = FALSE]
    /\ UNCHANGED <<config, record>>

Poll(n) == PollRead(n) \/ PollApply(n) \/ MonitorQuit(n)

Info(n, g) == InfoRead(n, g) \/ InfoWrite(n, g) \/ InfoFail(n, g)

Next ==
    \E n \in Nodes :
        \/ Start(n) \/ Join(n)
        \/ Elect(n) \/ StepDown(n)
        \/ Poll(n)
        \/ \E g \in Writers : Info(n, g)
        \/ Expire(n)
        \/ Shutdown(n) \/ Cancel(n) \/ Die(n)

\* Tickers tick and goroutines run; a node that starts gets through Start; Raft
\* elects a follower that can be elected.
Fairness ==
    \A n \in Nodes :
        /\ WF_vars(Join(n)) /\ WF_vars(Cancel(n))
        /\ WF_vars(Elect(n))
        /\ WF_vars(Poll(n))
        /\ \A g \in Writers : WF_vars(Info(n, g))

Spec == Init /\ [][Next]_vars /\ Fairness

------------------------------------------------------------------------------

\* A node that is started with peers never becomes leader, of anything
\* (leader_election.go:81-99): AddVoter is asked of a follower, so the node
\* never has a configuration in which it could be elected.  Only nodes without
\* peers take submissions, each as the leader of a cluster of its own.
OnlySeedsLead ==
    \A n \in Nodes : (isLeader[n] \/ raft[n] = "leader") =>
                         n \in Seeds /\ config[n] = {n}

\* Once one whole poll has passed since Raft changed, s.isLeader is what Raft
\* says (leader_election.go:148-168): the flag that gates SubmitTask is stale
\* for one poll at the most.
FlagFollowsRaft ==
    \A n \in Nodes : (monitor[n] = "tick" /\ ~changed[n]) =>
                         (isLeader[n] <=> raft[n] = "leader")

\* If a node's Raft state settles while the node runs, and its writes stop
\* failing, so does its record: whatever stale value a slow updateNodeInfo
\* still stores, and whatever failed writes left or let expire before, the
\* heartbeat stores the right one after it (scheduler.go:350-377).
RecordSettles ==
    \A n \in Nodes :
        /\ <>[](fresh[n] /\ raft[n] = "leader") =>
               <>[](isLeader[n] /\ record[n] = "yes")
        /\ <>[](fresh[n] /\ raft[n] = "follower") =>
               <>[](~isLeader[n] /\ record[n] = "no")

\* What TestLeaderFailover (integration_test.go:93-133) expects: when the
\* leader is stopped for good while another node runs on, another one leads.
FailoverHappens ==
    \A n, m \in Nodes :
        (n # m /\ isLeader[n] /\ proc[n] = "stopping" /\ proc[m] = "up")
            ~> \/ \E k \in Nodes \ {n} : isLeader[k]
               \/ proc[n] \in {"joining", "up"} \/ proc[m] # "up"

=============================================================================
