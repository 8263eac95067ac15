---------------------------- MODULE Supervision ----------------------------
(***************************************************************************)
(* Who takes the nodes down and who brings them back: the fault injector   *)
(* of groundhog/sim/faults.py, with its timeline of partitions and of      *)
(* outages, and the supervisor of raft/world.py, for nodes that kill       *)
(* themselves when their disk fails.  Both act on the node, its disk and   *)
(* the network's view of it, which are three pieces of state.              *)
(*                                                                         *)
(* Outages of one node do not overlap, but nothing keeps a node's own      *)
(* death, and the supervisor's visit 200 ms later, out of an outage.       *)
(***************************************************************************)
EXTENDS SimNetwork

CONSTANTS
  Kinds,         \* which outages are scheduled: subset of {"crash", "hang"}
  MaxOutages,    \* bound: outages in all
  MaxSplits,     \* bound: partitions in all
  MaxFailures    \* bound: failed writes in all

ASSUME KindsAssumption == Kinds \subseteq {"crash", "hang"}
ASSUME FaultBounds == MaxOutages \in Nat /\ MaxSplits \in Nat /\ MaxFailures \in Nat

VARIABLES
  running,    \* RaftNode.running
  online,     \* SimStorage.online: its disk can be read and written
  episode,    \* the outage of each node that has begun and not ended, or Nil
  revive,     \* how many node.supervise events are scheduled for each node
  outages, splits, failures   \* how many there have been

lifeVars == <<running, online, episode, revive, outages, splits, failures>>

(* SimNode: the node and the disk it dies with.                            *)
SimNodeCrash(n) ==
  /\ running' = [running EXCEPT ![n] = FALSE]
  /\ online' = [online EXCEPT ![n] = FALSE]

SimNodeRestart(n) ==
  /\ running' = [running EXCEPT ![n] = TRUE]
  /\ online' = [online EXCEPT ![n] = TRUE]

-----------------------------------------------------------------------------
(* The fault injector.                                                     *)

(* generate_schedule: the outages of one node follow each other with gaps  *)
(* between them, and so do the partitions.                                 *)
MayBegin(n) == episode[n] = Nil /\ outages < MaxOutages

MaySplit == partition = Nil /\ splits < MaxSplits

(* A coin is flipped for each node, and all may fall on one side.          *)
BadDrawn == {[side_a |-> a, side_b |-> Node \ a, one_way |-> w] :
               a \in SUBSET Node, w \in BOOLEAN}

(* _split: at least one node is drawn, and at least one is left.           *)
Drawn == {[side_a |-> a, side_b |-> Node \ a, one_way |-> w] :
            a \in (SUBSET Node) \ {{}, Node}, w \in BOOLEAN}

Begin(n, kind) ==
  /\ MayBegin(n)
  /\ outages' = outages + 1
  /\ episode' = [episode EXCEPT ![n] = kind]
  /\ IF kind = "crash"
     THEN SetState(n, "crashed") /\ SimNodeCrash(n)
     ELSE SetState(n, "hung") /\ UNCHANGED <<running, online>>
  /\ UNCHANGED <<revive, splits, failures, sends, flight, partition, delivered, dropped>>

End(n) ==
  /\ episode[n] # Nil
  /\ episode' = [episode EXCEPT ![n] = Nil]
  /\ IF episode[n] = "crash" THEN SimNodeRestart(n) ELSE UNCHANGED <<running, online>>
  /\ SetState(n, "running")
  /\ UNCHANGED <<revive, outages, splits, failures, sends, flight, partition,
                 delivered, dropped>>

StartPartition ==
  /\ MaySplit
  /\ splits' = splits + 1
  /\ \E p \in Drawn : Split(p)
  /\ UNCHANGED <<running, online, episode, revive, outages, failures>>

EndPartition ==
  /\ partition # Nil
  /\ Heal
  /\ UNCHANGED lifeVars

-----------------------------------------------------------------------------
(* The supervisor.                                                         *)

(* The network alone is told; the disk stays as the failed write left it.  *)
BadSelfCrash(n) ==
  /\ failures < MaxFailures
  /\ failures' = failures + 1
  /\ SetState(n, "crashed")
  /\ running' = [running EXCEPT ![n] = FALSE]
  /\ revive' = [revive EXCEPT ![n] = @ + 1]
  /\ UNCHANGED <<online, episode, outages, splits, sends, flight, partition,
                 delivered, dropped>>

(* guard, on_failure and _on_self_crash: a write of node n fails.  Timers  *)
(* fire in a hung node too, so this may happen while it is hung.           *)
SelfCrash(n) ==
  /\ failures < MaxFailures
  /\ running[n]
  /\ failures' = failures + 1
  /\ SetState(n, "crashed")
  /\ SimNodeCrash(n)
  /\ revive' = [revive EXCEPT ![n] = @ + 1]
  /\ UNCHANGED <<episode, outages, splits, sends, flight, partition, delivered, dropped>>

(* The network is not told.                                                *)
BadRevive(n) ==
  /\ revive[n] > 0
  /\ revive' = [revive EXCEPT ![n] = @ - 1]
  /\ IF state[n] = "crashed" THEN SimNodeRestart(n) ELSE UNCHANGED <<running, online>>
  /\ UNCHANGED <<state, held, released, episode, outages, splits, failures, sends, flight,
                 partition, delivered, dropped>>

(* _revive: only what the network has as crashed is restarted.             *)
Revive(n) ==
  /\ revive[n] > 0
  /\ revive' = [revive EXCEPT ![n] = @ - 1]
  /\ IF state[n] = "crashed"
     THEN SimNodeRestart(n) /\ SetState(n, "running")
     ELSE UNCHANGED <<running, online, state, held, released>>
  /\ UNCHANGED <<episode, outages, splits, failures, sends, flight, partition,
                 delivered, dropped>>

-----------------------------------------------------------------------------
(* The nodes, as far as the network sees them: one that runs may send.     *)
Sends(n, to) ==
  /\ running[n]
  /\ n # to
  /\ NetSend(n, to)
  /\ UNCHANGED lifeVars

Travel ==
  /\ \/ \E p \in flight : ArriveFromFlight(p)
     \/ ArriveReleased
  /\ UNCHANGED lifeVars

Init ==
  /\ NetInit
  /\ running = [n \in Node |-> TRUE]
  /\ online = [n \in Node |-> TRUE]
  /\ episode = [n \in Node |-> Nil]
  /\ revive = [n \in Node |-> 0]
  /\ outages = 0
  /\ splits = 0
  /\ failures = 0

Next ==
  \/ StartPartition
  \/ EndPartition
  \/ Travel
  \/ \E n \in Node :
       \/ \E kind \in Kinds : Begin(n, kind)
       \/ End(n)
       \/ SelfCrash(n)
       \/ Revive(n)
       \/ \E to \in Node : Sends(n, to)

vars == <<netVars, lifeVars>>

Spec == Init /\ [][Next]_vars

-----------------------------------------------------------------------------
(* Every variable keeps its type, the network's too.                       *)
TypeOK ==
  /\ NetTypeOK
  /\ running \in [Node -> BOOLEAN]
  /\ online \in [Node -> BOOLEAN]
  /\ episode \in [Node -> Kinds \cup {Nil}]
  /\ revive \in [Node -> 0 .. MaxFailures]
  /\ outages \in 0 .. MaxOutages
  /\ splits \in 0 .. MaxSplits
  /\ failures \in 0 .. MaxFailures

(* A node runs exactly while its disk is online: none writes to a disk     *)
(* that crashed under it, and none that is down keeps a disk open, however *)
(* the injector's and the supervisor's visits fall.                        *)
RunsOnItsDisk == \A n \in Node : running[n] = online[n]

(* A node that the network has as crashed is one that somebody is on the   *)
(* way to restart: the end of its outage, or the supervisor.               *)
CrashedIsExpected ==
  \A n \in Node : state[n] = "crashed" => episode[n] = "crash" \/ revive[n] > 0

(* "Settled means nobody is down" (world.py:421), where being up is what   *)
(* the network says; and "two supervisors reaching the same conclusion is  *)
(* not a conflict" (world.py:365-366): a node that the network has as      *)
(* running, and that nobody is on the way to, runs.  The code does not     *)
(* keep this.                                                              *)
SettledMeansUp ==
  \A n \in Node :
    state[n] = "running" /\ episode[n] = Nil /\ revive[n] = 0 => running[n]
=============================================================================
