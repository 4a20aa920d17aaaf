------------------------------- MODULE Cluster --------------------------------
(***************************************************************************)
(* What clients and the operator may rely on about the nodes: the          *)
(* abstract specification of Raft as seen from outside, without terms,     *)
(* votes, logs and messages between nodes.                                 *)
(*                                                                         *)
(*   - a node wins only as a candidate, and then names itself;             *)
(*   - the leader a node names has won an election at some time, and a     *)
(*     node changes its mind only as a follower;                           *)
(*   - a crashed node keeps its role and its leader.                       *)
(*                                                                         *)
(* RaftHistory implements it (RefinesCluster), with led the nodes that     *)
(* have won an election.                                                   *)
(***************************************************************************)
EXTENDS Rpc

CONSTANT MayStand    \* bound: the nodes that stand for election, given who has
                     \* been leader; not in the code, where everybody may

ASSUME MayStandAssumption == MayStand \in [SUBSET Node -> SUBSET Node]

VARIABLES
  state,
  leaderId,
  crash,
  led        \* the nodes that have been leader

clusterVars == <<state, leaderId, crash, led>>

ClusterInit ==
  /\ state = [n \in Node |-> "FOLLOWER"]
  /\ leaderId = [n \in Node |-> Nil]
  /\ crash = [n \in Node |-> FALSE]
  /\ led = {}

Stands(n) ==
  /\ ~crash[n] /\ state[n] = "FOLLOWER"
  /\ n \in MayStand[led]
  /\ state' = [state EXCEPT ![n] = "CANDIDATE"]
  /\ UNCHANGED <<leaderId, crash, led>>

Wins(n) ==
  /\ ~crash[n] /\ state[n] = "CANDIDATE"
  /\ state' = [state EXCEPT ![n] = "LEADER"]
  /\ leaderId' = [leaderId EXCEPT ![n] = n]
  /\ led' = led \cup {n}
  /\ UNCHANGED crash

(* A candidate or a leader becomes follower; it still names who it named,  *)
(* a deposed leader itself.                                                *)
StandsDown(n) ==
  /\ ~crash[n] /\ state[n] # "FOLLOWER"
  /\ state' = [state EXCEPT ![n] = "FOLLOWER"]
  /\ UNCHANGED <<leaderId, crash, led>>

(* A follower hears from a leader, perhaps one deposed since. *)
Follows(n, m) ==
  /\ ~crash[n] /\ state[n] = "FOLLOWER"
  /\ m \in led \ {n}
  /\ leaderId' = [leaderId EXCEPT ![n] = m]
  /\ UNCHANGED <<state, crash, led>>

Crashes(n) ==
  /\ ~crash[n]
  /\ crash' = [crash EXCEPT ![n] = TRUE]
  /\ UNCHANGED <<state, leaderId, led>>

Recovers(n) ==
  /\ crash[n]
  /\ crash' = [crash EXCEPT ![n] = FALSE]
  /\ UNCHANGED <<state, leaderId, led>>

(* What the nodes do among themselves, and at the operator's request. *)
RoleChange ==
  \E n \in Node :
    \/ Stands(n)
    \/ Wins(n)
    \/ StandsDown(n)
    \/ \E m \in Node : Follows(n, m)

ClusterNext == RoleChange \/ \E n \in Node : Crashes(n) \/ Recovers(n)

ClusterSpec == ClusterInit /\ [][ClusterNext]_clusterVars
==============================================================================
