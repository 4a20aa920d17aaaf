----------------------------- MODULE RaftHistory ------------------------------
(***************************************************************************)
(* Raft with a record of the past: every vote cast and every election won. *)
(* The record restricts nothing (Record only says what is added to it).    *)
(*                                                                         *)
(* A candidate counts a granted vote without looking at its term           *)
(* (candidateCycle.cc:30-32), so an election may rest on a vote that was   *)
(* cast in an earlier term, and two leaders of one term are possible       *)
(* (ElectionSafety in RaftProperties).  The properties below say that this *)
(* is the only way things go wrong: as long as every election is backed by *)
(* votes of its own term, leaders are unique, logs match, and what a       *)
(* follower has acknowledged stays in its log.                             *)
(***************************************************************************)
EXTENDS RaftProperties

VARIABLES votes,      \* the votes cast: <<voter, term, candidate>>
          elections   \* the elections won: [term, leader, voters]

historyVars == <<votes, elections>>

Record ==
  /\ votes' = votes \cup {<<n, term'[n], votedFor'[n]>> :
                            n \in {k \in Node : votedFor'[k] # Nil}}
  /\ elections' = elections \cup
       {[term |-> term'[n], leader |-> n, voters |-> hasVotedForMe'[n] \cup {n}] :
          n \in {k \in Node : state'[k] = "LEADER" /\ state[k] # "LEADER"}}

HistoryInit == Init /\ votes = {} /\ elections = {}

HistoryNext == Next /\ Record

HistorySpec == HistoryInit /\ [][HistoryNext]_<<vars, historyVars>>

-----------------------------------------------------------------------------
(* No node votes for two candidates in one term, over the whole run:       *)
(* neither a late request, nor standing down, nor a crash makes it forget  *)
(* (node.hh:107-110).                                                      *)
VotesUnique ==
  \A v, w \in votes : v[1] = w[1] /\ v[2] = w[2] => v[3] = w[3]

(* Every vote a candidate or a leader has counted was cast for it, in its  *)
(* own term or (candidateCycle.cc:30 does not look) in an earlier one.     *)
CountedVotesWereCast ==
  \A n \in Node : \A m \in hasVotedForMe[n] :
    \E t \in 1 .. term[n] : <<m, t, n>> \in votes

(* A leader has been chosen by a majority of different nodes, itself       *)
(* included: no vote is counted twice (candidateCycle.cc:31-36).           *)
ElectedByMajority == \A e \in elections : IsMajority(Cardinality(e.voters))

(* All the votes an election counted were cast in its term. *)
Backed(e) == \A v \in e.voters : <<v, e.term, e.leader>> \in votes

AllBacked == \A e \in elections : Backed(e)

(* Two backed elections of one term have the same winner: what README.md:  *)
(* 8-9 calls consensus for leader election, less the votes of other terms. *)
BackedElectionsAgree ==
  \A e, f \in elections :
    Backed(e) /\ Backed(f) /\ e.term = f.term => e.leader = f.leader

(* Two logs that hold an entry of the same term at the same position are   *)
(* equal up to there, although a follower cuts its log at every            *)
(* AppendEntries (followerCycle.cc:34-36).                                 *)
LogMatching ==
  AllBacked =>
    \A m, n \in Node :
      \A i \in DOMAIN logs[m] \cap DOMAIN logs[n] :
        logs[m][i].term = logs[n][i].term =>
          SubSeq(logs[m], 1, i) = SubSeq(logs[n], 1, i)

(* When a follower has told a leader of its own term that its log reaches  *)
(* newIndex, it still holds, and shares with that leader, every entry      *)
(* below newIndex: no older AppendEntries still under way cuts them off.   *)
AcknowledgedEntriesStay ==
  AllBacked =>
    \A m, n \in Node :
      \A rpc \in InFlight(m, n) :
        /\ rpc.type = "APPEND_ENTRIES_RESPONSE" /\ rpc.success
        /\ state[n] = "LEADER"
        /\ term[n] = rpc.term /\ term[m] = rpc.term
        => /\ rpc.newIndex <= Len(logs[m]) /\ rpc.newIndex <= Len(logs[n])
           /\ SubSeq(logs[m], 1, rpc.newIndex) = SubSeq(logs[n], 1, rpc.newIndex)

-----------------------------------------------------------------------------
(* The nodes as the rest of the system sees them, for which the bound of   *)
(* Cluster is void.                                                        *)
Nodes == INSTANCE Cluster
           WITH led <- {e.leader : e \in elections},
                MayStand <- [L \in SUBSET Node |-> Node]

(* Raft implements Cluster: whomever a node names as leader, to a client   *)
(* that asks, has won an election, whatever updates of deposed or crashed  *)
(* leaders were under way; roles and leaders change only as Cluster says,  *)
(* and a crashed node keeps both (cycle.cc:58-75, followerCycle.cc:53,     *)
(* leaderCycle.cc:24).                                                     *)
RefinesCluster == Nodes!ClusterSpec

-----------------------------------------------------------------------------
(* What makes the properties of the votes inductive (RaftHistoryProofs).   *)

(* A vote on record is one its voter is still bound by. *)
VotesBind ==
  \A v \in votes :
    /\ v \in Node \X Nat \X Node
    /\ \/ v[2] < term[v[1]]
       \/ v[2] = term[v[1]] /\ votedFor[v[1]] = v[3]

(* voteCount counts the candidate and the different nodes it heard from. *)
CountsDistinct ==
  \A n \in Node :
    state[n] = "CANDIDATE" =>
      /\ n \notin hasVotedForMe[n]
      /\ voteCount[n] = Cardinality(hasVotedForMe[n]) + 1

ElectionsOfNodes ==
  \A e \in elections : e.voters \subseteq Node /\ e.leader \in Node /\ e.term \in Nat
==============================================================================
