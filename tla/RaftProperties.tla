---------------------------- MODULE RaftProperties ----------------------------
(***************************************************************************)
(* What the servers of Raft.tla are supposed to guarantee, together and    *)
(* over time.  The properties of the votes need a record of the past and   *)
(* are in RaftHistory.                                                     *)
(***************************************************************************)
EXTENDS Raft

-----------------------------------------------------------------------------
(* The type of every variable (node.hh:101-137). *)
TypeOK ==
  /\ ChanOK(chan)
  /\ ReinjectedOK(reinjected)
  /\ state \in [Node -> {"FOLLOWER", "LEADER", "CANDIDATE"}]
  /\ term \in [Node -> Nat]
  /\ votedFor \in [Node -> Node \cup {Nil}]
  /\ leaderId \in [Node -> Node \cup {Nil}]
  /\ logs \in [Node -> Seq(Entry)]
  /\ matchIndex \in [Node -> [Node -> Index]]
  /\ nextIndex \in [Node -> [Node -> Int]]
  /\ commitIndex \in [Node -> Index]
  /\ crash \in [Node -> BOOLEAN]
  /\ voteCount \in [Node -> Nat]
  /\ hasVotedForMe \in [Node -> SUBSET Node]
  /\ file \in [Node -> Seq(Entry)]
  /\ aborted \in BOOLEAN

-----------------------------------------------------------------------------
(* The messages of m that n has not handled yet. *)
InFlight(m, n) == UnderWay(chan, reinjected, m, n)

(* What a step may do to the term and the vote of a node: raise the term,  *)
(* or keep both, or vote when it had not voted.                            *)
VoteKept(n) ==
  \/ term'[n] > term[n]
  \/ /\ term'[n] = term[n]
     /\ votedFor[n] # Nil => votedFor'[n] = votedFor[n]

(* A node never goes back to an older term, and within a term it never     *)
(* takes back or changes a vote, whatever it is told, in whatever state,   *)
(* and through any crash and recovery (node.hh:107-110).                   *)
OneVotePerTerm == [][\A n \in Node : VoteKept(n)]_vars

(* A granted vote on its way from m to n is a vote m is bound by: m has    *)
(* voted for n in that term, and is either still in it or beyond it        *)
(* (followerCycle.cc:72-91, against every way m can change its mind while  *)
(* the answer is under way).                                               *)
GrantBinding ==
  \A m, n \in Node : \A rpc \in InFlight(m, n) :
    rpc.type = "REQUEST_VOTE_RESPONSE" /\ rpc.voteGranted =>
      \/ term[m] > rpc.term
      \/ term[m] = rpc.term /\ votedFor[m] = n

-----------------------------------------------------------------------------
(* entries are those of consecutive positions, the first at position first *)
IndexedFrom(entries, first) ==
  \A i \in DOMAIN entries : entries[i].index = first + i - 1

(* Every entry of every log carries its own position, and what a leader    *)
(* sends continues the position it names: the assertion of                 *)
(* followerCycle.cc:39 cannot fail.                                        *)
EntriesIndexed ==
  /\ \A n \in Node : IndexedFrom(logs[n], 0)
  /\ \A m, n \in Node : \A rpc \in InFlight(m, n) :
       rpc.type = "APPEND_ENTRIES" /\ ~Throws(rpc) =>
         IndexedFrom(rpc.entries, rpc.prevLogIndex + 1)

(* The terms of a log never decrease, and none is beyond the term of its   *)
(* owner: logs.back().term, by which votes are granted (followerCycle.cc:  *)
(* 81-83), is the largest term of the log.                                 *)
LogTermsInOrder ==
  \A n \in Node :
    \A i \in DOMAIN logs[n] :
      /\ logs[n][i].term <= term[n]
      /\ \A j \in i .. Len(logs[n]) : logs[n][i].term <= logs[n][j].term

-----------------------------------------------------------------------------
(* What the documentation promises and the code does not keep.             *)

(* Consensus on a leader: at most one per term (README.md:8-9). *)
ElectionSafety ==
  \A m, n \in Node :
    state[m] = "LEADER" /\ state[n] = "LEADER" /\ term[m] = term[n] => m = n

(* commitIndex "increases monotonically" (node.hh:128-129). *)
CommitIndexMonotone == [][\A n \in Node : commitIndex'[n] >= commitIndex[n]]_vars

(* No node counts as committed what its log does not hold: the assertions  *)
(* of followerCycle.cc:61 and leaderCycle.cc:34.                           *)
CommitsWithinLog == \A n \in Node : commitIndex[n] < Len(logs[n])

(* nextIndex is the index of an entry (node.hh:122-124). *)
NextIndexIsAnIndex == \A m, n \in Node : nextIndex[m][n] >= 0

(* The files two nodes saved agree as far as both go: the test's criterion *)
(* for consensus on the log (tests/test.sh:65-78).                         *)
FilesAgree ==
  \A m, n \in Node :
    \A i \in DOMAIN file[m] \cap DOMAIN file[n] : file[m][i] = file[n][i]
==============================================================================
