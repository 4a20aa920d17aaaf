-------------------------- MODULE RaftHistoryProofs ---------------------------
(***************************************************************************)
(* Theorems about votes and elections, for every number of nodes and every *)
(* value of the bounds:                                                    *)
(*   VotesAreUnique         HistorySpec => []VotesUnique                   *)
(*   MajorityElects         HistorySpec => []ElectedByMajority             *)
(*   BackedElectionsSafe    HistorySpec => []BackedElectionsAgree          *)
(*   VotesWereCast          HistorySpec => []CountedVotesWereCast          *)
(*   RaftImplementsCluster  HistorySpec => RefinesCluster                  *)
(* The argument: a step keeps the votes of a term (OneVoteStep), so every  *)
(* vote on record still binds its voter (VotesBind), and nobody has voted  *)
(* twice in a term.  A candidate counts different nodes (CountsDistinct),  *)
(* so an election has a majority behind it, and two majorities share a     *)
(* node; when both elections are backed, that node voted for both winners. *)
(* A vote that is counted was on record when it was granted, and stays so  *)
(* while the answer is under way (GrantsOnRecord).                         *)
(*                                                                         *)
(* For the refinement, RoleStep sorts the steps of Raft by what they do to *)
(* roles, leaders and crashes.  A step of each sort is a step of Cluster,  *)
(* or none, because a leader has won and names itself (LeadersWon), and    *)
(* because only a node that has won sends updates (UpdatesFromLed).        *)
(***************************************************************************)
EXTENDS RaftHistory, RaftMessageProofs

(* A step of Raft with its record is a step of Raft. *)
LEMMA HistoryRefines == HistorySpec => Spec
<1>1. HistoryInit => Init
  BY DEF HistoryInit
<1>2. [HistoryNext]_<<vars, historyVars>> => [Next]_vars
  BY DEF HistoryNext
<1> QED BY <1>1, <1>2, PTL DEF HistorySpec, Spec

-----------------------------------------------------------------------------
(* Votes.                                                                  *)

(* The votes of a state are added to the record, and old ones still bind.  *)
LEMMA VotesStep ==
  ASSUME TypeOK, TypeOK', VotesBind, VotesUnique,
         [HistoryNext]_<<vars, historyVars>>
  PROVE  VotesBind' /\ VotesUnique'
<1> DEFINE cast == {<<n, term'[n], votedFor'[n]>> : n \in {k \in Node : votedFor'[k] # Nil}}
<1>1. /\ term \in [Node -> Nat] /\ term' \in [Node -> Nat]
      /\ votedFor \in [Node -> Node \cup {Nil}]
      /\ votedFor' \in [Node -> Node \cup {Nil}]
  BY DEF TypeOK
<1>2. CASE UNCHANGED <<vars, historyVars>>
  BY <1>2 DEF vars, historyVars, voteVars, VotesBind, VotesUnique
<1>3. CASE HistoryNext
  <2>1. votes' = votes \cup cast
    BY <1>3 DEF HistoryNext, Record
  <2>2. ASSUME NEW k \in Node PROVE VoteKept(k)
    BY <1>3, OneVoteStep DEF HistoryNext
  <2>3. ASSUME NEW v \in votes
        PROVE  /\ v \in Node \X Nat \X Node
               /\ \/ v[2] < term'[v[1]]
                  \/ v[2] = term'[v[1]] /\ votedFor'[v[1]] = v[3]
    <3>1. /\ v \in Node \X Nat \X Node
          /\ \/ v[2] < term[v[1]]
             \/ v[2] = term[v[1]] /\ votedFor[v[1]] = v[3]
      BY <2>3 DEF VotesBind
    <3>2. v[1] \in Node /\ v[2] \in Nat /\ v[3] \in Node /\ v[3] # Nil
      BY <3>1, NodeAssumption
    <3>3. VoteKept(v[1])
      BY <2>2, <3>2
    <3>4. term[v[1]] \in Nat /\ term'[v[1]] \in Nat
      BY <1>1, <3>2
    <3> QED BY <3>1, <3>2, <3>3, <3>4 DEF VoteKept
  <2>4. ASSUME NEW v \in cast
        PROVE  /\ v \in Node \X Nat \X Node
               /\ v[2] = term'[v[1]] /\ votedFor'[v[1]] = v[3]
    <3>1. PICK n \in Node : votedFor'[n] # Nil /\ v = <<n, term'[n], votedFor'[n]>>
      BY <2>4
    <3> QED BY <1>1, <3>1
  <2> HIDE DEF cast
  <2>5. VotesBind'
    BY <2>1, <2>3, <2>4 DEF VotesBind
  <2>6. ASSUME NEW v \in votes', NEW w \in votes', v[1] = w[1], v[2] = w[2]
        PROVE  v[3] = w[3]
    <3>1. CASE v \in votes /\ w \in votes
      BY <2>6, <3>1 DEF VotesUnique
    <3>2. ASSUME NEW x \in votes', NEW y \in cast, x[1] = y[1], x[2] = y[2]
          PROVE  x[3] = y[3]
      <4>1. y[2] = term'[y[1]] /\ votedFor'[y[1]] = y[3] /\ y[1] \in Node
        BY <2>4
      <4>2. term'[y[1]] \in Nat
        BY <1>1, <4>1
      <4>3. \/ x[2] < term'[x[1]]
            \/ x[2] = term'[x[1]] /\ votedFor'[x[1]] = x[3]
        BY <2>1, <2>3, <2>4
      <4> QED BY <3>2, <4>1, <4>2, <4>3
    <3> QED BY <2>1, <2>6, <3>1, <3>2
  <2> QED BY <2>5, <2>6 DEF VotesUnique
<1> QED BY <1>2, <1>3

LEMMA VotesInv == HistorySpec => [](VotesBind /\ VotesUnique)
<1>1. HistorySpec => []TypeOK
  BY HistoryRefines, TypeCorrect, PTL
<1>2. HistoryInit => VotesBind /\ VotesUnique
  BY DEF HistoryInit, VotesBind, VotesUnique
<1>3. TypeOK /\ TypeOK' /\ VotesBind /\ VotesUnique
        /\ [HistoryNext]_<<vars, historyVars>> => VotesBind' /\ VotesUnique'
  BY VotesStep
<1> QED BY <1>1, <1>2, <1>3, PTL DEF HistorySpec

(* VotesUnique: over a whole run no node votes for two candidates in one   *)
(* term (node.hh:107-110).                                                 *)
THEOREM VotesAreUnique == HistorySpec => []VotesUnique
<1> QED BY VotesInv, PTL

-----------------------------------------------------------------------------
(* Elections.                                                              *)

(* A step that leaves alone who counts what. *)
LEMMA CountsKept ==
  ASSUME CountsDistinct, UNCHANGED <<state, voteCount, hasVotedForMe>>
  PROVE  CountsDistinct'
BY DEF CountsDistinct

(* Votes are counted one by one, each from a node not counted before. *)
LEMMA CountsStep ==
  ASSUME TypeOK, CountsDistinct, [Next]_vars
  PROVE  CountsDistinct'
<1>1. /\ state \in [Node -> {"FOLLOWER", "LEADER", "CANDIDATE"}]
      /\ voteCount \in [Node -> Nat] /\ hasVotedForMe \in [Node -> SUBSET Node]
  BY DEF TypeOK
<1>2. ASSUME NEW n \in Node, StartCandidate(n, chan)
      PROVE  CountsDistinct'
  BY <1>1, <1>2, FS_EmptySet DEF StartCandidate, CountsDistinct
<1>3. ASSUME NEW n \in Node, NEW m \in Node, BecomeFollower(n, m)
      PROVE  CountsDistinct'
  BY <1>1, <1>3 DEF BecomeFollower, CountsDistinct
<1>4. ASSUME NEW n \in Node, FollowerTimeout(n) \/ CandidateTimeout(n) \/ LeaderTimeout(n)
      PROVE  CountsDistinct'
  <2>1. StartCandidate(n, chan) \/ UNCHANGED <<state, voteCount, hasVotedForMe>>
    BY <1>4 DEF FollowerTimeout, CandidateTimeout, LeaderTimeout, Abort, voteVars
  <2> QED BY <1>2, <2>1, CountsKept
<1>5. ASSUME NEW n \in Node, NEW m \in Node \ {n}, HandleNodeRequest(n, m)
      PROVE  CountsDistinct'
  <2>1. CASE CandidateTakesVote(n, m) /\ CandidateCountsVote(n, m)
    <3>1. /\ state[n] = "CANDIDATE" /\ m \notin hasVotedForMe[n]
          /\ hasVotedForMe' = [hasVotedForMe EXCEPT ![n] = @ \cup {m}]
          /\ voteCount' = [voteCount EXCEPT ![n] = @ + 1]
          /\ state' = state
      BY <2>1 DEF CandidateTakesVote, CandidateCountsVote, Receives, CountsVote
    <3>2. /\ Cardinality(hasVotedForMe[n] \cup {m}) = Cardinality(hasVotedForMe[n]) + 1
          /\ voteCount[n] = Cardinality(hasVotedForMe[n]) + 1
          /\ n \notin hasVotedForMe[n]
      <4>1. IsFiniteSet(hasVotedForMe[n])
        BY <1>1, NodeAssumption, FS_Subset
      <4> QED BY <3>1, <4>1, FS_AddElement DEF CountsDistinct
    <3> QED BY <1>1, <3>1, <3>2 DEF CountsDistinct
  <2>2. CASE CandidateTakesVote(n, m) /\ CandidateIsElected(n, m)
    BY <1>1, <2>2 DEF CandidateTakesVote, CandidateIsElected, CountsDistinct
  <2>3. CASE StepDown(n, m) \/ CandidateMeetsLeader(n, m)
    BY <1>3, <2>3 DEF StepDown, CandidateMeetsLeader
  <2>4. CASE \/ FollowerRequestVote(n, m) \/ FollowerRejectsStaleLeader(n, m)
             \/ FollowerRejectsGap(n, m) \/ FollowerAppends(n, m)
             \/ FollowerAborts(n, m) \/ FollowerIgnores(n, m)
             \/ CandidateIgnores(n, m) \/ LeaderAppendSucceeded(n, m)
             \/ LeaderAppendFailed(n, m) \/ LeaderAborts(n, m)
             \/ LeaderIgnores(n, m) \/ CrashLoopDrops(n, m)
    <3>1. UNCHANGED <<state, voteCount, hasVotedForMe>>
      BY <2>4 DEF FollowerRequestVote, FollowerRejectsStaleLeader,
         FollowerRejectsGap, FollowerAppends, FollowerAborts, FollowerIgnores,
         CandidateIgnores, LeaderAppendSucceeded, LeaderAppendFailed,
         LeaderAborts, LeaderIgnores, CrashLoopDrops, Abort, voteVars
    <3> QED BY <3>1, CountsKept
  <2> QED BY <1>5, <2>1, <2>2, <2>3, <2>4 DEF HandleNodeRequest, CandidateTakesVote
<1>6. ASSUME NEW n \in Node, NEW c \in Client, NEW cmd \in Cmd,
             LeaderAppendsCommand(n, c, cmd)
      PROVE  CountsDistinct'
  BY <1>6, CountsKept DEF LeaderAppendsCommand, voteVars
<1>7. ASSUME NEW n \in CrashTargets, Crash(n) \/ Recover(n) \/ RecoverAborts(n)
      PROVE  CountsDistinct'
  <2>1. n \in Node
    BY CrashAssumption
  <2>2. StartCandidate(n, chan) \/ UNCHANGED <<state, voteCount, hasVotedForMe>>
    BY <1>7 DEF Crash, Recover, RecoverAborts, Abort, voteVars
  <2> QED BY <1>2, <2>1, <2>2, CountsKept
<1>8. CASE UNCHANGED vars
  BY <1>8, CountsKept DEF vars, voteVars
<1> QED BY <1>4, <1>5, <1>6, <1>7, <1>8 DEF Next

(* Only CandidateIsElected makes a leader. *)
LEMMA ElectedStep ==
  ASSUME TypeOK, Next, NEW k \in Node, state'[k] = "LEADER", state[k] # "LEADER"
  PROVE  \E m \in Node \ {k} : CandidateTakesVote(k, m) /\ CandidateIsElected(k, m)
<1>1. state \in [Node -> {"FOLLOWER", "LEADER", "CANDIDATE"}]
  BY DEF TypeOK
<1>2. CASE state' = state
  BY <1>2
<1>3. ASSUME NEW n \in Node, StartCandidate(n, chan)
      PROVE  FALSE
  BY <1>1, <1>3 DEF StartCandidate
<1>4. ASSUME NEW n \in Node, NEW m \in Node, BecomeFollower(n, m)
      PROVE  FALSE
  BY <1>1, <1>4 DEF BecomeFollower
<1>5. ASSUME NEW n \in Node, FollowerTimeout(n) \/ CandidateTimeout(n) \/ LeaderTimeout(n)
      PROVE  FALSE
  <2>1. StartCandidate(n, chan) \/ state' = state
    BY <1>5 DEF FollowerTimeout, CandidateTimeout, LeaderTimeout, Abort, voteVars
  <2> QED BY <1>3, <2>1
<1>6. ASSUME NEW n \in Node, NEW m \in Node \ {n}, HandleNodeRequest(n, m)
      PROVE  CandidateTakesVote(n, m) /\ CandidateIsElected(n, m) /\ n = k
  <2>1. CASE CandidateTakesVote(n, m) /\ CandidateIsElected(n, m)
    BY <1>1, <2>1 DEF CandidateTakesVote, CandidateIsElected
  <2>2. CASE StepDown(n, m) \/ CandidateMeetsLeader(n, m)
    BY <1>4, <2>2 DEF StepDown, CandidateMeetsLeader
  <2>3. CASE \/ FollowerRequestVote(n, m) \/ FollowerRejectsStaleLeader(n, m)
             \/ FollowerRejectsGap(n, m) \/ FollowerAppends(n, m)
             \/ FollowerAborts(n, m) \/ FollowerIgnores(n, m)
             \/ (CandidateTakesVote(n, m) /\ CandidateCountsVote(n, m))
             \/ CandidateIgnores(n, m) \/ LeaderAppendSucceeded(n, m)
             \/ LeaderAppendFailed(n, m) \/ LeaderAborts(n, m)
             \/ LeaderIgnores(n, m) \/ CrashLoopDrops(n, m)
    <3>1. state' = state
      BY <2>3 DEF FollowerRequestVote, FollowerRejectsStaleLeader,
         FollowerRejectsGap, FollowerAppends, FollowerAborts, FollowerIgnores,
         CandidateCountsVote, CandidateIgnores, LeaderAppendSucceeded,
         LeaderAppendFailed, LeaderAborts, LeaderIgnores, CrashLoopDrops, Abort,
         voteVars
    <3> QED BY <3>1
  <2> QED BY <1>6, <2>1, <2>2, <2>3 DEF HandleNodeRequest, CandidateTakesVote
<1>7. ASSUME NEW n \in Node, NEW c \in Client, NEW cmd \in Cmd,
             LeaderAppendsCommand(n, c, cmd)
      PROVE  FALSE
  BY <1>7 DEF LeaderAppendsCommand, voteVars
<1>8. ASSUME NEW n \in CrashTargets, Crash(n) \/ Recover(n) \/ RecoverAborts(n)
      PROVE  FALSE
  <2>1. n \in Node
    BY CrashAssumption
  <2>2. StartCandidate(n, chan) \/ state' = state
    BY <1>8 DEF Crash, Recover, RecoverAborts, Abort, voteVars
  <2> QED BY <1>3, <2>1, <2>2
<1> QED BY <1>5, <1>6, <1>7, <1>8 DEF Next

(* An election adds a majority to the record. *)
LEMMA ElectionsStep ==
  ASSUME TypeOK, TypeOK', CountsDistinct, ElectionsOfNodes, ElectedByMajority,
         [HistoryNext]_<<vars, historyVars>>
  PROVE  ElectionsOfNodes' /\ ElectedByMajority'
<1> DEFINE elected(n) == [term |-> term'[n], leader |-> n,
                          voters |-> hasVotedForMe'[n] \cup {n}]
<1>1. CASE UNCHANGED <<vars, historyVars>>
  BY <1>1 DEF historyVars, ElectionsOfNodes, ElectedByMajority, IsMajority, nb_node
<1>2. CASE HistoryNext
  <2>1. elections' = elections \cup
          {elected(n) : n \in {k \in Node : state'[k] = "LEADER" /\ state[k] # "LEADER"}}
    BY <1>2 DEF HistoryNext, Record
  <2>2. ASSUME NEW k \in Node, state'[k] = "LEADER", state[k] # "LEADER"
        PROVE  /\ elected(k).voters \subseteq Node /\ elected(k).leader \in Node
               /\ elected(k).term \in Nat
               /\ IsMajority(Cardinality(elected(k).voters))
    <3>1. PICK m \in Node \ {k} : CandidateTakesVote(k, m) /\ CandidateIsElected(k, m)
      BY <1>2, <2>2, ElectedStep DEF HistoryNext
    <3> DEFINE heard == hasVotedForMe[k]
    <3>2. /\ hasVotedForMe \in [Node -> SUBSET Node] /\ heard \in SUBSET Node
          /\ term'[k] \in Nat
      BY DEF TypeOK
    <3>3. /\ m \notin heard /\ state[k] = "CANDIDATE"
          /\ hasVotedForMe'[k] = heard \cup {m}
          /\ IsMajority(voteCount[k] + 1)
      BY <3>1, <3>2 DEF CandidateTakesVote, CandidateIsElected, CountsVote, Receives
    <3>4. k \notin heard /\ voteCount[k] = Cardinality(heard) + 1
      BY <3>3 DEF CountsDistinct
    <3>5. IsFiniteSet(heard)
      BY <3>2, NodeAssumption, FS_Subset
    <3> HIDE DEF heard
    <3>6. IsFiniteSet(heard \cup {m}) /\ Cardinality(heard \cup {m}) = Cardinality(heard) + 1
      BY <3>3, <3>5, FS_AddElement
    <3>7. k \notin heard \cup {m}
      BY <3>1, <3>4
    <3>8. Cardinality((heard \cup {m}) \cup {k}) = Cardinality(heard) + 1 + 1
      BY <3>6, <3>7, FS_AddElement
    <3>9. elected(k).voters = (heard \cup {m}) \cup {k}
      BY <3>3
    <3> QED BY <3>2, <3>3, <3>4, <3>8, <3>9
  <2>3. ASSUME NEW e \in elections'
        PROVE  /\ e.voters \subseteq Node /\ e.leader \in Node /\ e.term \in Nat
               /\ IsMajority(Cardinality(e.voters))
    <3>1. CASE e \in elections
      BY <3>1 DEF ElectionsOfNodes, ElectedByMajority
    <3>2. CASE e \notin elections
      <4>1. PICK k \in Node : state'[k] = "LEADER" /\ state[k] # "LEADER" /\ e = elected(k)
        BY <2>1, <2>3, <3>2
      <4> HIDE DEF elected
      <4> QED BY <2>2, <4>1
    <3> QED BY <3>1, <3>2
  <2> QED BY <2>3 DEF ElectionsOfNodes, ElectedByMajority, IsMajority, nb_node
<1> QED BY <1>1, <1>2

(* What the elections of every reachable state have behind them. *)
LEMMA ElectionsInv ==
  HistorySpec => [](ElectionsOfNodes /\ ElectedByMajority)
<1>1. HistorySpec => []TypeOK
  BY HistoryRefines, TypeCorrect, PTL
<1>2. HistoryInit => CountsDistinct /\ ElectionsOfNodes /\ ElectedByMajority
  BY DEF HistoryInit, Init, CountsDistinct, ElectionsOfNodes, ElectedByMajority
<1>3. TypeOK /\ TypeOK' /\ CountsDistinct /\ ElectionsOfNodes /\ ElectedByMajority
        /\ [HistoryNext]_<<vars, historyVars>>
        => CountsDistinct' /\ ElectionsOfNodes' /\ ElectedByMajority'
  <2>1. [HistoryNext]_<<vars, historyVars>> => [Next]_vars
    BY DEF HistoryNext
  <2> QED BY <2>1, CountsStep, ElectionsStep
<1> QED BY <1>1, <1>2, <1>3, PTL DEF HistorySpec

(* ElectedByMajority: no vote is counted twice, and the candidate's own    *)
(* never comes in a message (candidateCycle.cc:31-36).                     *)
THEOREM MajorityElects == HistorySpec => []ElectedByMajority
<1> QED BY ElectionsInv, PTL

(* Two backed elections of one term share a voter, who voted for both. *)
LEMMA BackedElections ==
  ASSUME VotesUnique, ElectionsOfNodes, ElectedByMajority
  PROVE  BackedElectionsAgree
<1> SUFFICES ASSUME NEW e \in elections, NEW f \in elections,
                    Backed(e), Backed(f), e.term = f.term
             PROVE  e.leader = f.leader
  BY DEF BackedElectionsAgree
<1>1. /\ e.voters \subseteq Node /\ f.voters \subseteq Node
  BY DEF ElectionsOfNodes
<1>2. /\ Cardinality(e.voters) > nb_node \div 2
      /\ Cardinality(f.voters) > nb_node \div 2
  BY DEF ElectedByMajority, IsMajority
<1>3. /\ Cardinality(e.voters) \in Nat /\ Cardinality(f.voters) \in Nat
      /\ nb_node \in Nat
  BY <1>1, NodeAssumption, FS_Subset, FS_CardinalityType DEF nb_node
<1>4. Cardinality(e.voters) + Cardinality(f.voters) > Cardinality(Node)
  BY <1>2, <1>3 DEF nb_node
<1>5. PICK v \in e.voters \cap f.voters : TRUE
  BY <1>1, <1>4, NodeAssumption, FS_MajoritiesIntersect
<1>6. <<v, e.term, e.leader>> \in votes /\ <<v, f.term, f.leader>> \in votes
  BY <1>5 DEF Backed
<1> QED BY <1>6 DEF VotesUnique

(* BackedElectionsAgree: leaders are unique in every term in which the     *)
(* winners counted votes of that term only.                                *)
THEOREM BackedElectionsSafe == HistorySpec => []BackedElectionsAgree
<1> QED BY VotesAreUnique, ElectionsInv, BackedElections, PTL

-----------------------------------------------------------------------------
(* The votes a candidate counts.                                           *)

(* Nobody asks for votes in term 0. *)
RequestsOfTerms ==
  \A a, b \in Node : \A x \in InFlight(a, b) :
    x.type = "REQUEST_VOTE" => x.term > 0

(* A granted vote under way is on record. *)
GrantsOnRecord ==
  \A a, b \in Node : \A x \in InFlight(a, b) :
    x.type = "REQUEST_VOTE_RESPONSE" /\ x.voteGranted =>
      x.term > 0 /\ <<a, x.term, b>> \in votes

LEMMA RequestsStep ==
  ASSUME TypeOK, RequestsOfTerms, [Next]_vars
  PROVE  RequestsOfTerms'
<1> SUFFICES ASSUME NEW a \in Node, NEW b \in Node, NEW x \in InFlight(a, b)',
                    x.type = "REQUEST_VOTE"
             PROVE  x.term > 0
  BY DEF RequestsOfTerms
<1>1. x \in InFlight(a, b) \/ Sends(a, b, x)
  BY StepSends
<1>2. CASE x \in InFlight(a, b)
  BY <1>2 DEF RequestsOfTerms
<1>3. CASE Sends(a, b, x)
  <2>1. ASSUME NEW next, x = Update(a, logs[a], next, commitIndex[a])
        PROVE  FALSE
    <3>1. x.type = "APPEND_ENTRIES"
      BY <2>1 DEF Update, AppendEntries
    <3> QED BY <3>1
  <2> QED BY <1>3, <2>1 DEF Sends, RequestVoteResponse
<1> QED BY <1>1, <1>2, <1>3

(* A vote is put on record in the step that grants it. *)
LEMMA GrantsStep ==
  ASSUME TypeOK, RequestsOfTerms, GrantsOnRecord,
         [HistoryNext]_<<vars, historyVars>>
  PROVE  GrantsOnRecord'
<1>1. CASE UNCHANGED <<vars, historyVars>>
  BY <1>1 DEF vars, mailboxVars, historyVars, GrantsOnRecord, InFlight, UnderWay
<1>2. CASE HistoryNext
  <2> SUFFICES ASSUME NEW a \in Node, NEW b \in Node, NEW x \in InFlight(a, b)',
                      x.type = "REQUEST_VOTE_RESPONSE", x.voteGranted
               PROVE  x.term > 0 /\ <<a, x.term, b>> \in votes'
    BY DEF GrantsOnRecord
  <2>1. /\ votes \subseteq votes'
        /\ votedFor'[a] # Nil => <<a, term'[a], votedFor'[a]>> \in votes'
    BY <1>2 DEF HistoryNext, Record
  <2>2. x \in InFlight(a, b) \/ Sends(a, b, x)
    BY <1>2, StepSends DEF HistoryNext
  <2>3. CASE x \in InFlight(a, b)
    BY <2>1, <2>3 DEF GrantsOnRecord
  <2>4. CASE Sends(a, b, x)
    <3> DEFINE rpc == NextRpc(a, b)
    <3>1. /\ FollowerRequestVote(a, b)
          /\ x = RequestVoteResponse(TermAfter(a, rpc), GrantsVote(a, b, rpc))
      <4>1. ASSUME NEW next, x = Update(a, logs[a], next, commitIndex[a])
            PROVE  FALSE
        <5>1. x.type = "APPEND_ENTRIES"
          BY <4>1 DEF Update, AppendEntries
        <5> QED BY <5>1
      <4> QED BY <2>4, <4>1 DEF Sends
    <3>2. x.term = TermAfter(a, rpc) /\ GrantsVote(a, b, rpc)
      BY <3>1 DEF RequestVoteResponse
    <3>3. term'[a] = x.term /\ votedFor'[a] = b
      BY <3>1, <3>2, GrantBinds
    <3>4. Receives(a, b, "FOLLOWER", {"REQUEST_VOTE"})
      BY <3>1 DEF FollowerRequestVote
    <3>5. rpc \in NodeRpc /\ rpc.type = "REQUEST_VOTE" /\ rpc \in InFlight(b, a)
      BY <3>4, ReceiptType, NextRpcUnderWay DEF TypeOK, Receives, InFlight
    <3> HIDE DEF rpc
    <3>6. rpc.term > 0 /\ rpc.term \in Nat
      BY <3>5, NodeRpcFields DEF RequestsOfTerms
    <3>7. term[a] \in Nat
      BY DEF TypeOK
    <3>8. TermAfter(a, rpc) > 0
      BY <3>6, <3>7 DEF TermAfter
    <3>9. b # Nil
      BY NodeAssumption
    <3> QED BY <2>1, <3>2, <3>3, <3>8, <3>9
  <2> QED BY <2>2, <2>3, <2>4
<1> QED BY <1>1, <1>2

(* A candidate counts a vote it receives, and none of a later term. *)
LEMMA VotesCounted ==
  ASSUME TypeOK, [Next]_vars, NEW k \in Node, NEW v \in hasVotedForMe'[k]
  PROVE  \/ v \in hasVotedForMe[k]
         \/ \E x \in InFlight(v, k) :
              /\ x.type = "REQUEST_VOTE_RESPONSE" /\ x.voteGranted
              /\ x.term <= term[k]
<1>1. hasVotedForMe \in [Node -> SUBSET Node]
  BY DEF TypeOK
<1>2. CASE UNCHANGED hasVotedForMe
  BY <1>2
<1>3. ASSUME NEW n \in Node, hasVotedForMe' = [hasVotedForMe EXCEPT ![n] = {}]
      PROVE  v \in hasVotedForMe[k]
  BY <1>1, <1>3
<1>4. ASSUME NEW n \in Node,
             FollowerTimeout(n) \/ CandidateTimeout(n) \/ LeaderTimeout(n)
      PROVE  v \in hasVotedForMe[k]
  <2>1. \/ hasVotedForMe' = [hasVotedForMe EXCEPT ![n] = {}]
        \/ UNCHANGED hasVotedForMe
    BY <1>4 DEF FollowerTimeout, CandidateTimeout, LeaderTimeout, Abort,
                StartCandidate, voteVars
  <2> QED BY <1>2, <1>3, <2>1
<1>5. ASSUME NEW n \in Node, NEW m \in Node \ {n}, HandleNodeRequest(n, m)
      PROVE  \/ v \in hasVotedForMe[k]
             \/ \E x \in InFlight(v, k) :
                  /\ x.type = "REQUEST_VOTE_RESPONSE" /\ x.voteGranted
                  /\ x.term <= term[k]
  <2>1. CASE CandidateTakesVote(n, m)
    <3>1. /\ CanReceive(n, m) /\ CountsVote(n, m)
          /\ hasVotedForMe' = [hasVotedForMe EXCEPT ![n] = @ \cup {m}]
      BY <2>1 DEF CandidateTakesVote, Receives
    <3>2. NextRpc(n, m) \in InFlight(m, n)
      BY <3>1, NextRpcUnderWay DEF TypeOK, InFlight
    <3>3. v \in hasVotedForMe[k] \/ (k = n /\ v = m)
      BY <1>1, <3>1
    <3> QED BY <3>1, <3>2, <3>3 DEF CountsVote
  <2>2. CASE StepDown(n, m) \/ CandidateMeetsLeader(n, m)
    <3>1. hasVotedForMe' = [hasVotedForMe EXCEPT ![n] = {}]
      BY <2>2 DEF StepDown, CandidateMeetsLeader, BecomeFollower
    <3> QED BY <1>3, <3>1
  <2>3. CASE ~(\/ CandidateTakesVote(n, m)
               \/ StepDown(n, m) \/ CandidateMeetsLeader(n, m))
    <3>1. UNCHANGED hasVotedForMe
      BY <1>5, <2>3 DEF HandleNodeRequest, FollowerRequestVote,
         FollowerRejectsStaleLeader, FollowerRejectsGap, FollowerAppends,
         FollowerAborts, FollowerIgnores, CandidateIgnores, LeaderAppendSucceeded,
         LeaderAppendFailed, LeaderAborts, LeaderIgnores, CrashLoopDrops, Abort,
         voteVars
    <3> QED BY <1>2, <3>1
  <2> QED BY <2>1, <2>2, <2>3
<1>6. ASSUME NEW n \in Node, NEW c \in Client, NEW cmd \in Cmd,
             LeaderAppendsCommand(n, c, cmd)
      PROVE  v \in hasVotedForMe[k]
  BY <1>2, <1>6 DEF LeaderAppendsCommand, voteVars
<1>7. ASSUME NEW n \in CrashTargets, Crash(n) \/ Recover(n) \/ RecoverAborts(n)
      PROVE  v \in hasVotedForMe[k]
  <2>1. n \in Node
    BY CrashAssumption
  <2>2. \/ hasVotedForMe' = [hasVotedForMe EXCEPT ![n] = {}]
        \/ UNCHANGED hasVotedForMe
    BY <1>7 DEF Crash, Recover, RecoverAborts, Abort, StartCandidate, voteVars
  <2> QED BY <1>2, <1>3, <2>1, <2>2
<1>8. CASE UNCHANGED vars
  BY <1>2, <1>8 DEF vars, voteVars
<1> QED BY <1>4, <1>5, <1>6, <1>7, <1>8 DEF Next

LEMMA CountedStep ==
  ASSUME TypeOK, TypeOK', GrantsOnRecord, CountedVotesWereCast,
         [HistoryNext]_<<vars, historyVars>>
  PROVE  CountedVotesWereCast'
<1>1. CASE UNCHANGED <<vars, historyVars>>
  BY <1>1 DEF vars, voteVars, historyVars, CountedVotesWereCast
<1>2. CASE HistoryNext
  <2>1. ASSUME NEW k \in Node, NEW v \in hasVotedForMe'[k]
        PROVE  \E t \in 1 .. term'[k] : <<v, t, k>> \in votes'
    <3>1. term[k] \in Nat /\ term'[k] \in Nat /\ term[k] <= term'[k]
      <4>1. term[k] \in Nat
        BY DEF TypeOK
      <4>2. term'[k] \in Nat
        BY DEF TypeOK
      <4>3. VoteKept(k)
        BY <1>2, OneVoteStep DEF HistoryNext
      <4> QED BY <4>1, <4>2, <4>3 DEF VoteKept
    <3>2. v \in Node
      <4>1. hasVotedForMe' \in [Node -> SUBSET Node]
        BY DEF TypeOK
      <4> QED BY <2>1, <4>1
    <3>3. votes \subseteq votes'
      BY <1>2 DEF HistoryNext, Record
    <3>4. \E t \in 1 .. term[k] : <<v, t, k>> \in votes
      <4>1. CASE v \in hasVotedForMe[k]
        BY <4>1 DEF CountedVotesWereCast
      <4>2. ASSUME NEW x \in InFlight(v, k), x.type = "REQUEST_VOTE_RESPONSE",
                   x.voteGranted, x.term <= term[k]
            PROVE  \E t \in 1 .. term[k] : <<v, t, k>> \in votes
        <5>1. x \in NodeRpc
          BY <3>2, UnderWayType DEF TypeOK, InFlight
        <5>2. x.term \in Nat
          BY <5>1, NodeRpcFields
        <5>3. x.term > 0 /\ <<v, x.term, k>> \in votes
          BY <3>2, <4>2 DEF GrantsOnRecord
        <5>4. x.term \in 1 .. term[k]
          BY <3>1, <4>2, <5>2, <5>3
        <5> QED BY <5>3, <5>4
      <4> QED BY <1>2, <2>1, <4>1, <4>2, VotesCounted DEF HistoryNext
    <3>5. 1 .. term[k] \subseteq 1 .. term'[k]
      BY <3>1
    <3> QED BY <3>3, <3>4, <3>5
  <2> QED BY <2>1 DEF CountedVotesWereCast
<1> QED BY <1>1, <1>2

(* CountedVotesWereCast: whatever is delayed, reordered among senders or   *)
(* put back, a candidate counts only votes that were cast for it           *)
(* (candidateCycle.cc:27-40).                                              *)
THEOREM VotesWereCast == HistorySpec => []CountedVotesWereCast
<1>1. HistorySpec => []TypeOK
  BY HistoryRefines, TypeCorrect, PTL
<1>2. HistoryInit => RequestsOfTerms /\ GrantsOnRecord /\ CountedVotesWereCast
  BY DEF HistoryInit, Init, MailboxInit, RequestsOfTerms, GrantsOnRecord,
         CountedVotesWereCast, InFlight, UnderWay
<1>3. TypeOK /\ TypeOK' /\ RequestsOfTerms /\ GrantsOnRecord /\ CountedVotesWereCast
        /\ [HistoryNext]_<<vars, historyVars>>
        => RequestsOfTerms' /\ GrantsOnRecord' /\ CountedVotesWereCast'
  <2>1. [HistoryNext]_<<vars, historyVars>> => [Next]_vars
    BY DEF HistoryNext
  <2> QED BY <2>1, RequestsStep, GrantsStep, CountedStep
<1> QED BY <1>1, <1>2, <1>3, PTL DEF HistorySpec

-----------------------------------------------------------------------------
(* Raft implements Cluster.                                                *)

(* The nodes that have won an election. *)
Led == {e.leader : e \in elections}

LeadersWon ==
  \A n \in Node : state[n] = "LEADER" => n \in Led /\ leaderId[n] = n

UpdatesFromLed ==
  \A m, n \in Node : \A rpc \in InFlight(m, n) :
    rpc.type = "APPEND_ENTRIES" => m \in Led

Newly == {k \in Node : state'[k] = "LEADER" /\ state[k] # "LEADER"}

(* The sorts of steps. *)
StandsUp(n) ==
  /\ ~crash[n] /\ state[n] = "FOLLOWER"
  /\ state' = [state EXCEPT ![n] = "CANDIDATE"]
  /\ UNCHANGED <<leaderId, crash>>

Wins(n) ==
  /\ ~crash[n] /\ state[n] = "CANDIDATE"
  /\ state' = [state EXCEPT ![n] = "LEADER"]
  /\ leaderId' = [leaderId EXCEPT ![n] = n]
  /\ UNCHANGED crash

GivesWay(n) ==
  /\ ~crash[n] /\ state[n] # "FOLLOWER"
  /\ state' = [state EXCEPT ![n] = "FOLLOWER"]
  /\ UNCHANGED <<leaderId, crash>>

HearsFrom(n, m) ==
  /\ ~crash[n] /\ state[n] = "FOLLOWER"
  /\ leaderId' = [leaderId EXCEPT ![n] = m]
  /\ UNCHANGED <<state, crash>>
  /\ \E rpc \in InFlight(m, n) : rpc.type = "APPEND_ENTRIES"

GoesDown(n, down) ==
  /\ crash[n] = ~down
  /\ crash' = [crash EXCEPT ![n] = down]
  /\ UNCHANGED <<state, leaderId>>

Quiet == UNCHANGED <<state, leaderId, crash>>

-----------------------------------------------------------------------------
(* A leader that begins a cycle names itself, as it did before. *)
LEMMA LeaderNamesItself ==
  ASSUME TypeOK, LeadersWon, NEW n \in Node, state[n] = "LEADER",
         NEW net, NEW next, LeaderPreCycle(n, net, next)
  PROVE  leaderId' = leaderId
<1>1. leaderId' = [leaderId EXCEPT ![n] = n]
  BY DEF LeaderPreCycle
<1>2. leaderId \in [Node -> Node \cup {Nil}]
  BY DEF TypeOK
<1>3. leaderId[n] = n
  BY DEF LeadersWon
<1> QED BY <1>1, <1>2, <1>3

(* What a message of m may do to the role of n. *)
LEMMA HandlerRole ==
  ASSUME TypeOK, LeadersWon, NEW n \in Node, NEW m \in Node \ {n},
         HandleNodeRequest(n, m)
  PROVE  Quiet \/ Wins(n) \/ GivesWay(n) \/ HearsFrom(n, m)
<1>1. CASE \/ FollowerRequestVote(n, m) \/ FollowerRejectsStaleLeader(n, m)
           \/ FollowerAborts(n, m) \/ FollowerIgnores(n, m)
           \/ (CandidateTakesVote(n, m) /\ CandidateCountsVote(n, m)) \/ CandidateIgnores(n, m)
           \/ LeaderAppendSucceeded(n, m) \/ LeaderAppendFailed(n, m)
           \/ LeaderAborts(n, m) \/ LeaderIgnores(n, m) \/ CrashLoopDrops(n, m)
  BY <1>1 DEF FollowerRequestVote, FollowerRejectsStaleLeader, FollowerAborts,
     FollowerIgnores, CandidateTakesVote, CandidateCountsVote, CandidateIgnores,
     LeaderAppendSucceeded, LeaderAppendFailed, LeaderAborts, LeaderIgnores,
     CrashLoopDrops, Abort, voteVars, Quiet
<1>2. CASE FollowerRejectsGap(n, m) \/ FollowerAppends(n, m)
  <2>1. /\ Receives(n, m, "FOLLOWER", {"APPEND_ENTRIES"})
        /\ leaderId' = [leaderId EXCEPT ![n] = m]
        /\ UNCHANGED <<state, crash>>
    BY <1>2 DEF FollowerRejectsGap, FollowerAppends
  <2>2. NextRpc(n, m) \in InFlight(m, n)
    BY <2>1, NextRpcUnderWay DEF TypeOK, Receives, InFlight
  <2> QED BY <2>1, <2>2 DEF Receives, Running, HearsFrom
<1>3. CASE StepDown(n, m) \/ CandidateMeetsLeader(n, m)
  BY <1>3 DEF StepDown, CandidateMeetsLeader, BecomeFollower, Receives, Running,
     GivesWay
<1>4. CASE CandidateTakesVote(n, m) /\ CandidateIsElected(n, m)
  BY <1>4 DEF CandidateTakesVote, CandidateIsElected, LeaderPreCycle, Receives,
     Running, Wins
<1> QED BY <1>1, <1>2, <1>3, <1>4 DEF HandleNodeRequest, CandidateTakesVote

(* What any step may do to the roles. *)
LEMMA RoleStep ==
  ASSUME TypeOK, LeadersWon, [Next]_vars
  PROVE  \/ Quiet
         \/ \E n \in Node : \/ StandsUp(n) \/ Wins(n) \/ GivesWay(n)
                            \/ \E m \in Node \ {n} : HearsFrom(n, m)
                            \/ \E down \in BOOLEAN : GoesDown(n, down)
<1>1. state \in [Node -> {"FOLLOWER", "LEADER", "CANDIDATE"}]
      /\ crash \in [Node -> BOOLEAN]
  BY DEF TypeOK
<1>2. ASSUME NEW n \in Node, FollowerTimeout(n) \/ CandidateTimeout(n) \/ LeaderTimeout(n)
      PROVE  Quiet \/ StandsUp(n)
  <2>1. CASE FollowerTimeout(n)
    BY <2>1 DEF FollowerTimeout, StartCandidate, Running, StandsUp
  <2>2. CASE CandidateTimeout(n)
    BY <1>1, <2>2 DEF CandidateTimeout, StartCandidate, Quiet
  <2>3. CASE LeaderTimeout(n)
    BY <2>3, LeaderNamesItself DEF LeaderTimeout, Abort, voteVars, Quiet
  <2> QED BY <1>2, <2>1, <2>2, <2>3
<1>3. ASSUME NEW n \in CrashTargets, Crash(n) \/ Recover(n) \/ RecoverAborts(n)
      PROVE  n \in Node /\ (Quiet \/ \E down \in BOOLEAN : GoesDown(n, down))
  <2>1. n \in Node
    BY CrashAssumption
  <2>2. CASE Crash(n)
    <3>1. GoesDown(n, TRUE)
      BY <1>1, <2>1, <2>2 DEF Crash, Running, voteVars, GoesDown
    <3> QED BY <2>1, <3>1
  <2>3. CASE Recover(n)
    <3>1. UNCHANGED <<state, leaderId>>
      <4>1. CASE state[n] = "FOLLOWER"
        BY <2>3, <4>1 DEF Recover, voteVars
      <4>2. CASE state[n] = "CANDIDATE"
        BY <1>1, <2>1, <2>3, <4>2 DEF Recover, StartCandidate
      <4>3. CASE state[n] = "LEADER"
        BY <2>1, <2>3, <4>3, LeaderNamesItself DEF Recover, voteVars
      <4> QED BY <1>1, <2>1, <4>1, <4>2, <4>3
    <3>2. GoesDown(n, FALSE)
      BY <1>1, <2>1, <2>3, <3>1 DEF Recover, GoesDown
    <3> QED BY <2>1, <3>2
  <2>4. CASE RecoverAborts(n)
    BY <2>1, <2>4 DEF RecoverAborts, Abort, voteVars, Quiet
  <2> QED BY <1>3, <2>2, <2>3, <2>4
<1>4. ASSUME NEW n \in Node, NEW c \in Client, NEW cmd \in Cmd,
             LeaderAppendsCommand(n, c, cmd)
      PROVE  Quiet
  BY <1>4 DEF LeaderAppendsCommand, voteVars, Quiet
<1>5. CASE UNCHANGED vars
  BY <1>5 DEF vars, voteVars, Quiet
<1> QED BY <1>2, <1>3, <1>4, <1>5, HandlerRole DEF Next

-----------------------------------------------------------------------------
(* The nodes that have won are those that had, and those that just did. *)
LEMMA LedGrows ==
  ASSUME [HistoryNext]_<<vars, historyVars>>
  PROVE  Led' = Led \cup Newly
<1>1. CASE UNCHANGED <<vars, historyVars>>
  <2>1. Led' = Led /\ Newly = {}
    BY <1>1 DEF vars, voteVars, historyVars, Led, Newly
  <2> QED BY <2>1
<1>2. CASE HistoryNext
  <2> DEFINE won(n) == [term |-> term'[n], leader |-> n, voters |-> hasVotedForMe'[n] \cup {n}]
  <2>1. elections' = elections \cup {won(n) : n \in Newly}
    BY <1>2 DEF HistoryNext, Record, Newly
  <2>2. \A n : won(n).leader = n
    OBVIOUS
  <2> HIDE DEF won
  <2> QED BY <2>1, <2>2 DEF Led
<1> QED BY <1>1, <1>2

(* LeadersWon and UpdatesFromLed are kept together. *)
LEMMA LedStep ==
  ASSUME TypeOK, LeadersWon, UpdatesFromLed, [HistoryNext]_<<vars, historyVars>>
  PROVE  LeadersWon' /\ UpdatesFromLed'
<1>1. [Next]_vars
  BY DEF HistoryNext
<1>2. Led' = Led \cup Newly
  BY LedGrows
<1>3. /\ state \in [Node -> {"FOLLOWER", "LEADER", "CANDIDATE"}]
      /\ leaderId \in [Node -> Node \cup {Nil}]
  BY DEF TypeOK
<1>4. ASSUME NEW k \in Node, state'[k] = "LEADER"
      PROVE  k \in Led' /\ leaderId'[k] = k
  <2>1. k \in Led'
    BY <1>2, <1>4 DEF LeadersWon, Newly
  <2>2. leaderId'[k] = k
    <3>1. CASE Quiet
      BY <1>4, <3>1 DEF Quiet, LeadersWon
    <3>2. ASSUME NEW n \in Node, StandsUp(n) \/ GivesWay(n)
          PROVE  leaderId'[k] = k
      BY <1>3, <1>4, <3>2 DEF StandsUp, GivesWay, LeadersWon
    <3>3. ASSUME NEW n \in Node, Wins(n)
          PROVE  leaderId'[k] = k
      BY <1>3, <1>4, <3>3 DEF Wins, LeadersWon
    <3>4. ASSUME NEW n \in Node, NEW m \in Node, HearsFrom(n, m)
          PROVE  leaderId'[k] = k
      BY <1>3, <1>4, <3>4 DEF HearsFrom, LeadersWon
    <3>5. ASSUME NEW n \in Node, NEW down \in BOOLEAN, GoesDown(n, down)
          PROVE  leaderId'[k] = k
      BY <1>4, <3>5 DEF GoesDown, LeadersWon
    <3> QED BY <1>1, <3>1, <3>2, <3>3, <3>4, <3>5, RoleStep
  <2> QED BY <2>1, <2>2
<1>5. ASSUME NEW a \in Node, NEW b \in Node, NEW x \in InFlight(a, b)',
             x.type = "APPEND_ENTRIES"
      PROVE  a \in Led'
  <2>1. CASE x \in InFlight(a, b)
    BY <1>2, <1>5, <2>1 DEF UpdatesFromLed
  <2>2. CASE Sends(a, b, x)
    <3>1. state'[a] = "LEADER"
      BY <1>5, <2>2 DEF Sends, RequestVoteResponse
    <3> QED BY <1>4, <3>1
  <2> QED BY <1>1, <2>1, <2>2, StepSends
<1> QED BY <1>4, <1>5 DEF LeadersWon, UpdatesFromLed

(* A step of Raft is a step of Cluster or leaves what Cluster sees alone. *)
LEMMA ClusterStep ==
  ASSUME TypeOK, ElectionsOfNodes, LeadersWon, UpdatesFromLed,
         [HistoryNext]_<<vars, historyVars>>
  PROVE  [Nodes!ClusterNext]_(Nodes!clusterVars)
<1>1. [Next]_vars
  BY DEF HistoryNext
<1>2. Led' = Led \cup Newly
  BY LedGrows
<1>3. state \in [Node -> {"FOLLOWER", "LEADER", "CANDIDATE"}]
  BY DEF TypeOK
<1>4. CASE Quiet
  <2>1. Newly = {}
    BY <1>4 DEF Quiet, Newly
  <2> QED BY <1>2, <1>4, <2>1 DEF Quiet, Led, Nodes!clusterVars
<1>5. ASSUME NEW n \in Node, StandsUp(n)
      PROVE  Nodes!ClusterNext
  <2>1. Newly = {}
    BY <1>3, <1>5 DEF StandsUp, Newly
  <2>2. n \in [L \in SUBSET Node |-> Node][Led]
    <3>1. Led \in SUBSET Node
      BY DEF Led, ElectionsOfNodes
    <3> QED BY <3>1
  <2>3. Nodes!Stands(n)
    BY <1>2, <1>5, <2>1, <2>2 DEF StandsUp, Led, Nodes!Stands
  <2> QED BY <2>3 DEF Nodes!ClusterNext, Nodes!RoleChange
<1>6. ASSUME NEW n \in Node, Wins(n)
      PROVE  Nodes!ClusterNext
  <2>1. Newly = {n}
    BY <1>3, <1>6 DEF Wins, Newly
  <2>2. Nodes!Wins(n)
    BY <1>2, <1>6, <2>1 DEF Wins, Led, Nodes!Wins
  <2> QED BY <2>2 DEF Nodes!ClusterNext, Nodes!RoleChange
<1>7. ASSUME NEW n \in Node, GivesWay(n)
      PROVE  Nodes!ClusterNext
  <2>1. Newly = {}
    BY <1>3, <1>7 DEF GivesWay, Newly
  <2>2. Nodes!StandsDown(n)
    BY <1>2, <1>7, <2>1 DEF GivesWay, Led, Nodes!StandsDown
  <2> QED BY <2>2 DEF Nodes!ClusterNext, Nodes!RoleChange
<1>8. ASSUME NEW n \in Node, NEW m \in Node \ {n}, HearsFrom(n, m)
      PROVE  Nodes!ClusterNext
  <2>1. Newly = {}
    BY <1>8 DEF HearsFrom, Newly
  <2>2. m \in Led
    BY <1>8 DEF HearsFrom, UpdatesFromLed
  <2>3. Nodes!Follows(n, m)
    BY <1>2, <1>8, <2>1, <2>2 DEF HearsFrom, Led, Nodes!Follows
  <2> QED BY <2>3 DEF Nodes!ClusterNext, Nodes!RoleChange
<1>9. ASSUME NEW n \in Node, NEW down \in BOOLEAN, GoesDown(n, down)
      PROVE  Nodes!ClusterNext
  <2>1. Newly = {}
    BY <1>9 DEF GoesDown, Newly
  <2>2. CASE down
    BY <1>2, <1>9, <2>1, <2>2 DEF GoesDown, Led, Nodes!Crashes, Nodes!ClusterNext
  <2>3. CASE ~down
    BY <1>2, <1>9, <2>1, <2>3 DEF GoesDown, Led, Nodes!Recovers, Nodes!ClusterNext
  <2> QED BY <2>2, <2>3
<1> QED BY <1>1, <1>4, <1>5, <1>6, <1>7, <1>8, <1>9, RoleStep

(* RefinesCluster: whomever a node names as leader has won an election,    *)
(* whatever is delayed, put back or crashed, and roles, leaders and        *)
(* crashes change only as Cluster says: the part of the nodes that clients *)
(* and the operator see may be reasoned about without terms and logs.      *)
THEOREM RaftImplementsCluster == HistorySpec => RefinesCluster
<1>1. HistorySpec => [](TypeOK /\ ElectionsOfNodes)
  BY HistoryRefines, TypeCorrect, ElectionsInv, PTL
<1>2. HistoryInit => LeadersWon /\ UpdatesFromLed /\ Nodes!ClusterInit
  <2>1. HistoryInit => LeadersWon
    BY DEF HistoryInit, Init, LeadersWon
  <2>2. HistoryInit => UpdatesFromLed
    BY DEF HistoryInit, Init, MailboxInit, UpdatesFromLed, InFlight, UnderWay
  <2>3. HistoryInit => Nodes!ClusterInit
    BY DEF HistoryInit, Init, Nodes!ClusterInit
  <2> QED BY <2>1, <2>2, <2>3
<1>3. TypeOK /\ LeadersWon /\ UpdatesFromLed
        /\ [HistoryNext]_<<vars, historyVars>> => LeadersWon' /\ UpdatesFromLed'
  BY LedStep
<1>4. TypeOK /\ ElectionsOfNodes /\ LeadersWon /\ UpdatesFromLed
        /\ [HistoryNext]_<<vars, historyVars>>
        => [Nodes!ClusterNext]_(Nodes!clusterVars)
  BY ClusterStep
<1> QED BY <1>1, <1>2, <1>3, <1>4, PTL DEF HistorySpec, RefinesCluster, Nodes!ClusterSpec
==============================================================================
