------------------------------ MODULE RaftProofs ------------------------------
(***************************************************************************)
(* Theorems about the servers, for every number of nodes, clients and      *)
(* commands and every value of the bounds:                                 *)
(*   TypeCorrect      Spec => []TypeOK                                     *)
(*   OneVote          Spec => OneVotePerTerm                               *)
(* Each is a lemma about one step, with one case per action, and the rule  *)
(* for invariants.                                                         *)
(***************************************************************************)
EXTENDS RaftProperties, MailboxProofs, FiniteSetTheorems, SequenceTheorems

-----------------------------------------------------------------------------
(* The types of what the handlers compute.                                 *)

(* An entry of a log (entry.hh). *)
LEMMA EntryFields ==
  ASSUME NEW log \in Seq(Entry), NEW i \in 1 .. Len(log)
  PROVE  /\ log[i] \in Entry
         /\ log[i].index \in Nat /\ log[i].term \in Nat
         /\ log[i].cmd \in Cmd /\ log[i].clientId \in Client
<1>1. log[i] \in Entry
  OBVIOUS
<1> QED BY <1>1 DEF Entry

(* The last index and the last term of a log, -1 when it is empty. *)
LEMMA LastType ==
  ASSUME NEW log \in Seq(Entry)
  PROVE  LastIndex(log) \in Index /\ LastTerm(log) \in Index
<1>1. LastIndex(log) \in Index
  BY DEF LastIndex, Index
<1>2. CASE log = <<>>
  BY <1>1, <1>2 DEF LastTerm, Index
<1>3. CASE log # <<>>
  <2>1. Len(log) \in 1 .. Len(log)
    BY <1>3
  <2>2. log[Len(log)].term \in Nat
    BY <2>1, EntryFields
  <2> QED BY <1>1, <1>3, <2>2 DEF LastTerm, Index
<1> QED BY <1>2, <1>3

(* The entries from a position on. *)
LEMMA SuffixType ==
  ASSUME NEW log \in Seq(Entry), NEW a \in Nat \ {0}
  PROVE  SubSeq(log, a, Len(log)) \in Seq(Entry)
OBVIOUS

(* What send_update_to_follower sends is an AppendEntries, whatever        *)
(* nextIndex is.                                                           *)
LEMMA UpdateType ==
  ASSUME NEW n \in Node, term[n] \in Nat, NEW log \in Seq(Entry), NEW next \in Int,
         NEW commit \in Index
  PROVE  Update(n, log, next, commit) \in NodeRpc
<1> DEFINE prev == next - 1
           from == IF next < 0 THEN 1 ELSE next + 1
           prevTerm == IF prev \in 0 .. LastIndex(log) THEN log[prev + 1].term ELSE 0
<1>1. prev \in Int /\ from \in Nat \ {0}
  OBVIOUS
<1>2. SubSeq(log, from, Len(log)) \in Seq(Entry)
  <2> HIDE DEF from
  <2> QED BY <1>1, SuffixType
<1>3. prevTerm \in Nat
  <2>1. CASE prev \in 0 .. LastIndex(log)
    <3>1. prev + 1 \in 1 .. Len(log)
      BY <2>1 DEF LastIndex
    <3>2. log[prev + 1].term \in Nat
      <4> HIDE DEF prev
      <4> QED BY <3>1, EntryFields
    <3> QED BY <2>1, <3>2
  <2> QED BY <2>1
<1>4. Update(n, log, next, commit) = 
        AppendEntries(term[n], prevTerm, prev, commit, SubSeq(log, from, Len(log)))
  BY DEF Update
<1> HIDE DEF prev, from, prevTerm
<1> QED BY <1>1, <1>2, <1>3, <1>4, AppendEntriesType

(* The log append_entries leaves, when the check before it succeeded. *)
LEMMA LogAfterType ==
  ASSUME NEW log \in Seq(Entry), NEW rpc \in NodeRpc, rpc.type = "APPEND_ENTRIES",
         ~Throws(rpc), ConsistentEntry(log, rpc)
  PROVE  LogAfter(log, rpc) \in Seq(Entry)
<1>1. rpc.prevLogIndex \in Int /\ rpc.entries \in Seq(Entry)
  BY NodeRpcFields
<1>2. rpc.prevLogIndex + 1 \in 0 .. Len(log)
  BY <1>1 DEF Throws, ConsistentEntry, LastIndex
<1>3. SubSeq(log, 1, rpc.prevLogIndex + 1) \in Seq(Entry)
  BY <1>2
<1> QED BY <1>1, <1>3 DEF LogAfter

(* The entries save_commit appends to the file. *)
LEMMA CommittedType ==
  ASSUME NEW log \in Seq(Entry), NEW lo \in Index, NEW hi \in Index, NEW t \in Nat,
         NEW r \in Remains(log, lo, hi, t)
  PROVE  Committed(log, lo, hi, r) \in Seq(Entry)
<1> DEFINE e(k) == IF lo + k < Len(log)
                   THEN log[lo + k + 1]
                   ELSE MakeEntry(lo + k, r.term, r.cmd, r.clientId)
<1>1. ASSUME NEW k \in 1 .. (hi - lo)
      PROVE  e(k) \in Entry
  <2>1. CASE lo + k < Len(log)
    <3>1. lo + k + 1 \in 1 .. Len(log)
      BY <2>1 DEF Index
    <3>2. log[lo + k + 1] \in Entry
      BY <3>1, EntryFields
    <3> QED BY <2>1, <3>2
  <2>2. CASE ~(lo + k < Len(log))
    <3>1. ReadsBeyondLog(log, lo, hi)
      BY <2>2 DEF ReadsBeyondLog, Index
    <3>2. r \in [term : 1 .. t, cmd : Cmd, clientId : Client]
      BY <3>1 DEF Remains
    <3>3. lo + k \in Nat
      BY DEF Index
    <3>4. MakeEntry(lo + k, r.term, r.cmd, r.clientId) \in Entry
      BY <3>2, <3>3 DEF MakeEntry, Entry
    <3> QED BY <2>2, <3>4
  <2> QED BY <2>1, <2>2
<1>2. CASE hi - lo \in Nat
  <2> HIDE DEF e
  <2>1. [k \in 1 .. (hi - lo) |-> e(k)] \in Seq(Entry)
    BY <1>1, <1>2
  <2> QED BY <2>1 DEF Committed, e
<1>3. CASE hi - lo \notin Nat
  <2>1. 1 .. (hi - lo) = {}
    BY <1>3 DEF Index
  <2>2. Committed(log, lo, hi, r) = <<>>
    BY <2>1 DEF Committed
  <2> QED BY <2>2
<1> QED BY <1>2, <1>3

(* respond_client for the entries committed. *)
LEMMA AnswerType ==
  ASSUME NEW net, ChanOK(net), NEW n \in Node, NEW entries \in Seq(Entry)
  PROVE  ChanOK(Answer(net, n, entries))
<1> DEFINE count(d) == Cardinality({i \in DOMAIN entries : entries[i].clientId = d})
           answers(d) == [k \in 1 .. count(d) |-> RequestClientResponse(TRUE)]
           row == [d \in Node \cup Client |->
                     IF d \in Client THEN net[n][d] \o answers(d) ELSE net[n][d]]
<1>1. ASSUME NEW d \in Client PROVE answers(d) \in Seq(NodeRpc \cup ClientRpc)
  <2>1. IsFiniteSet(1 .. Len(entries))
    BY FS_Interval
  <2>2. IsFiniteSet({i \in DOMAIN entries : entries[i].clientId = d})
    BY <2>1, FS_Subset
  <2>3. count(d) \in Nat
    BY <2>2, FS_CardinalityType
  <2>4. RequestClientResponse(TRUE) \in ClientRpc
    BY DEF RequestClientResponse, ClientRpc
  <2>5. RequestClientResponse(TRUE) \in NodeRpc \cup ClientRpc
    BY <2>4
  <2> DEFINE r == RequestClientResponse(TRUE)
             c == count(d)
             all == NodeRpc \cup ClientRpc
  <2>6. r \in all /\ c \in Nat
    BY <2>3, <2>5
  <2>7. answers(d) = [k \in 1 .. c |-> r]
    OBVIOUS
  <2>8. [k \in 1 .. c |-> r] \in Seq(all)
    <3> HIDE DEF r, c, all
    <3> QED BY <2>6
  <2> QED BY <2>7, <2>8
<1>2. ASSUME NEW d \in Node PROVE row[d] \in Seq(NodeRpc)
  BY ClientAssumption DEF ChanOK
<1>3. ASSUME NEW d \in Node \cup Client PROVE row[d] \in Seq(NodeRpc \cup ClientRpc)
  <2>1. net[n][d] \in Seq(NodeRpc \cup ClientRpc)
    BY DEF ChanOK
  <2>2. CASE d \in Client
    <3> HIDE DEF answers
    <3> QED BY <1>1, <2>1, <2>2
  <2>3. CASE d \notin Client
    BY <2>1, <2>3
  <2> QED BY <2>2, <2>3
<1>4. row \in [Node \cup Client -> Seq(NodeRpc \cup ClientRpc)]
  <2> HIDE DEF answers
  <2> QED BY <1>3
<1>5. ChanOK([net EXCEPT ![n] = row])
  <2> HIDE DEF row
  <2> QED BY <1>2, <1>4, RowType
<1> QED BY <1>5 DEF Answer

(* What a node that handles a message has before it. *)
LEMMA ReceiptType ==
  ASSUME TypeOK, NEW n \in Node, NEW m \in Node, NEW c, NEW ts,
         Receives(n, m, c, ts)
  PROVE  /\ NextRpc(n, m) \in NodeRpc
         /\ NextRpc(n, m).term \in Nat
         /\ NextRpc(n, m).type \in ts
         /\ ChanOK(ChanAfter(n, m))
         /\ ReinjectedOK(ReinjectedAfter(n))
         /\ ReinjectedOK(Reinject(n, m))
<1>1. ChanOK(chan) /\ ReinjectedOK(reinjected)
  BY DEF TypeOK
<1>2. CanReceive(n, m) /\ NextRpc(n, m).type \in ts
  BY DEF Receives
<1>3. NextRpc(n, m) \in NodeRpc
  BY <1>1, <1>2, NextRpcType
<1> QED BY <1>1, <1>2, <1>3, NodeRpcFields, ChanAfterType, ReinjectedAfterType,
           ReinjectType

(* The term and the vote a follower has after looking at the term of a     *)
(* message.                                                                *)
LEMMA AfterType ==
  ASSUME TypeOK, NEW n \in Node, NEW rpc \in NodeRpc
  PROVE  /\ TermAfter(n, rpc) \in Nat
         /\ VoteAfter(n, rpc) \in Node \cup {Nil}
<1>1. rpc.term \in Nat
  BY NodeRpcFields
<1>2. term[n] \in Nat /\ votedFor[n] \in Node \cup {Nil}
  BY DEF TypeOK
<1> QED BY <1>1, <1>2 DEF TermAfter, VoteAfter

(* A new candidate. *)
LEMMA StartCandidateType ==
  ASSUME TypeOK, NEW n \in Node, StartCandidate(n, chan)
  PROVE  /\ state' \in [Node -> {"FOLLOWER", "LEADER", "CANDIDATE"}]
         /\ term' \in [Node -> Nat]
         /\ votedFor' \in [Node -> Node \cup {Nil}]
         /\ voteCount' \in [Node -> Nat]
         /\ hasVotedForMe' \in [Node -> SUBSET Node]
         /\ ChanOK(chan')
<1> DEFINE rpc == RequestVote(term[n] + 1, LastIndex(logs[n]), LastTerm(logs[n]))
           rpcs == [d \in Node |-> rpc]
<1>1. logs[n] \in Seq(Entry) /\ term[n] + 1 \in Nat
  BY DEF TypeOK
<1>2. rpc \in NodeRpc
  <2>1. LastIndex(logs[n]) \in Index /\ LastTerm(logs[n]) \in Index
    BY <1>1, LastType
  <2> QED BY <1>1, <2>1, RequestVoteType
<1>3. \A d \in Node : rpcs[d] \in NodeRpc
  BY <1>2
<1>4. ChanOK(Broadcast(chan, n, rpcs))
  <2>1. ChanOK(chan)
    BY DEF TypeOK
  <2> HIDE DEF rpcs
  <2> QED BY <1>3, <2>1, BroadcastType
<1>5. ChanOK(chan')
  BY <1>4 DEF StartCandidate
<1>6. /\ state' \in [Node -> {"FOLLOWER", "LEADER", "CANDIDATE"}]
      /\ term' \in [Node -> Nat]
      /\ votedFor' \in [Node -> Node \cup {Nil}]
      /\ voteCount' \in [Node -> Nat]
      /\ hasVotedForMe' \in [Node -> SUBSET Node]
  BY DEF StartCandidate, TypeOK
<1> QED BY <1>5, <1>6

(* The updates a leader begins with. *)
LEMMA LeaderPreCycleType ==
  ASSUME TypeOK, NEW n \in Node, NEW net, ChanOK(net), NEW next \in [Node -> Int],
         LeaderPreCycle(n, net, next)
  PROVE  /\ leaderId' \in [Node -> Node \cup {Nil}]
         /\ ChanOK(chan')
<1> DEFINE rpcs == [d \in Node |-> Update(n, logs[n], next[d], commitIndex[n])]
<1>1. ASSUME NEW d \in Node PROVE rpcs[d] \in NodeRpc
  <2>1. /\ term[n] \in Nat /\ logs[n] \in Seq(Entry)
        /\ next[d] \in Int /\ commitIndex[n] \in Index
    BY DEF TypeOK
  <2> QED BY <2>1, UpdateType
<1>2. ChanOK(Broadcast(net, n, rpcs))
  <2> HIDE DEF rpcs
  <2> QED BY <1>1, BroadcastType
<1> QED BY <1>2 DEF LeaderPreCycle, TypeOK

(* initLeader, which runs or not when an empty optional is read. *)
LEMMA FreshType ==
  ASSUME TypeOK, NEW n \in Node
  PROVE  FreshMatch \in [Node -> Index] /\ FreshNext(logs[n]) \in [Node -> Int]
<1>1. logs[n] \in Seq(Entry)
  BY DEF TypeOK
<1> QED BY <1>1 DEF FreshMatch, FreshNext, Index

(* The same, for the two outcomes of the read. *)
LEMMA EmptyNextStateReadType ==
  ASSUME TypeOK, NEW n \in Node, EmptyNextStateRead(n)
  PROVE  /\ matchIndex' \in [Node -> [Node -> Index]]
         /\ nextIndex' \in [Node -> [Node -> Int]]
<1>1. FreshMatch \in [Node -> Index] /\ FreshNext(logs[n]) \in [Node -> Int]
  BY FreshType
<1>2. /\ matchIndex \in [Node -> [Node -> Index]]
      /\ nextIndex \in [Node -> [Node -> Int]]
  BY DEF TypeOK
<1>3. CASE UNCHANGED indexVars
  BY <1>2, <1>3 DEF indexVars
<1>4. CASE /\ matchIndex' = [matchIndex EXCEPT ![n] = FreshMatch]
           /\ nextIndex' = [nextIndex EXCEPT ![n] = FreshNext(logs[n])]
  BY <1>1, <1>2, <1>4
<1> QED BY <1>3, <1>4 DEF EmptyNextStateRead

(* save_commit, called for entries that are entries. *)
LEMMA SaveType ==
  ASSUME TypeOK, NEW n \in Node, NEW entries \in Seq(Entry), Save(n, entries)
  PROVE  file' \in [Node -> Seq(Entry)]
<1>1. file \in [Node -> Seq(Entry)]
  BY DEF TypeOK
<1>2. file[n] \o entries \in Seq(Entry)
  BY <1>1
<1> DEFINE q == file[n] \o entries
<1>3. file' = [file EXCEPT ![n] = q]
  BY DEF Save
<1>4. q \in Seq(Entry)
  BY <1>2
<1> HIDE DEF q
<1> QED BY <1>1, <1>3, <1>4

(* The commit loop of a leader. *)
LEMMA CommitLoopType ==
  ASSUME TypeOK, NEW n \in Node, NEW match \in [Node -> Index],
         NEW net, ChanOK(net), CommitLoop(n, match, net)
  PROVE  /\ ChanOK(chan')
         /\ commitIndex' \in [Node -> Index]
         /\ file' \in [Node -> Seq(Entry)]
<1>1. PICK end \in CommitLoopEnds(n, match) :
        /\ \E r \in Remains(logs[n], commitIndex[n], end, term[n]) :
             LET entries == Committed(logs[n], commitIndex[n], end, r)
             IN  /\ Save(n, entries)
                 /\ chan' = Answer(net, n, entries)
        /\ commitIndex' = [commitIndex EXCEPT ![n] = end]
  BY DEF CommitLoop
<1>2. /\ commitIndex \in [Node -> Index] /\ logs[n] \in Seq(Entry)
      /\ term[n] \in Nat /\ commitIndex[n] \in Index
  BY DEF TypeOK
<1>3. end \in Index
  BY <1>2 DEF CommitLoopEnds
<1>4. PICK r \in Remains(logs[n], commitIndex[n], end, term[n]) :
        /\ Save(n, Committed(logs[n], commitIndex[n], end, r))
        /\ chan' = Answer(net, n, Committed(logs[n], commitIndex[n], end, r))
  BY <1>1
<1>5. Committed(logs[n], commitIndex[n], end, r) \in Seq(Entry)
  BY <1>2, <1>3, CommittedType
<1>6. ChanOK(chan')
  BY <1>4, <1>5, AnswerType
<1>7. file' \in [Node -> Seq(Entry)]
  BY <1>4, <1>5, SaveType
<1>8. commitIndex' \in [Node -> Index]
  BY <1>1, <1>2, <1>3
<1> QED BY <1>6, <1>7, <1>8

-----------------------------------------------------------------------------
(* Every step keeps the types.                                             *)

(* A follower. *)
LEMMA FollowerType ==
  ASSUME TypeOK, NEW n \in Node, NEW m \in Node,
         \/ FollowerTimeout(n)
         \/ FollowerRequestVote(n, m)
         \/ FollowerRejectsStaleLeader(n, m)
         \/ FollowerRejectsGap(n, m)
         \/ FollowerAppends(n, m)
         \/ FollowerIgnores(n, m)
  PROVE  TypeOK'
<1> DEFINE rpc == NextRpc(n, m)
<1>1. /\ n \in DOMAIN term /\ term[n] \in Nat /\ logs[n] \in Seq(Entry)
      /\ Len(logs[n]) \in Nat /\ commitIndex[n] \in Index
  BY DEF TypeOK
<1>2. CASE FollowerTimeout(n)
  <2>1. StartCandidate(n, chan)
    BY <1>2 DEF FollowerTimeout
  <2>2. UNCHANGED <<reinjected, leaderId, logs, indexVars, commitVars, crash, aborted>>
    BY <1>2 DEF FollowerTimeout
  <2> QED BY <2>1, <2>2, StartCandidateType DEF TypeOK, indexVars, commitVars
<1>3. CASE FollowerRequestVote(n, m)
  <2> DEFINE granted == GrantsVote(n, m, rpc)
             answer == RequestVoteResponse(TermAfter(n, rpc), granted)
  <2>1. Receives(n, m, "FOLLOWER", {"REQUEST_VOTE"})
    BY <1>3 DEF FollowerRequestVote
  <2>2. /\ rpc \in NodeRpc /\ ChanOK(ChanAfter(n, m))
        /\ ReinjectedOK(ReinjectedAfter(n))
    BY <2>1, ReceiptType
  <2>3. TermAfter(n, rpc) \in Nat /\ VoteAfter(n, rpc) \in Node \cup {Nil}
    BY <2>2, AfterType
  <2>4. granted \in BOOLEAN
    BY DEF GrantsVote
  <2>5. answer \in NodeRpc
    BY <2>3, <2>4, RequestVoteResponseType
  <2>6. /\ term' = [term EXCEPT ![n] = TermAfter(n, rpc)]
        /\ votedFor' = [votedFor EXCEPT ![n] = IF granted THEN m ELSE VoteAfter(n, rpc)]
        /\ chan' = Send(ChanAfter(n, m), n, m, answer)
        /\ reinjected' = ReinjectedAfter(n)
        /\ UNCHANGED <<state, voteCount, hasVotedForMe, leaderId, logs, indexVars,
                       commitVars, crash, aborted>>
    BY <1>3 DEF FollowerRequestVote
  <2> HIDE DEF rpc, granted, answer
  <2>7. ChanOK(chan')
    BY <2>2, <2>5, <2>6, SendType
  <2>8. term' \in [Node -> Nat] /\ votedFor' \in [Node -> Node \cup {Nil}]
    BY <2>3, <2>6 DEF TypeOK
  <2> QED BY <2>2, <2>6, <2>7, <2>8 DEF TypeOK, indexVars, commitVars
<1>4. CASE FollowerRejectsStaleLeader(n, m)
  <2> DEFINE answer == AppendEntriesResponse(term[n], FALSE, Len(logs[n]))
  <2>1. Receives(n, m, "FOLLOWER", {"APPEND_ENTRIES"})
    BY <1>4 DEF FollowerRejectsStaleLeader
  <2>2. ChanOK(ChanAfter(n, m)) /\ ReinjectedOK(ReinjectedAfter(n))
    BY <2>1, ReceiptType
  <2>3. answer \in NodeRpc
    BY <1>1, AppendEntriesResponseType
  <2>4. /\ chan' = Send(ChanAfter(n, m), n, m, answer)
        /\ reinjected' = ReinjectedAfter(n)
        /\ UNCHANGED <<voteVars, leaderId, logs, indexVars, commitVars, crash, aborted>>
    BY <1>4 DEF FollowerRejectsStaleLeader
  <2> HIDE DEF answer
  <2>5. ChanOK(chan')
    BY <2>2, <2>3, <2>4, SendType
  <2> QED BY <2>2, <2>4, <2>5 DEF TypeOK, voteVars, indexVars, commitVars
<1>5. CASE FollowerRejectsGap(n, m)
  <2> DEFINE answer == AppendEntriesResponse(TermAfter(n, rpc), FALSE, Len(logs[n]))
  <2>1. Receives(n, m, "FOLLOWER", {"APPEND_ENTRIES"})
    BY <1>5 DEF FollowerRejectsGap
  <2>2. /\ rpc \in NodeRpc /\ ChanOK(ChanAfter(n, m))
        /\ ReinjectedOK(ReinjectedAfter(n))
    BY <2>1, ReceiptType
  <2>3. TermAfter(n, rpc) \in Nat /\ VoteAfter(n, rpc) \in Node \cup {Nil}
    BY <2>2, AfterType
  <2>4. answer \in NodeRpc
    BY <1>1, <2>3, AppendEntriesResponseType
  <2>5. /\ term' = [term EXCEPT ![n] = TermAfter(n, rpc)]
        /\ votedFor' = [votedFor EXCEPT ![n] = VoteAfter(n, rpc)]
        /\ leaderId' = [leaderId EXCEPT ![n] = m]
        /\ chan' = Send(ChanAfter(n, m), n, m, answer)
        /\ reinjected' = ReinjectedAfter(n)
        /\ UNCHANGED <<state, voteCount, hasVotedForMe, logs, indexVars, commitVars,
                       crash, aborted>>
    BY <1>5 DEF FollowerRejectsGap
  <2> HIDE DEF rpc, answer
  <2>6. ChanOK(chan')
    BY <2>2, <2>4, <2>5, SendType
  <2>7. /\ term' \in [Node -> Nat] /\ votedFor' \in [Node -> Node \cup {Nil}]
        /\ leaderId' \in [Node -> Node \cup {Nil}]
    BY <2>3, <2>5 DEF TypeOK
  <2> QED BY <2>2, <2>5, <2>6, <2>7 DEF TypeOK, indexVars, commitVars
<1>6. CASE FollowerAppends(n, m)
  <2> DEFINE log == LogAfter(logs[n], rpc)
             answer == AppendEntriesResponse(TermAfter(n, rpc), TRUE, Len(log))
  <2>1. Receives(n, m, "FOLLOWER", {"APPEND_ENTRIES"})
    BY <1>6 DEF FollowerAppends
  <2>2. /\ rpc \in NodeRpc /\ rpc.type = "APPEND_ENTRIES" /\ rpc.term \in Nat
        /\ ChanOK(ChanAfter(n, m)) /\ ReinjectedOK(ReinjectedAfter(n))
    BY <2>1, ReceiptType
  <2>3. TermAfter(n, rpc) \in Nat /\ VoteAfter(n, rpc) \in Node \cup {Nil}
    BY <2>2, AfterType
  <2>4. /\ ~Throws(rpc) /\ ConsistentEntry(logs[n], rpc)
        /\ term' = [term EXCEPT ![n] = TermAfter(n, rpc)]
        /\ votedFor' = [votedFor EXCEPT ![n] = VoteAfter(n, rpc)]
        /\ leaderId' = [leaderId EXCEPT ![n] = m]
        /\ logs' = [logs EXCEPT ![n] = log]
        /\ commitIndex' = [commitIndex EXCEPT ![n] = rpc.leaderCommit]
        /\ chan' = IF rpc.entries = <<>> THEN ChanAfter(n, m)
                   ELSE Send(ChanAfter(n, m), n, m, answer)
        /\ reinjected' = ReinjectedAfter(n)
        /\ UNCHANGED <<state, voteCount, hasVotedForMe, indexVars, crash, aborted>>
    BY <1>6 DEF FollowerAppends
  <2>5. PICK r \in Remains(log, commitIndex[n], rpc.leaderCommit, rpc.term) :
          Save(n, Committed(log, commitIndex[n], rpc.leaderCommit, r))
    BY <1>6 DEF FollowerAppends
  <2>6. log \in Seq(Entry)
    BY <1>1, <2>2, <2>4, LogAfterType
  <2>7. rpc.leaderCommit \in Index
    BY <2>2, NodeRpcFields
  <2>8. answer \in NodeRpc
    <3>1. Len(log) \in Nat
      <4> HIDE DEF log
      <4> QED BY <2>6
    <3> QED BY <2>3, <3>1, AppendEntriesResponseType
  <2> HIDE DEF rpc, log, answer
  <2>9. file' \in [Node -> Seq(Entry)]
    <3>1. Committed(log, commitIndex[n], rpc.leaderCommit, r) \in Seq(Entry)
      BY <1>1, <2>2, <2>6, <2>7, CommittedType
    <3> QED BY <2>5, <3>1, SaveType
  <2>10. ChanOK(chan')
    <3>1. ChanOK(Send(ChanAfter(n, m), n, m, answer))
      BY <2>2, <2>8, SendType
    <3> QED BY <2>2, <2>4, <3>1
  <2>11. /\ term' \in [Node -> Nat] /\ votedFor' \in [Node -> Node \cup {Nil}]
         /\ leaderId' \in [Node -> Node \cup {Nil}]
         /\ logs' \in [Node -> Seq(Entry)] /\ commitIndex' \in [Node -> Index]
    BY <2>3, <2>4, <2>6, <2>7 DEF TypeOK
  <2> QED BY <2>2, <2>4, <2>9, <2>10, <2>11 DEF TypeOK, indexVars
<1>7. CASE FollowerIgnores(n, m)
  <2>1. Receives(n, m, "FOLLOWER", {"REQUEST_VOTE_RESPONSE", "APPEND_ENTRIES_RESPONSE"})
    BY <1>7 DEF FollowerIgnores
  <2>2. /\ rpc \in NodeRpc /\ ChanOK(ChanAfter(n, m))
        /\ ReinjectedOK(ReinjectedAfter(n))
    BY <2>1, ReceiptType
  <2>3. TermAfter(n, rpc) \in Nat /\ VoteAfter(n, rpc) \in Node \cup {Nil}
    BY <2>2, AfterType
  <2>4. /\ term' = [term EXCEPT ![n] = TermAfter(n, rpc)]
        /\ votedFor' = [votedFor EXCEPT ![n] = VoteAfter(n, rpc)]
        /\ chan' = ChanAfter(n, m)
        /\ reinjected' = ReinjectedAfter(n)
        /\ UNCHANGED <<state, voteCount, hasVotedForMe, leaderId, logs, indexVars,
                       commitVars, crash, aborted>>
    BY <1>7 DEF FollowerIgnores
  <2> HIDE DEF rpc
  <2>5. term' \in [Node -> Nat] /\ votedFor' \in [Node -> Node \cup {Nil}]
    BY <2>3, <2>4 DEF TypeOK
  <2> QED BY <2>2, <2>4, <2>5 DEF TypeOK, indexVars, commitVars
<1> QED BY <1>2, <1>3, <1>4, <1>5, <1>6, <1>7

(* A candidate, and a candidate or a leader that stands down. *)
LEMMA CandidateType ==
  ASSUME TypeOK, NEW n \in Node, NEW m \in Node,
         \/ CandidateTimeout(n)
         \/ StepDown(n, m)
         \/ CandidateTakesVote(n, m)
         \/ CandidateMeetsLeader(n, m)
         \/ CandidateIgnores(n, m)
  PROVE  TypeOK'
<1> DEFINE rpc == NextRpc(n, m)
<1>1. CASE CandidateTimeout(n)
  <2>1. /\ EmptyNextStateRead(n) /\ StartCandidate(n, chan)
        /\ UNCHANGED <<reinjected, leaderId, logs, commitVars, crash, aborted>>
    BY <1>1 DEF CandidateTimeout
  <2> QED BY <2>1, StartCandidateType, EmptyNextStateReadType
          DEF TypeOK, commitVars
<1>2. ASSUME BecomeFollower(n, m), NEW c, NEW ts, Receives(n, m, c, ts),
             term' \in [Node -> Nat], votedFor' \in [Node -> Node \cup {Nil}]
      PROVE  TypeOK'
  <2>1. ChanOK(ChanAfter(n, m)) /\ ReinjectedOK(Reinject(n, m))
    BY <1>2, ReceiptType
  <2> QED BY <1>2, <2>1 DEF BecomeFollower, TypeOK, indexVars, commitVars
<1>3. CASE StepDown(n, m)
  <2>1. PICK c : Receives(n, m, c, NodeRpcTypes)
    BY <1>3 DEF StepDown
  <2>2. rpc.term \in Nat
    BY <2>1, ReceiptType
  <2>3. /\ term' = [term EXCEPT ![n] = rpc.term]
        /\ votedFor' = [votedFor EXCEPT ![n] = Nil]
        /\ BecomeFollower(n, m)
    BY <1>3 DEF StepDown
  <2> HIDE DEF rpc
  <2>4. term' \in [Node -> Nat] /\ votedFor' \in [Node -> Node \cup {Nil}]
    BY <2>2, <2>3 DEF TypeOK
  <2> QED BY <1>2, <2>1, <2>3, <2>4
<1>4. CASE CandidateTakesVote(n, m) /\ CandidateCountsVote(n, m)
  <2>1. Receives(n, m, "CANDIDATE", {"REQUEST_VOTE_RESPONSE"})
    BY <1>4 DEF CandidateTakesVote, CandidateCountsVote
  <2>2. ChanOK(ChanAfter(n, m)) /\ ReinjectedOK(ReinjectedAfter(n))
    BY <2>1, ReceiptType
  <2>3. /\ hasVotedForMe' = [hasVotedForMe EXCEPT ![n] = @ \cup {m}]
        /\ voteCount' = [voteCount EXCEPT ![n] = @ + 1]
        /\ chan' = ChanAfter(n, m)
        /\ reinjected' = ReinjectedAfter(n)
        /\ UNCHANGED <<state, term, votedFor, leaderId, logs, indexVars, commitVars,
                       crash, aborted>>
    BY <1>4 DEF CandidateTakesVote, CandidateCountsVote
  <2>4. hasVotedForMe' \in [Node -> SUBSET Node] /\ voteCount' \in [Node -> Nat]
    BY <2>3 DEF TypeOK
  <2> QED BY <2>2, <2>3, <2>4 DEF TypeOK, indexVars, commitVars
<1>5. CASE CandidateTakesVote(n, m) /\ CandidateIsElected(n, m)
  <2>1. Receives(n, m, "CANDIDATE", {"REQUEST_VOTE_RESPONSE"})
    BY <1>5 DEF CandidateTakesVote, CandidateIsElected
  <2>2. ChanOK(ChanAfter(n, m)) /\ ReinjectedOK(ReinjectedAfter(n))
    BY <2>1, ReceiptType
  <2>3. /\ hasVotedForMe' = [hasVotedForMe EXCEPT ![n] = @ \cup {m}]
        /\ voteCount' = [voteCount EXCEPT ![n] = 0]
        /\ state' = [state EXCEPT ![n] = "LEADER"]
        /\ matchIndex' = [matchIndex EXCEPT ![n] = FreshMatch]
        /\ nextIndex' = [nextIndex EXCEPT ![n] = FreshNext(logs[n])]
        /\ LeaderPreCycle(n, ChanAfter(n, m), FreshNext(logs[n]))
        /\ reinjected' = ReinjectedAfter(n)
        /\ UNCHANGED <<term, votedFor, logs, commitVars, crash, aborted>>
    BY <1>5 DEF CandidateTakesVote, CandidateIsElected
  <2>4. FreshMatch \in [Node -> Index] /\ FreshNext(logs[n]) \in [Node -> Int]
    BY FreshType
  <2>5. ChanOK(chan') /\ leaderId' \in [Node -> Node \cup {Nil}]
    BY <2>2, <2>3, <2>4, LeaderPreCycleType
  <2>6. /\ hasVotedForMe' \in [Node -> SUBSET Node] /\ voteCount' \in [Node -> Nat]
        /\ state' \in [Node -> {"FOLLOWER", "LEADER", "CANDIDATE"}]
    BY <2>3 DEF TypeOK
  <2>7. /\ matchIndex' \in [Node -> [Node -> Index]]
        /\ nextIndex' \in [Node -> [Node -> Int]]
    BY <2>3, <2>4 DEF TypeOK
  <2> QED BY <2>2, <2>3, <2>5, <2>6, <2>7 DEF TypeOK, commitVars
<1>6. CASE CandidateMeetsLeader(n, m)
  <2>1. /\ Receives(n, m, "CANDIDATE", {"APPEND_ENTRIES"})
        /\ BecomeFollower(n, m)
        /\ UNCHANGED <<term, votedFor>>
    BY <1>6 DEF CandidateMeetsLeader
  <2>2. term' \in [Node -> Nat] /\ votedFor' \in [Node -> Node \cup {Nil}]
    BY <2>1 DEF TypeOK
  <2> QED BY <1>2, <2>1, <2>2
<1>7. CASE CandidateIgnores(n, m)
  <2>1. Receives(n, m, "CANDIDATE", NodeRpcTypes)
    BY <1>7 DEF CandidateIgnores
  <2>2. ChanOK(ChanAfter(n, m)) /\ ReinjectedOK(ReinjectedAfter(n))
    BY <2>1, ReceiptType
  <2>3. /\ chan' = ChanAfter(n, m)
        /\ reinjected' = ReinjectedAfter(n)
        /\ UNCHANGED <<voteVars, leaderId, logs, indexVars, commitVars, crash, aborted>>
    BY <1>7 DEF CandidateIgnores
  <2> QED BY <2>2, <2>3 DEF TypeOK, voteVars, indexVars, commitVars
<1> QED BY <1>1, <1>3, <1>4, <1>5, <1>6, <1>7 DEF CandidateTakesVote

(* A leader. *)
LEMMA LeaderType ==
  ASSUME TypeOK, NEW n \in Node, NEW m \in Node,
         \/ LeaderTimeout(n)
         \/ LeaderAppendSucceeded(n, m)
         \/ LeaderAppendFailed(n, m)
         \/ LeaderAborts(n, m)
         \/ LeaderIgnores(n, m)
  PROVE  TypeOK'
<1> DEFINE rpc == NextRpc(n, m)
<1>1. CASE Abort
  BY <1>1 DEF Abort, TypeOK, mailboxVars, voteVars, indexVars, commitVars
<1>2. /\ matchIndex \in [Node -> [Node -> Index]] /\ matchIndex[n] \in [Node -> Index]
      /\ nextIndex \in [Node -> [Node -> Int]] /\ nextIndex[n] \in [Node -> Int]
      /\ ChanOK(chan) /\ term[n] \in Nat /\ logs[n] \in Seq(Entry)
      /\ commitIndex[n] \in Index
  BY DEF TypeOK
<1>3. CASE LeaderTimeout(n)
  <2>1. CASE Abort
    BY <1>1, <2>1
  <2>2. CASE /\ LeaderPreCycle(n, chan, nextIndex[n])
             /\ UNCHANGED <<reinjected, voteVars, logs, indexVars, commitVars, crash,
                            aborted>>
    <3>1. ChanOK(chan') /\ leaderId' \in [Node -> Node \cup {Nil}]
      BY <1>2, <2>2, LeaderPreCycleType
    <3> QED BY <2>2, <3>1 DEF TypeOK, voteVars, indexVars, commitVars
  <2> QED BY <1>3, <2>1, <2>2 DEF LeaderTimeout
<1>4. CASE LeaderAppendSucceeded(n, m)
  <2> DEFINE match == [matchIndex[n] EXCEPT ![m] = rpc.newIndex - 1]
  <2>1. Receives(n, m, "LEADER", {"APPEND_ENTRIES_RESPONSE"})
    BY <1>4 DEF LeaderAppendSucceeded
  <2>2. /\ rpc \in NodeRpc /\ rpc.type = "APPEND_ENTRIES_RESPONSE"
        /\ ChanOK(ChanAfter(n, m)) /\ ReinjectedOK(ReinjectedAfter(n))
    BY <2>1, ReceiptType
  <2>3. rpc.newIndex \in Nat
    BY <2>2, NodeRpcFields
  <2>4. /\ nextIndex' = [nextIndex EXCEPT ![n][m] = rpc.newIndex]
        /\ matchIndex' = [matchIndex EXCEPT ![n] = match]
        /\ CommitLoop(n, match, ChanAfter(n, m))
        /\ reinjected' = ReinjectedAfter(n)
        /\ UNCHANGED <<voteVars, leaderId, logs, crash, aborted>>
    BY <1>4 DEF LeaderAppendSucceeded
  <2> HIDE DEF rpc
  <2>5. match \in [Node -> Index]
    <3>1. rpc.newIndex - 1 \in Index
      BY <2>3 DEF Index
    <3> QED BY <1>2, <3>1
  <2> HIDE DEF match
  <2>6. /\ ChanOK(chan') /\ commitIndex' \in [Node -> Index]
        /\ file' \in [Node -> Seq(Entry)]
    BY <2>2, <2>4, <2>5, CommitLoopType
  <2>7. matchIndex' \in [Node -> [Node -> Index]]
    BY <1>2, <2>4, <2>5
  <2>8. nextIndex' \in [Node -> [Node -> Int]]
    BY <1>2, <2>3, <2>4
  <2> QED BY <2>2, <2>4, <2>6, <2>7, <2>8 DEF TypeOK, voteVars
<1>5. CASE LeaderAppendFailed(n, m)
  <2> DEFINE next == nextIndex[n][m] - 1
             update == Update(n, logs[n], next, commitIndex[n])
             net == Send(ChanAfter(n, m), n, m, update)
  <2>1. Receives(n, m, "LEADER", {"APPEND_ENTRIES_RESPONSE"})
    BY <1>5 DEF LeaderAppendFailed
  <2>2. ChanOK(ChanAfter(n, m)) /\ ReinjectedOK(ReinjectedAfter(n))
    BY <2>1, ReceiptType
  <2>3. next \in Int
    BY <1>2
  <2>4. /\ nextIndex' = [nextIndex EXCEPT ![n][m] = next]
        /\ CommitLoop(n, matchIndex[n], net)
        /\ reinjected' = ReinjectedAfter(n)
        /\ UNCHANGED <<voteVars, leaderId, logs, matchIndex, crash, aborted>>
    BY <1>5 DEF LeaderAppendFailed
  <2> HIDE DEF next
  <2>5. update \in NodeRpc
    BY <1>2, <2>3, UpdateType
  <2> HIDE DEF update
  <2>6. ChanOK(net)
    BY <2>2, <2>5, SendType
  <2> HIDE DEF net
  <2>7. /\ ChanOK(chan') /\ commitIndex' \in [Node -> Index]
        /\ file' \in [Node -> Seq(Entry)]
    BY <1>2, <2>4, <2>6, CommitLoopType
  <2>8. nextIndex' \in [Node -> [Node -> Int]]
    BY <1>2, <2>3, <2>4
  <2> QED BY <2>2, <2>4, <2>7, <2>8 DEF TypeOK, voteVars
<1>6. CASE LeaderAborts(n, m)
  BY <1>1, <1>6 DEF LeaderAborts
<1>7. CASE LeaderIgnores(n, m)
  <2>1. Receives(n, m, "LEADER",
                 {"REQUEST_VOTE", "REQUEST_VOTE_RESPONSE", "APPEND_ENTRIES"})
    BY <1>7 DEF LeaderIgnores
  <2>2. ChanOK(ChanAfter(n, m)) /\ ReinjectedOK(ReinjectedAfter(n))
    BY <2>1, ReceiptType
  <2>3. /\ CommitLoop(n, matchIndex[n], ChanAfter(n, m))
        /\ reinjected' = ReinjectedAfter(n)
        /\ UNCHANGED <<voteVars, leaderId, logs, indexVars, crash, aborted>>
    BY <1>7 DEF LeaderIgnores
  <2>4. /\ ChanOK(chan') /\ commitIndex' \in [Node -> Index]
        /\ file' \in [Node -> Seq(Entry)]
    BY <1>2, <2>2, <2>3, CommitLoopType
  <2> QED BY <2>2, <2>3, <2>4 DEF TypeOK, voteVars, indexVars
<1> QED BY <1>3, <1>4, <1>5, <1>6, <1>7

(* A command of a client that a leader takes. *)
LEMMA LeaderAppendsCommandType ==
  ASSUME TypeOK, NEW n \in Node, NEW c \in Client, NEW cmd \in Cmd,
         LeaderAppendsCommand(n, c, cmd)
  PROVE  TypeOK'
<1> DEFINE e == MakeEntry(Len(logs[n]), term[n], cmd, c)
           log == Append(logs[n], e)
<1>1. logs[n] \in Seq(Entry) /\ Len(logs[n]) \in Nat /\ term[n] \in Nat
  BY DEF TypeOK
<1>2. e \in Entry
  BY <1>1 DEF MakeEntry, Entry
<1>3. log \in Seq(Entry)
  <2> HIDE DEF e
  <2> QED BY <1>1, <1>2
<1>4. /\ logs' = [logs EXCEPT ![n] = log]
      /\ UNCHANGED <<mailboxVars, voteVars, leaderId, indexVars, commitVars, crash,
                     aborted>>
  BY DEF LeaderAppendsCommand
<1> HIDE DEF log
<1> QED BY <1>3, <1>4 DEF TypeOK, mailboxVars, voteVars, indexVars, commitVars

(* A crash, a recovery, and what is lost in between. *)
LEMMA ControllerType ==
  ASSUME TypeOK, NEW n \in Node, NEW m \in Node,
         \/ CrashLoopDrops(n, m)
         \/ Crash(n)
         \/ Recover(n)
         \/ RecoverAborts(n)
         \/ FollowerAborts(n, m)
  PROVE  TypeOK'
<1>1. CASE CrashLoopDrops(n, m)
  <2>1. /\ CanReceive(n, m)
        /\ chan' = ChanAfter(n, m)
        /\ reinjected' = ReinjectedAfter(n)
        /\ UNCHANGED <<voteVars, leaderId, logs, indexVars, commitVars, crash, aborted>>
    BY <1>1 DEF CrashLoopDrops
  <2>2. ChanOK(chan) /\ ReinjectedOK(reinjected)
    BY DEF TypeOK
  <2>3. ChanOK(ChanAfter(n, m)) /\ ReinjectedOK(ReinjectedAfter(n))
    BY <2>1, <2>2, ChanAfterType, ReinjectedAfterType
  <2> QED BY <2>1, <2>3 DEF TypeOK, voteVars, indexVars, commitVars
<1>2. CASE Crash(n)
  BY <1>2 DEF Crash, TypeOK, mailboxVars, voteVars, indexVars, commitVars
<1>3. CASE Recover(n)
  <2>1. /\ crash' \in [Node -> BOOLEAN]
        /\ UNCHANGED <<reinjected, logs, commitVars, aborted>>
    BY <1>3 DEF Recover, TypeOK
  <2>2. CASE UNCHANGED <<chan, voteVars, leaderId, indexVars>>
    BY <2>1, <2>2 DEF TypeOK, voteVars, indexVars, commitVars
  <2>3. CASE EmptyNextStateRead(n) /\ StartCandidate(n, chan) /\ UNCHANGED leaderId
    BY <2>1, <2>3, StartCandidateType, EmptyNextStateReadType
       DEF TypeOK, commitVars
  <2>4. CASE LeaderPreCycle(n, chan, nextIndex[n]) /\ UNCHANGED <<voteVars, indexVars>>
    <3>1. ChanOK(chan) /\ nextIndex[n] \in [Node -> Int]
      BY DEF TypeOK
    <3>2. ChanOK(chan') /\ leaderId' \in [Node -> Node \cup {Nil}]
      BY <2>4, <3>1, LeaderPreCycleType
    <3> QED BY <2>1, <2>4, <3>2 DEF TypeOK, voteVars, indexVars, commitVars
  <2> QED BY <1>3, <2>2, <2>3, <2>4 DEF Recover
<1>4. CASE Abort
  BY <1>4 DEF Abort, TypeOK, mailboxVars, voteVars, indexVars, commitVars
<1>5. CASE RecoverAborts(n) \/ FollowerAborts(n, m)
  BY <1>4, <1>5 DEF RecoverAborts, FollowerAborts
<1> QED BY <1>1, <1>2, <1>3, <1>5

(* The types of the initial state (Node::Node). *)
LEMMA InitType == Init => TypeOK
<1> SUFFICES ASSUME Init PROVE TypeOK
  OBVIOUS
<1> DEFINE all == NodeRpc \cup ClientRpc
           caches == [rpc : NodeRpc, senderId : Node]
<1>1. ChanOK(chan)
  <2>1. chan = [s \in Node |-> [d \in Node \cup Client |-> <<>>]]
    BY DEF Init, MailboxInit
  <2>2. <<>> \in Seq(all) /\ <<>> \in Seq(NodeRpc)
    <3> HIDE DEF all
    <3> QED OBVIOUS
  <2> QED BY <2>1, <2>2 DEF ChanOK
<1>2. ReinjectedOK(reinjected)
  <2>1. reinjected = [n \in Node |-> <<>>]
    BY DEF Init, MailboxInit
  <2>2. <<>> \in Seq(caches) /\ Len(<<>>) <= 1
    <3> HIDE DEF caches
    <3> QED OBVIOUS
  <2> QED BY <2>1, <2>2 DEF ReinjectedOK
<1>3. /\ logs \in [Node -> Seq(Entry)]
      /\ file \in [Node -> Seq(Entry)]
  <2>1. <<>> \in Seq(Entry)
    OBVIOUS
  <2> QED BY <2>1 DEF Init
<1>4. /\ matchIndex \in [Node -> [Node -> Index]]
      /\ nextIndex \in [Node -> [Node -> Int]]
      /\ commitIndex \in [Node -> Index]
  BY DEF Init, Index
<1>5. /\ state \in [Node -> {"FOLLOWER", "LEADER", "CANDIDATE"}]
      /\ term \in [Node -> Nat]
      /\ votedFor \in [Node -> Node \cup {Nil}]
      /\ leaderId \in [Node -> Node \cup {Nil}]
      /\ crash \in [Node -> BOOLEAN]
      /\ voteCount \in [Node -> Nat]
      /\ hasVotedForMe \in [Node -> SUBSET Node]
      /\ aborted \in BOOLEAN
  BY DEF Init
<1> QED BY <1>1, <1>2, <1>3, <1>4, <1>5 DEF TypeOK

(* Every step keeps the types. *)
LEMMA NextType == TypeOK /\ [Next]_vars => TypeOK'
<1> SUFFICES ASSUME TypeOK, [Next]_vars PROVE TypeOK'
  OBVIOUS
<1>1. ASSUME NEW n \in Node,
             FollowerTimeout(n) \/ CandidateTimeout(n) \/ LeaderTimeout(n)
      PROVE  TypeOK'
  BY <1>1, FollowerType, CandidateType, LeaderType
<1>2. ASSUME NEW n \in Node, NEW m \in Node \ {n}, HandleNodeRequest(n, m)
      PROVE  TypeOK'
  BY <1>2, FollowerType, CandidateType, LeaderType, ControllerType
     DEF HandleNodeRequest
<1>3. ASSUME NEW n \in Node, NEW c \in Client, NEW cmd \in Cmd,
             LeaderAppendsCommand(n, c, cmd)
      PROVE  TypeOK'
  BY <1>3, LeaderAppendsCommandType
<1>4. ASSUME NEW n \in CrashTargets, Crash(n) \/ Recover(n) \/ RecoverAborts(n)
      PROVE  TypeOK'
  BY <1>4, CrashAssumption, ControllerType
<1>5. CASE UNCHANGED vars
  BY <1>5 DEF vars, mailboxVars, voteVars, indexVars, commitVars, TypeOK
<1> QED BY <1>1, <1>2, <1>3, <1>4, <1>5 DEF Next

(* Every reachable state is well-typed (TypeOK; node.hh:101-137): whatever *)
(* arrives in whatever order, every handler only ever stores and sends     *)
(* values of the declared kinds, and a node never holds more than one      *)
(* reinjected message.                                                     *)
THEOREM TypeCorrect == Spec => []TypeOK
<1> QED BY InitType, NextType, PTL DEF Spec

-----------------------------------------------------------------------------
(* One vote per term.                                                      *)

(* What looking at the term of a message may do to the term and the vote.  *)
LEMMA AfterKeeps ==
  ASSUME TypeOK, NEW n \in Node, NEW rpc \in NodeRpc
  PROVE  \/ /\ TermAfter(n, rpc) > term[n]
            /\ VoteAfter(n, rpc) = Nil
         \/ /\ TermAfter(n, rpc) = term[n]
            /\ VoteAfter(n, rpc) = votedFor[n]
<1>1. rpc.term \in Nat /\ term[n] \in Nat
  BY NodeRpcFields DEF TypeOK
<1> QED BY <1>1 DEF TermAfter, VoteAfter

(* The handlers of a follower and of a candidate or a leader that change   *)
(* the term or the vote of n leave those of the other nodes alone.         *)
LEMMA OneVoteStep ==
  ASSUME TypeOK, [Next]_vars, NEW k \in Node
  PROVE  VoteKept(k)
<1>1. term \in [Node -> Nat] /\ votedFor \in [Node -> Node \cup {Nil}]
  BY DEF TypeOK
<1>2. CASE UNCHANGED <<term, votedFor>>
  BY <1>1, <1>2 DEF VoteKept
<1>3. ASSUME NEW n \in Node, StartCandidate(n, chan)
      PROVE  VoteKept(k)
  BY <1>1, <1>3 DEF StartCandidate, VoteKept
<1>4. ASSUME NEW n \in Node, NEW rpc \in NodeRpc,
             term' = [term EXCEPT ![n] = TermAfter(n, rpc)],
             votedFor' = [votedFor EXCEPT ![n] = VoteAfter(n, rpc)]
      PROVE  VoteKept(k)
  BY <1>1, <1>4, AfterKeeps DEF VoteKept
<1>5. ASSUME NEW n \in Node, FollowerTimeout(n) \/ CandidateTimeout(n) \/ LeaderTimeout(n)
      PROVE  VoteKept(k)
  <2>1. CASE FollowerTimeout(n) \/ CandidateTimeout(n)
    BY <1>3, <2>1 DEF FollowerTimeout, CandidateTimeout
  <2>2. CASE LeaderTimeout(n)
    BY <1>2, <2>2 DEF LeaderTimeout, Abort, voteVars
  <2> QED BY <1>5, <2>1, <2>2
<1>6. ASSUME NEW n \in Node, NEW m \in Node \ {n}, HandleNodeRequest(n, m)
      PROVE  VoteKept(k)
  <2> DEFINE rpc == NextRpc(n, m)
  <2>1. CASE FollowerRequestVote(n, m)
    <3> DEFINE granted == GrantsVote(n, m, rpc)
    <3>1. /\ Receives(n, m, "FOLLOWER", {"REQUEST_VOTE"})
          /\ term' = [term EXCEPT ![n] = TermAfter(n, rpc)]
          /\ votedFor' = [votedFor EXCEPT ![n] =
                            IF granted THEN m ELSE VoteAfter(n, rpc)]
      BY <2>1 DEF FollowerRequestVote
    <3>2. rpc \in NodeRpc
      BY <3>1, ReceiptType
    <3>3. granted => VoteAfter(n, rpc) \in {m, Nil}
      BY DEF GrantsVote
    <3> HIDE DEF rpc, granted
    <3> QED BY <1>1, <3>1, <3>2, <3>3, AfterKeeps DEF VoteKept
  <2>2. CASE \/ FollowerRejectsGap(n, m)
             \/ FollowerAppends(n, m)
             \/ FollowerIgnores(n, m)
    <3>1. /\ \E c, ts : Receives(n, m, c, ts)
          /\ term' = [term EXCEPT ![n] = TermAfter(n, rpc)]
          /\ votedFor' = [votedFor EXCEPT ![n] = VoteAfter(n, rpc)]
      BY <2>2 DEF FollowerRejectsGap, FollowerAppends, FollowerIgnores
    <3>2. rpc \in NodeRpc
      BY <3>1, ReceiptType
    <3> HIDE DEF rpc
    <3> QED BY <1>4, <3>1, <3>2
  <2>3. CASE StepDown(n, m)
    <3>1. /\ \E c : Receives(n, m, c, NodeRpcTypes)
          /\ rpc.term > term[n]
          /\ term' = [term EXCEPT ![n] = rpc.term]
      BY <2>3 DEF StepDown
    <3> HIDE DEF rpc
    <3> QED BY <1>1, <2>3, <3>1 DEF VoteKept, StepDown
  <2>4. CASE \/ FollowerRejectsStaleLeader(n, m) \/ FollowerAborts(n, m)
             \/ CandidateTakesVote(n, m)
             \/ CandidateMeetsLeader(n, m) \/ CandidateIgnores(n, m)
             \/ LeaderAppendSucceeded(n, m) \/ LeaderAppendFailed(n, m)
             \/ LeaderAborts(n, m) \/ LeaderIgnores(n, m) \/ CrashLoopDrops(n, m)
    <3>1. UNCHANGED <<term, votedFor>>
      BY <2>4 DEF FollowerRejectsStaleLeader, FollowerAborts, CandidateTakesVote,
         CandidateMeetsLeader, CandidateIgnores,
         LeaderAppendSucceeded, LeaderAppendFailed, LeaderAborts, LeaderIgnores,
         CrashLoopDrops, Abort, voteVars
    <3> QED BY <1>2, <3>1
  <2> QED BY <1>6, <2>1, <2>2, <2>3, <2>4 DEF HandleNodeRequest
<1>7. ASSUME NEW n \in Node, NEW c \in Client, NEW cmd \in Cmd,
             LeaderAppendsCommand(n, c, cmd)
      PROVE  VoteKept(k)
  BY <1>2, <1>7 DEF LeaderAppendsCommand, voteVars
<1>8. ASSUME NEW n \in CrashTargets, Crash(n) \/ Recover(n) \/ RecoverAborts(n)
      PROVE  VoteKept(k)
  <2>1. n \in Node
    BY CrashAssumption
  <2>2. UNCHANGED <<term, votedFor>> \/ StartCandidate(n, chan)
    BY <1>8 DEF Crash, Recover, RecoverAborts, Abort, voteVars
  <2> QED BY <1>2, <1>3, <2>1, <2>2
<1>9. CASE UNCHANGED vars
  BY <1>2, <1>9 DEF vars, voteVars
<1> QED BY <1>5, <1>6, <1>7, <1>8, <1>9 DEF Next

(* OneVotePerTerm: terms only grow, and a vote is final within its term    *)
(* (node.hh:107-110).                                                      *)
THEOREM OneVote == Spec => OneVotePerTerm
<1>1. TypeOK /\ [Next]_vars => [\A n \in Node : VoteKept(n)]_vars
  BY OneVoteStep
<1> QED BY <1>1, TypeCorrect, PTL DEF Spec, OneVotePerTerm
==============================================================================
