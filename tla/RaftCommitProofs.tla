--------------------------- MODULE RaftCommitProofs ---------------------------
(***************************************************************************)
(* Theorems about what is committed and saved:                             *)
(*   - LeadersKeepCommits: later leaders hold what was committed;          *)
(*   - FilesNeverDisagree: all the files hold the same entries.            *)
(*                                                                         *)
(* The induction is about two records of the whole run that no variable    *)
(* keeps: T[t], the log the leader of term t has had (RaftLogProofs), and  *)
(* A[q][t], how far node q has ever acknowledged it.  An entry of term t   *)
(* is Lost when a majority has gone on to later terms without having       *)
(* acknowledged it, and what is lost stays lost.  Until then it is Kept:   *)
(* whoever has acknowledged it has it, so has every candidate such a node  *)
(* has voted for, and so has every leader of a later term, since one of    *)
(* its voters had acknowledged it.  What a majority has acknowledged can   *)
(* not be lost; a leader that counted answers of its own term only knows   *)
(* of nothing that was not acknowledged (Matched), so what it commits is   *)
(* held by a majority (Recorded), and what is saved comes from there       *)
(* (Saved).                                                                *)
(***************************************************************************)
EXTENDS RaftCommit, RaftLogProofs

(* A step of Raft with the record of commits is a step of Raft with the    *)
(* record of votes.                                                        *)
LEMMA CommitStepRefines ==
  [CommitNext]_<<vars, historyVars, commitHistory>> =>
    [HistoryNext]_<<vars, historyVars>>
BY DEF CommitNext

LEMMA CommitRefines == CommitSpec => HistorySpec
<1>1. CommitInit => HistoryInit
  BY DEF CommitInit
<1> QED BY <1>1, CommitStepRefines, PTL DEF CommitSpec, HistorySpec

-----------------------------------------------------------------------------
(* Votes and the requests for them.                                        *)

(* The vote of a node is on record, and nobody votes for a candidate of a  *)
(* term the candidate has not reached.                                     *)
VotesRecorded ==
  \A n \in Node : votedFor[n] # Nil => <<n, term[n], votedFor[n]>> \in votes

VotesCurrent == \A v \in votes : v[3] \in Node /\ v[2] <= term[v[3]]

(* While a candidate stands, its requests tell where its log ends. *)
RequestsCurrent ==
  \A a, b \in Node : \A x \in InFlight(a, b) :
    x.type = "REQUEST_VOTE" =>
      /\ x.term <= term[a]
      /\ state[a] = "CANDIDATE" /\ term[a] = x.term =>
           x.lastLogIndex = LastIndex(logs[a]) /\ x.lastLogTerm = LastTerm(logs[a])

LEMMA VotesRecordedStep ==
  ASSUME VotesRecorded, [HistoryNext]_<<vars, historyVars>>
  PROVE  VotesRecorded'
<1>1. CASE UNCHANGED <<vars, historyVars>>
  BY <1>1 DEF vars, voteVars, historyVars, VotesRecorded
<1>2. CASE HistoryNext
  BY <1>2 DEF HistoryNext, Record, VotesRecorded
<1> QED BY <1>1, <1>2

(* A candidate leaves its log alone. *)
LEMMA CandidateLog ==
  ASSUME TypeOK, [Next]_vars, NEW a \in Node, state'[a] = "CANDIDATE"
  PROVE  logs'[a] = logs[a]
<1>1. ASSUME NEW m \in Node \ {a}, FollowerAppends(a, m) PROVE FALSE
  BY <1>1 DEF FollowerAppends, Receives
<1>2. ASSUME NEW c \in Client, NEW cmd \in Cmd, LeaderAppendsCommand(a, c, cmd)
      PROVE  FALSE
  BY <1>2 DEF LeaderAppendsCommand, voteVars
<1> QED BY <1>1, <1>2, LogStep

LEMMA RequestsCurrentStep ==
  ASSUME TypeOK, TypeOK', RequestsCurrent, [Next]_vars
  PROVE  RequestsCurrent'
<1> SUFFICES ASSUME NEW a \in Node, NEW b \in Node, NEW x \in InFlight(a, b)',
                    x.type = "REQUEST_VOTE"
             PROVE  /\ x.term <= term'[a]
                    /\ state'[a] = "CANDIDATE" /\ term'[a] = x.term =>
                         /\ x.lastLogIndex = LastIndex(logs'[a])
                         /\ x.lastLogTerm = LastTerm(logs'[a])
  BY DEF RequestsCurrent, LastIndex, LastTerm
<1>1. /\ term[a] \in Nat /\ term'[a] \in Nat /\ x.term \in Nat
      /\ VoteKept(a) /\ TermOfOffice(a)
  <2>1. term[a] \in Nat /\ term'[a] \in Nat
    BY DEF TypeOK
  <2>2. x \in NodeRpc
    BY UnderWayType DEF InFlight, TypeOK
  <2> QED BY <2>1, <2>2, NodeRpcFields, OneVoteStep, OfficeStep
<1>2. CASE x \in InFlight(a, b)
  <2>1. /\ x.term <= term[a]
        /\ state[a] = "CANDIDATE" /\ term[a] = x.term =>
             /\ x.lastLogIndex = LastIndex(logs[a]) /\ x.lastLogTerm = LastTerm(logs[a])
    BY <1>2 DEF RequestsCurrent
  <2>2. x.term <= term'[a]
    BY <1>1, <2>1 DEF VoteKept
  <2>3. ASSUME state'[a] = "CANDIDATE", term'[a] = x.term
        PROVE  state[a] = "CANDIDATE" /\ term[a] = x.term /\ logs'[a] = logs[a]
    BY <1>1, <2>1, <2>3, CandidateLog DEF TermOfOffice
  <2> QED BY <2>1, <2>2, <2>3
<1>3. CASE Sends(a, b, x)
  <2>1. ASSUME NEW next, x = Update(a, logs[a], next, commitIndex[a])
        PROVE  FALSE
    <3>1. x.type = "APPEND_ENTRIES"
      BY <2>1 DEF Update, AppendEntries
    <3> QED BY <3>1
  <2>2. /\ x.term = term'[a]
        /\ x.lastLogIndex = LastIndex(logs[a]) /\ x.lastLogTerm = LastTerm(logs[a])
    BY <1>3, <2>1 DEF Sends, RequestVoteResponse
  <2> QED BY <1>1, <2>2, CandidateLog
<1> QED BY <1>2, <1>3, StepSends

(* How a node comes to vote: for itself when it stands, or for a candidate *)
(* that asks for it.                                                       *)
LEMMA VoteCast ==
  ASSUME TypeOK, [Next]_vars, NEW q \in Node, votedFor'[q] # Nil
  PROVE  \/ term'[q] = term[q] /\ votedFor'[q] = votedFor[q]
         \/ votedFor'[q] = q
         \/ \E m \in Node \ {q} :
              FollowerRequestVote(q, m) /\ GrantsVote(q, m, NextRpc(q, m))
              /\ votedFor'[q] = m
<1> DEFINE Kept == term'[q] = term[q] /\ votedFor'[q] = votedFor[q]
<1>1. term \in [Node -> Nat] /\ votedFor \in [Node -> Node \cup {Nil}]
  BY DEF TypeOK
<1>2. CASE UNCHANGED <<term, votedFor>>
  BY <1>2
<1>3. ASSUME NEW n \in Node, StartCandidate(n, chan)
      PROVE  Kept \/ votedFor'[q] = q
  BY <1>1, <1>3 DEF StartCandidate
<1>4. ASSUME NEW n \in Node, NEW rpc \in NodeRpc,
             term' = [term EXCEPT ![n] = TermAfter(n, rpc)],
             votedFor' = [votedFor EXCEPT ![n] = VoteAfter(n, rpc)]
      PROVE  Kept
  <2>1. CASE n # q
    BY <1>1, <1>4, <2>1
  <2>2. CASE n = q
    <3>1. term'[q] = TermAfter(q, rpc) /\ votedFor'[q] = VoteAfter(q, rpc)
      BY <1>1, <1>4, <2>2
    <3> QED BY <3>1 DEF TermAfter, VoteAfter
  <2> QED BY <2>1, <2>2
<1>5. ASSUME NEW n \in Node, FollowerTimeout(n) \/ CandidateTimeout(n) \/ LeaderTimeout(n)
      PROVE  Kept \/ votedFor'[q] = q
  <2>1. StartCandidate(n, chan) \/ UNCHANGED <<term, votedFor>>
    BY <1>5 DEF FollowerTimeout, CandidateTimeout, LeaderTimeout, Abort, voteVars
  <2> QED BY <1>2, <1>3, <2>1
<1>6. ASSUME NEW n \in Node, NEW m \in Node \ {n}, HandleNodeRequest(n, m)
      PROVE  \/ Kept
             \/ /\ n = q /\ FollowerRequestVote(n, m)
                /\ GrantsVote(n, m, NextRpc(n, m)) /\ votedFor'[n] = m
  <2> DEFINE rpc == NextRpc(n, m)
  <2>1. CASE FollowerRequestVote(n, m)
    <3> DEFINE granted == GrantsVote(n, m, rpc)
    <3>1. /\ Receives(n, m, "FOLLOWER", {"REQUEST_VOTE"})
          /\ term' = [term EXCEPT ![n] = TermAfter(n, rpc)]
          /\ votedFor' = [votedFor EXCEPT ![n] =
                            IF granted THEN m ELSE VoteAfter(n, rpc)]
      BY <2>1 DEF FollowerRequestVote
    <3>2. rpc \in NodeRpc
      BY <3>1, ReceiptType
    <3>3. CASE granted
      <4>1. votedFor'[n] = m
        BY <1>1, <3>1, <3>3
      <4>2. CASE n # q
        <5> HIDE DEF rpc, granted
        <5> QED BY <1>1, <3>1, <4>2
      <4> QED BY <2>1, <3>3, <4>1, <4>2
    <3>4. CASE ~granted
      <4>1. votedFor' = [votedFor EXCEPT ![n] = VoteAfter(n, rpc)]
        BY <3>1, <3>4
      <4> HIDE DEF rpc, granted
      <4> QED BY <1>4, <3>1, <3>2, <4>1
    <3> QED BY <3>3, <3>4
  <2>2. CASE \/ FollowerRejectsGap(n, m)
             \/ FollowerAppends(n, m)
             \/ FollowerIgnores(n, m)
    <3>1. /\ \E c, ts : Receives(n, m, c, ts)
          /\ term' = [term EXCEPT ![n] = TermAfter(n, rpc)]
          /\ votedFor' = [votedFor EXCEPT ![n] = VoteAfter(n, rpc)]
      BY <2>2 DEF FollowerRejectsGap, FollowerAppends, FollowerIgnores
    <3>2. rpc \in NodeRpc
      BY <3>1, ReceiptType
    <3> HIDE DEF rpc
    <3> QED BY <1>4, <3>1, <3>2
  <2>3. CASE StepDown(n, m)
    <3>1. /\ term' = [term EXCEPT ![n] = rpc.term]
          /\ votedFor' = [votedFor EXCEPT ![n] = Nil]
      BY <2>3 DEF StepDown
    <3> HIDE DEF rpc
    <3> QED BY <1>1, <3>1
  <2>4. CASE \/ FollowerRejectsStaleLeader(n, m) \/ FollowerAborts(n, m)
             \/ CandidateTakesVote(n, m)
             \/ CandidateMeetsLeader(n, m) \/ CandidateIgnores(n, m)
             \/ LeaderAppendSucceeded(n, m) \/ LeaderAppendFailed(n, m)
             \/ LeaderAborts(n, m) \/ LeaderIgnores(n, m) \/ CrashLoopDrops(n, m)
    <3>1. UNCHANGED <<term, votedFor>>
      BY <2>4 DEF FollowerRejectsStaleLeader, FollowerAborts, CandidateTakesVote,
         CandidateMeetsLeader, CandidateIgnores,
         LeaderAppendSucceeded, LeaderAppendFailed, LeaderAborts, LeaderIgnores,
         CrashLoopDrops, Abort, voteVars
    <3> QED BY <1>2, <3>1
  <2> QED BY <1>6, <2>1, <2>2, <2>3, <2>4 DEF HandleNodeRequest
<1>7. ASSUME NEW n \in Node, NEW c \in Client, NEW cmd \in Cmd,
             LeaderAppendsCommand(n, c, cmd)
      PROVE  Kept
  BY <1>2, <1>7 DEF LeaderAppendsCommand, voteVars
<1>8. ASSUME NEW n \in CrashTargets, Crash(n) \/ Recover(n) \/ RecoverAborts(n)
      PROVE  Kept \/ votedFor'[q] = q
  <2>1. n \in Node
    BY CrashAssumption
  <2>2. UNCHANGED <<term, votedFor>> \/ StartCandidate(n, chan)
    BY <1>8 DEF Crash, Recover, RecoverAborts, Abort, voteVars
  <2> QED BY <1>2, <1>3, <2>1, <2>2
<1>9. CASE UNCHANGED vars
  BY <1>2, <1>9 DEF vars, voteVars
<1> QED BY <1>5, <1>6, <1>7, <1>8, <1>9 DEF Next

(* A vote that is granted names a candidate as it was when it asked. *)
LEMMA VoteGranted ==
  ASSUME TypeOK, RequestsCurrent, NEW q \in Node, NEW c \in Node \ {q},
         FollowerRequestVote(q, c), GrantsVote(q, c, NextRpc(q, c)),
         NEW rpc, rpc = NextRpc(q, c)
  PROVE  /\ rpc \in NodeRpc /\ rpc.type = "REQUEST_VOTE" /\ rpc.term = term'[q]
         /\ rpc.term <= term[c]
         /\ state[c] = "CANDIDATE" /\ term[c] = rpc.term =>
              rpc.lastLogIndex = LastIndex(logs[c]) /\ rpc.lastLogTerm = LastTerm(logs[c])
         /\ \/ term[q] = rpc.term /\ votedFor[q] = c
            \/ UpToDate(logs[q], rpc)
<1>1. Receives(q, c, "FOLLOWER", {"REQUEST_VOTE"})
  BY DEF FollowerRequestVote
<1>2. rpc \in NodeRpc /\ rpc.type = "REQUEST_VOTE" /\ rpc \in InFlight(c, q)
  BY <1>1, ReceiptType, NextRpcUnderWay DEF TypeOK, Receives, InFlight
<1>3. term[q] \in Nat /\ rpc.term \in Nat /\ votedFor[q] \in Node \cup {Nil}
  BY <1>2, NodeRpcFields DEF TypeOK
<1>4. rpc.term >= term[q]
  BY DEF GrantsVote
<1>5. term'[q] = TermAfter(q, rpc)
  BY GrantBinds
<1>6. term'[q] = rpc.term
  BY <1>3, <1>4, <1>5 DEF TermAfter
<1>7. ASSUME VoteAfter(q, rpc) = c PROVE term[q] = rpc.term /\ votedFor[q] = c
  <2>1. c # Nil
    BY NodeAssumption
  <2> QED BY <1>3, <1>4, <1>7, <2>1 DEF VoteAfter
<1>8. \/ term[q] = rpc.term /\ votedFor[q] = c
      \/ UpToDate(logs[q], rpc)
  BY <1>7 DEF GrantsVote
<1> QED BY <1>2, <1>6, <1>8 DEF RequestsCurrent

LEMMA VotesCurrentStep ==
  ASSUME TypeOK, TypeOK', VotesBind, RequestsCurrent, VotesRecorded, VotesCurrent,
         [HistoryNext]_<<vars, historyVars>>
  PROVE  VotesCurrent'
<1> SUFFICES ASSUME NEW v \in votes' PROVE v[3] \in Node /\ v[2] <= term'[v[3]]
  BY DEF VotesCurrent
<1>1. [Next]_vars
  BY DEF HistoryNext
<1>2. ASSUME NEW n \in Node, NEW t \in Nat, t <= term[n] PROVE t <= term'[n]
  <2>1. term[n] \in Nat /\ term'[n] \in Nat
    BY DEF TypeOK
  <2> QED BY <1>1, <1>2, <2>1, OneVoteStep DEF VoteKept
<1>3. CASE v \in votes
  <2>1. v[3] \in Node /\ v[2] <= term[v[3]]
    BY <1>3 DEF VotesCurrent
  <2>2. VoteKept(v[3]) /\ term[v[3]] \in Nat /\ term'[v[3]] \in Nat
    BY <1>1, <2>1, OneVoteStep DEF TypeOK
  <2>3. v[2] \in Nat
    BY <1>3 DEF VotesBind
  <2> QED BY <1>2, <2>1, <2>3
<1>4. ASSUME v \notin votes
      PROVE  v[3] \in Node /\ v[2] <= term'[v[3]]
  <2>1. PICK q \in Node : votedFor'[q] # Nil /\ v = <<q, term'[q], votedFor'[q]>>
    BY <1>4 DEF HistoryNext, Record, historyVars
  <2>2. term'[q] \in Nat /\ votedFor'[q] \in Node
    BY <2>1 DEF TypeOK
  <2>3. CASE term'[q] = term[q] /\ votedFor'[q] = votedFor[q]
    BY <1>4, <2>1, <2>3 DEF VotesRecorded
  <2>4. CASE votedFor'[q] = q
    BY <2>1, <2>2, <2>4
  <2>5. ASSUME NEW m \in Node \ {q}, FollowerRequestVote(q, m),
               GrantsVote(q, m, NextRpc(q, m)), votedFor'[q] = m
        PROVE  term'[q] <= term'[m]
    <3>1. term'[q] <= term[m]
      BY <2>5, VoteGranted
    <3> QED BY <1>2, <2>2, <3>1
  <2> QED BY <1>1, <2>1, <2>2, <2>3, <2>4, <2>5, VoteCast
<1> QED BY <1>3, <1>4

(* What holds in every run. *)
Sound ==
  /\ TypeOK /\ Offices /\ UpdatesOnRecord
  /\ VotesBind /\ VotesRecorded /\ VotesCurrent /\ RequestsCurrent
  /\ ElectionsOfNodes /\ ElectedByMajority
  /\ LogTermsInOrder /\ EntriesIndexed

LEMMA SoundInv == HistorySpec => []Sound
<1>1. HistoryInit => VotesRecorded /\ VotesCurrent /\ RequestsCurrent
  BY DEF HistoryInit, Init, MailboxInit, VotesRecorded, VotesCurrent, RequestsCurrent,
         InFlight, UnderWay
<1>2. TypeOK /\ TypeOK' /\ VotesBind /\ VotesRecorded /\ VotesCurrent /\ RequestsCurrent
        /\ [HistoryNext]_<<vars, historyVars>>
        => VotesRecorded' /\ VotesCurrent' /\ RequestsCurrent'
  <2>1. [HistoryNext]_<<vars, historyVars>> => [Next]_vars
    BY DEF HistoryNext
  <2> QED BY <2>1, VotesRecordedStep, VotesCurrentStep, RequestsCurrentStep
<1>3. HistorySpec => [](LogTermsInOrder /\ EntriesIndexed)
  BY HistoryRefines, LogTermsAreInOrder, EntriesAreIndexed, PTL
<1> QED BY <1>1, <1>2, <1>3, OfficesInv, VotesInv, ElectionsInv, PTL DEF HistorySpec, Sound

-----------------------------------------------------------------------------
(* What followers have acknowledged, over the whole run.                   *)

(* A[q][t] is how far q has acknowledged the log of term t. *)
Marks == [Node -> [Nat -> Nat]]

Follows(q) == \E n \in Node \ {q} : FollowerAppends(q, n)

ContinueMarks(A, A2) ==
  \A q \in Node, t \in Nat :
    A2[q][t] = IF Follows(q) /\ t = term'[q] THEN Len(logs'[q]) ELSE A[q][t]

Mark(t, k) == [term |-> t, newIndex |-> k]

(* A mark is an acknowledgement that was sent. *)
Promised(T, A) ==
  \A q \in Node, t \in Nat :
    A[q][t] > 0 => \E n \in Node : Acknowledges(T, q, n, Mark(t, A[q][t]))

(* What is acknowledged by a message is marked. *)
Told(A) ==
  \A m, n \in Node : \A r \in InFlight(m, n) :
    IsAcknowledgement(r) => r.newIndex <= A[m][r.term]

LEMMA MarksContinue ==
  ASSUME TypeOK', NEW A \in Marks
  PROVE  \E A2 \in Marks : ContinueMarks(A, A2)
<1> DEFINE A2 == [q \in Node |-> [t \in Nat |->
             IF Follows(q) /\ t = term'[q] THEN Len(logs'[q]) ELSE A[q][t]]]
<1>1. A \in [Node -> [Nat -> Nat]]
  BY DEF Marks
<1>2. ASSUME NEW q \in Node PROVE Len(logs'[q]) \in Nat
  <2>1. logs'[q] \in Seq(Entry)
    BY DEF TypeOK
  <2> QED BY <2>1
<1>3. A2 \in Marks
  BY <1>1, <1>2 DEF Marks
<1>4. ContinueMarks(A, A2)
  BY DEF ContinueMarks
<1> QED BY <1>3, <1>4

(* A step that makes a mark makes it further than the one before. *)
LEMMA MarksStep ==
  ASSUME TypeOK, TypeOK', Offices, UniqueLeaders, UniqueLeaders', UpdatesOnRecord,
         UpdatesReachFurther, [HistoryNext]_<<vars, historyVars>>,
         NEW T \in Histories, Follow(T), NEW T2 \in Histories, Continue(T, T2),
         NEW A \in Marks, Promised(T, A), NEW A2 \in Marks, ContinueMarks(A, A2),
         NEW q \in Node, NEW t \in Nat
  PROVE  /\ A[q][t] <= A2[q][t] /\ A2[q][t] <= Len(T[t])
         /\ A2[q][t] # A[q][t] => t = term'[q]
         /\ A2[q][t] > 0 => \E n \in Node : Acknowledges(T2, q, n, Mark(t, A2[q][t]))'
<1>1. A[q][t] \in Nat /\ A2[q][t] \in Nat
  BY DEF Marks
<1>2. Len(T[t]) \in Nat
  <2>1. T[t] \in Seq(Entry)
    BY DEF Histories
  <2> QED BY <2>1
<1> PICK old : old = Mark(t, A[q][t])
  OBVIOUS
<1> PICK new : new = Mark(t, A2[q][t])
  OBVIOUS
<1>3. old.term = t /\ old.newIndex = A[q][t] /\ new.term = t /\ new.newIndex = A2[q][t]
  BY DEF Mark
<1>4. ASSUME A[q][t] > 0
      PROVE  \E n \in Node : Acknowledges(T, q, n, old)
  BY <1>4 DEF Promised
<1>5. A[q][t] <= Len(T[t])
  <2>1. CASE A[q][t] = 0
    BY <1>2, <2>1
  <2>2. CASE A[q][t] > 0
    BY <1>3, <1>4, <2>2 DEF Acknowledges
  <2> QED BY <1>1, <2>1, <2>2
<1>6. CASE A2[q][t] = A[q][t]
  <2>1. ASSUME A2[q][t] > 0
        PROVE  \E n \in Node : Acknowledges(T2, q, n, new)'
    <3>1. PICK n \in Node : Acknowledges(T, q, n, old)
      BY <1>4, <1>6, <2>1
    <3>2. old = new
      BY <1>6
    <3>3. Acknowledges(T2, q, n, old)'
      BY <1>1, <1>3, <3>1, AcknowledgesStep
    <3> QED BY <3>2, <3>3
  <2> QED BY <1>1, <1>5, <1>6, <2>1
<1>7. CASE A2[q][t] # A[q][t]
  <2>1. Follows(q) /\ t = term'[q] /\ A2[q][t] = Len(logs'[q])
    BY <1>7 DEF ContinueMarks
  <2>2. PICK n \in Node \ {q} : FollowerAppends(q, n)
    BY <2>1 DEF Follows
  <2> DEFINE rpc == NextRpc(q, n)
  <2>3. /\ rpc \in NodeRpc /\ rpc.term >= term[q]
        /\ term' = [term EXCEPT ![q] = TermAfter(q, rpc)]
    BY <2>2, ReceiptType DEF FollowerAppends
  <2>4. t = TermAfter(q, rpc) /\ t = rpc.term
    <3>1. term \in [Node -> Nat] /\ rpc.term \in Nat
      BY <2>3, NodeRpcFields DEF TypeOK
    <3> HIDE DEF rpc
    <3> QED BY <2>1, <2>3, <3>1 DEF TermAfter
  <2>5. A2[q][t] <= Len(T[t]) /\ Acknowledges(T2, q, n, new)'
    <3>1. new.term = TermAfter(q, NextRpc(q, n)) /\ new.newIndex = Len(logs'[q])
      BY <1>3, <2>1, <2>4
    <3>2. new.newIndex <= Len(T[new.term]) /\ Acknowledges(T2, q, n, new)'
      BY <2>2, <3>1, NewlyAcknowledges
    <3> QED BY <1>3, <3>2
  <2>6. A[q][t] <= A2[q][t]
    <3>1. CASE A[q][t] = 0
      BY <1>1, <3>1
    <3>2. CASE A[q][t] > 0
      <4>1. PICK k \in Node : Acknowledges(T, q, k, old)
        BY <1>4, <3>2
      <4>2. T[0] = <<>>
        BY DEF Follow, Offices
      <4>3. /\ rpc \in InFlight(n, q) /\ IsUpdate(rpc) /\ Len(logs'[q]) = End(rpc)
        BY <2>2, <4>2, FollowerLog
      <4>4. OnRecord(n, t) /\ OnRecord(k, t)
        BY <1>3, <2>4, <4>1, <4>3 DEF UpdatesOnRecord, IsUpdate, Acknowledges
      <4>5. n = k
        BY <4>4 DEF OnRecord, UniqueLeaders
      <4>6. t <= term[q] /\ term[q] \in Nat
        BY <1>3, <4>1 DEF Acknowledges, TypeOK
      <4>7. term[q] = t
        <5> HIDE DEF rpc
        <5> QED BY <2>3, <2>4, <4>6
      <4>8. A[q][t] <= End(rpc)
        BY <1>3, <2>4, <4>1, <4>3, <4>5, <4>7 DEF Acknowledges
      <4> QED BY <2>1, <4>3, <4>8
    <3> QED BY <1>1, <3>1, <3>2
  <2> QED BY <2>1, <2>5, <2>6
<1> QED BY <1>6, <1>7

LEMMA ToldStep ==
  ASSUME TypeOK, TypeOK', Offices, UniqueLeaders, UniqueLeaders', UpdatesOnRecord,
         UpdatesReachFurther, [HistoryNext]_<<vars, historyVars>>,
         NEW T \in Histories, Follow(T), NEW T2 \in Histories, Continue(T, T2),
         NEW A \in Marks, Promised(T, A), NEW A2 \in Marks, ContinueMarks(A, A2),
         Told(A)
  PROVE  Told(A2)'
<1> SUFFICES ASSUME NEW m \in Node, NEW n \in Node, NEW r \in InFlight(m, n)',
                    IsAcknowledgement(r)
             PROVE  r.newIndex <= A2[m][r.term]
  BY DEF Told, IsAcknowledgement
<1>1. r.term \in Nat /\ r.newIndex \in Nat
  <2>1. r \in NodeRpc
    BY UnderWayType DEF InFlight, TypeOK
  <2> QED BY <2>1, NodeRpcFields DEF IsAcknowledgement
<1>2. CASE r \in InFlight(m, n)
  <2>1. r.newIndex <= A[m][r.term]
    BY <1>2 DEF Told
  <2>2. A[m][r.term] <= A2[m][r.term]
    BY <1>1, MarksStep
  <2>3. A[m][r.term] \in Nat /\ A2[m][r.term] \in Nat
    BY <1>1 DEF Marks
  <2> QED BY <1>1, <2>1, <2>2, <2>3
<1>3. CASE Sends(m, n, r)
  <2>1. /\ FollowerAppends(m, n) /\ n # m
        /\ r.term = TermAfter(m, NextRpc(m, n)) /\ r.newIndex = Len(logs'[m])
    BY <1>3, AcknowledgementSent
  <2>2. r.term = term'[m]
    BY <2>1, NewlyAcknowledges
  <2>3. Follows(m)
    BY <2>1 DEF Follows
  <2>4. A2[m][r.term] = r.newIndex
    BY <1>1, <2>1, <2>2, <2>3 DEF ContinueMarks
  <2> QED BY <1>1, <2>4
<1> QED BY <1>2, <1>3, StepSends DEF HistoryNext

-----------------------------------------------------------------------------
(* An entry that a leader of term t has put at position k, and whether it  *)
(* can still be committed there.                                           *)

(* q has led in term t, or has acknowledged position k of its log. *)
Holds(A, q, t, k) == OnRecord(q, t) \/ k <= A[q][t]

(* A majority has left term t without it: too few can ever acknowledge it. *)
Lost(A, t, k) ==
  \E V \in SUBSET Node :
    /\ IsMajority(Cardinality(V))
    /\ \A q \in V : term[q] > t /\ ~Holds(A, q, t, k)

Own(T, t, k) == k \in 1 .. Len(T[t]) /\ T[t][k].term = t

(* Who holds it has it in its log. *)
LogsKeep(T, A, t, k) ==
  \A q \in Node : Holds(A, q, t, k) =>
    term[q] >= t /\ k <= Len(logs[q]) /\ Within(logs[q], k, T[t])

(* Later leaders have it. *)
LeadersKeep(T, t, k) ==
  \A e \in elections : e.term > t => Within(T[t], k, T[e.term])

(* A candidate has it if one that holds it has voted for it. *)
CandidatesKeep(T, A, t, k) ==
  \A v \in votes :
    /\ v[2] > t /\ Holds(A, v[1], t, k)
    /\ state[v[3]] = "CANDIDATE" /\ term[v[3]] = v[2]
    => k <= Len(logs[v[3]]) /\ Within(logs[v[3]], k, T[t])

(* The updates of later leaders reach as far. *)
UpdatesKeep(t, k) ==
  \A a, b \in Node : \A x \in InFlight(a, b) :
    IsUpdate(x) /\ x.term > t => k <= End(x)

KeptAt(T, A, t, k) ==
  /\ LogsKeep(T, A, t, k) /\ LeadersKeep(T, t, k)
  /\ CandidatesKeep(T, A, t, k) /\ UpdatesKeep(t, k)

(* An entry of the leader's own term that is not lost is kept. *)
Kept(T, A) ==
  \A t, k \in Nat : Own(T, t, k) /\ ~Lost(A, t, k) => KeptAt(T, A, t, k)

(* A step of a run in which every election was backed, with what T and A   *)
(* become.                                                                 *)
Stepping(T, T2, A, A2) ==
  /\ Sound /\ Sound' /\ UniqueLeaders /\ UniqueLeaders' /\ AllBacked'
  /\ [HistoryNext]_<<vars, historyVars>>
  /\ UpdatesReachFurther
  /\ T \in Histories /\ Follow(T) /\ T2 \in Histories /\ Continue(T, T2)
  /\ A \in Marks /\ Promised(T, A) /\ A2 \in Marks /\ ContinueMarks(A, A2)

LEMMA SteppingFacts ==
  ASSUME NEW T, NEW T2, NEW A, NEW A2, Stepping(T, T2, A, A2)
  PROVE  /\ TypeOK /\ TypeOK' /\ [Next]_vars
         /\ T[0] = <<>> /\ Grow(T, T2) /\ Follow(T2)' /\ Promised(T2, A2)'
<1>1. [Next]_vars
  BY DEF Stepping, HistoryNext
<1>2. T[0] = <<>>
  BY DEF Stepping, Sound, Follow, Offices
<1>3. Grow(T, T2)
  BY HistoriesGrow DEF Stepping, Sound
<1>4. Follow(T2)'
  BY FollowStep DEF Stepping, Sound
<1>5. Promised(T2, A2)'
  <2> SUFFICES ASSUME NEW q \in Node, NEW t \in Nat, A2[q][t] > 0
               PROVE  \E n \in Node : Acknowledges(T2, q, n, Mark(t, A2[q][t]))'
    BY DEF Promised
  <2> QED BY MarksStep DEF Stepping, Sound
<1> QED BY <1>1, <1>2, <1>3, <1>4, <1>5 DEF Stepping, Sound

(* Who comes to hold a position of the log of a term is in that term. *)
LEMMA HoldsBefore ==
  ASSUME NEW T, NEW T2, NEW A, NEW A2, Stepping(T, T2, A, A2),
         NEW q \in Node, NEW t \in Nat, NEW k \in Nat, Holds(A2, q, t, k)'
  PROVE  Holds(A, q, t, k) \/ term'[q] = t
<1>1. ASSUME OnRecord(q, t)' PROVE OnRecord(q, t) \/ term'[q] = t
  <2>1. PICK e \in elections' : e.leader = q /\ e.term = t
    BY <1>1 DEF OnRecord
  <2> QED BY <2>1, RecordStep DEF OnRecord, Stepping
<1>2. A2[q][t] = A[q][t] \/ t = term'[q]
  BY MarksStep DEF Stepping, Sound
<1> QED BY <1>1, <1>2 DEF Holds

(* What is lost stays lost. *)
LEMMA LostStays ==
  ASSUME NEW T, NEW T2, NEW A, NEW A2, Stepping(T, T2, A, A2),
         NEW t \in Nat, NEW k \in Nat, Lost(A, t, k)
  PROVE  Lost(A2, t, k)'
<1>1. PICK V \in SUBSET Node :
        /\ IsMajority(Cardinality(V))
        /\ \A q \in V : term[q] > t /\ ~Holds(A, q, t, k)
  BY DEF Lost
<1>2. ASSUME NEW q \in V PROVE term'[q] > t /\ ~Holds(A2, q, t, k)'
  <2>1. term[q] > t /\ ~Holds(A, q, t, k) /\ q \in Node
    BY <1>1
  <2>2. term[q] \in Nat /\ term'[q] \in Nat /\ VoteKept(q)
    BY <2>1, SteppingFacts, OneVoteStep DEF TypeOK
  <2>3. term'[q] > t
    BY <2>1, <2>2 DEF VoteKept
  <2> QED BY <2>1, <2>2, <2>3, HoldsBefore
<1>3. IsMajority(Cardinality(V))'
  BY <1>1 DEF IsMajority, nb_node
<1> QED BY <1>2, <1>3 DEF Lost

(* The voters of an election are a majority that has reached its term. *)
LEMMA VotersReached ==
  ASSUME NEW T, NEW T2, NEW A, NEW A2, Stepping(T, T2, A, A2), NEW e \in elections'
  PROVE  /\ e.voters \in SUBSET Node /\ IsMajority(Cardinality(e.voters))
         /\ e.term \in Nat /\ e.leader \in Node
         /\ \A v \in e.voters :
              <<v, e.term, e.leader>> \in votes' /\ e.term <= term'[v]
<1>1. e.voters \in SUBSET Node /\ e.term \in Nat /\ e.leader \in Node
  BY DEF Stepping, Sound, ElectionsOfNodes
<1>2. IsMajority(Cardinality(e.voters))
  BY DEF Stepping, Sound, ElectedByMajority, IsMajority, nb_node
<1>3. ASSUME NEW v \in e.voters
      PROVE  <<v, e.term, e.leader>> \in votes' /\ e.term <= term'[v]
  <2>1. <<v, e.term, e.leader>> \in votes'
    BY DEF Stepping, AllBacked, Backed
  <2>2. term'[v] \in Nat
    BY <1>1, SteppingFacts DEF TypeOK
  <2>3. e.term < term'[v] \/ e.term = term'[v]
    BY <2>1 DEF Stepping, Sound, VotesBind
  <2> QED BY <1>1, <2>1, <2>2, <2>3
<1> QED BY <1>1, <1>2, <1>3

(* An entry of a log of a term either was there, or is its leader's last.  *)
LEMMA OwnBefore ==
  ASSUME NEW T, NEW T2, NEW A, NEW A2, Stepping(T, T2, A, A2),
         NEW t \in Nat, NEW k \in Nat, Own(T2, t, k)
  PROVE  \/ Own(T, t, k)
         \/ /\ k > Len(T[t])
            /\ \E a \in Node : state'[a] = "LEADER" /\ term'[a] = t /\ T2[t] = logs'[a]
<1>1. T[t] \in Seq(Entry) /\ T2[t] \in Seq(Entry) /\ Begins(T[t], T2[t])
  BY SteppingFacts DEF Stepping, Histories, Grow
<1>2. Len(T[t]) \in Nat /\ Len(T2[t]) \in Nat
  BY <1>1
<1>3. CASE k <= Len(T[t])
  BY <1>1, <1>2, <1>3 DEF Own, Begins
<1>4. CASE k > Len(T[t])
  <2>1. T2[t] # T[t]
    BY <1>2, <1>4 DEF Own
  <2> QED BY <1>4, <2>1 DEF Stepping, Continue
<1> QED BY <1>2, <1>3, <1>4

(* While only its leader holds it, an election of a later term would lose  *)
(* it: there has been none.                                                *)
LEMMA NewEntryKept ==
  ASSUME NEW T, NEW T2, NEW A, NEW A2, Stepping(T, T2, A, A2),
         NEW t \in Nat, NEW k \in Nat, Own(T2, t, k), ~Own(T, t, k), ~Lost(A2, t, k)'
  PROVE  KeptAt(T2, A2, t, k)'
<1>1. k > Len(T[t]) /\ Len(T[t]) \in Nat
  <2>1. T[t] \in Seq(Entry)
    BY DEF Stepping, Histories
  <2> QED BY <2>1, OwnBefore
<1>2. PICK a \in Node : state'[a] = "LEADER" /\ term'[a] = t /\ T2[t] = logs'[a]
  BY OwnBefore
<1>3. ASSUME NEW q \in Node, Holds(A2, q, t, k)' PROVE q = a
  <2>1. A2[q][t] <= Len(T[t])
    BY MarksStep DEF Stepping, Sound
  <2>2. A2[q][t] \in Nat
    BY DEF Stepping, Marks
  <2>3. ~(k <= A2[q][t])
    BY <1>1, <2>1, <2>2
  <2>4. OnRecord(q, t)'
    BY <1>3, <2>3 DEF Holds
  <2>5. OnRecord(a, t)'
    BY <1>2 DEF Stepping, Sound, Offices
  <2> QED BY <2>4, <2>5 DEF Stepping, UniqueLeaders, OnRecord
<1>4. LogsKeep(T2, A2, t, k)'
  <2>1. t <= term'[a] /\ k <= Len(logs'[a]) /\ Within(logs'[a], k, T2[t])
    BY <1>2 DEF Own, Within
  <2> QED BY <1>3, <2>1 DEF LogsKeep
<1>5. ASSUME NEW e \in elections', e.term > t PROVE FALSE
  <2>1. ASSUME NEW v \in e.voters PROVE term'[v] > t /\ ~Holds(A2, v, t, k)'
    <3>1. e.term <= term'[v] /\ v \in Node /\ e.term \in Nat
      BY VotersReached
    <3>2. term'[v] \in Nat
      BY <3>1, SteppingFacts DEF TypeOK
    <3>3. term'[v] > t
      BY <1>5, <3>1, <3>2
    <3>4. v # a
      BY <1>2, <3>3
    <3> QED BY <1>3, <3>1, <3>3, <3>4
  <2>2. e.voters \in SUBSET Node /\ IsMajority(Cardinality(e.voters))'
    BY VotersReached DEF IsMajority, nb_node
  <2> QED BY <2>1, <2>2 DEF Lost
<1>6. LeadersKeep(T2, t, k)'
  BY <1>5 DEF LeadersKeep
<1>7. CandidatesKeep(T2, A2, t, k)'
  <2> SUFFICES ASSUME NEW v \in votes', v[2] > t, Holds(A2, v[1], t, k)'
               PROVE  FALSE
    BY DEF CandidatesKeep
  <2>1. /\ v[1] \in Node /\ v[2] \in Nat
        /\ v[2] < term'[v[1]] \/ v[2] = term'[v[1]]
    BY DEF Stepping, Sound, VotesBind
  <2>2. v[1] = a
    BY <1>3, <2>1
  <2> QED BY <1>2, <2>1, <2>2
<1>8. UpdatesKeep(t, k)'
  <2> SUFFICES ASSUME NEW m \in Node, NEW n \in Node, NEW x \in InFlight(m, n)',
                      IsUpdate(x), x.term > t
               PROVE  FALSE
    BY DEF UpdatesKeep, IsUpdate, Throws, End
  <2>1. OnRecord(m, x.term)'
    BY DEF Stepping, Sound, UpdatesOnRecord, IsUpdate
  <2> QED BY <1>5, <2>1 DEF OnRecord
<1> QED BY <1>4, <1>6, <1>7, <1>8 DEF KeptAt

(* Two logs that agree with a third up to k agree up to k. *)
LEMMA WithinBoth ==
  ASSUME NEW p, NEW h, NEW log, NEW k, Within(p, k, h), Within(log, k, h),
         k <= Len(p)
  PROVE  Within(log, k, p)
BY DEF Within

(* What comes of an update of term u that reaches position k. *)
LEMMA FollowedWithin ==
  ASSUME NEW log \in Seq(Entry), NEW h \in Seq(Entry), Begins(log, h),
         NEW k \in Nat, k <= Len(log), NEW p, k <= Len(p), Within(p, k, h)
  PROVE  Within(log, k, p)
<1>1. Len(log) \in Nat /\ Len(h) \in Nat
  OBVIOUS
<1>2. Within(log, k, h)
  BY <1>1 DEF Begins, Within
<1> QED BY <1>2, WithinBoth

LEMMA LogsKeepStep ==
  ASSUME NEW T, NEW T2, NEW A, NEW A2, Stepping(T, T2, A, A2),
         NEW t \in Nat, NEW k \in Nat, Own(T, t, k), Own(T2, t, k), KeptAt(T, A, t, k)
  PROVE  LogsKeep(T2, A2, t, k)'
<1> SUFFICES ASSUME NEW q \in Node, Holds(A2, q, t, k)'
             PROVE  term'[q] >= t /\ k <= Len(logs'[q]) /\ Within(logs'[q], k, T2[t])
  BY DEF LogsKeep
<1>1. /\ TypeOK /\ TypeOK' /\ [Next]_vars /\ T[0] = <<>> /\ Follow(T)
      /\ T \in Histories /\ T2 \in Histories /\ Grow(T, T2)
  BY SteppingFacts DEF Stepping
<1>2. /\ term[q] \in Nat /\ term'[q] \in Nat /\ VoteKept(q)
      /\ logs[q] \in Seq(Entry) /\ logs'[q] \in Seq(Entry)
  BY <1>1, OneVoteStep DEF TypeOK
<1>3. k > 0 /\ k <= Len(T[t])
  BY DEF Own
<1>4. ASSUME k <= A2[q][t], term'[q] = t
      PROVE  k <= Len(logs'[q]) /\ Within(logs'[q], k, T2[t])
  <2>1. A2[q][t] \in Nat
    BY DEF Stepping, Marks
  <2>2. PICK n \in Node : Acknowledges(T2, q, n, Mark(t, A2[q][t]))'
    BY <1>3, <1>4, <2>1, SteppingFacts DEF Promised
  <2>3. A2[q][t] <= Len(logs'[q]) /\ Within(logs'[q], A2[q][t], T2[t])
    BY <1>4, <2>2 DEF Acknowledges, Mark
  <2>4. Len(logs'[q]) \in Nat /\ Len(T2[t]) \in Nat
    <3>1. T2[t] \in Seq(Entry)
      BY <1>1 DEF Histories
    <3> QED BY <1>2, <3>1
  <2> QED BY <1>4, <2>1, <2>3, <2>4 DEF Within
<1>5. ASSUME OnRecord(q, t)', ~OnRecord(q, t)
      PROVE  /\ term'[q] = t
             /\ k <= Len(logs'[q]) /\ Within(logs'[q], k, T2[t])
  <2>1. state'[q] = "LEADER" /\ term'[q] = t
    BY <1>5, RecordStep DEF Stepping, OnRecord
  <2>2. T2[t] = logs'[q]
    BY <2>1 DEF Stepping, Continue
  <2> QED BY <2>1, <2>2 DEF Own, Within
<1>6. ASSUME Holds(A, q, t, k), OnRecord(q, t) \/ term'[q] # t
      PROVE  term'[q] >= t /\ k <= Len(logs'[q]) /\ Within(logs'[q], k, T2[t])
  <2>1. term[q] >= t /\ k <= Len(logs[q]) /\ Within(logs[q], k, T[t])
    BY <1>6 DEF KeptAt, LogsKeep
  <2>2. term'[q] >= t
    BY <1>2, <2>1 DEF VoteKept
  <2>3. CASE logs'[q] = logs[q]
    BY <1>1, <2>1, <2>2, <2>3, WithinGrows
  <2>4. ASSUME NEW n \in Node \ {q}, FollowerAppends(q, n)
        PROVE  k <= Len(logs'[q]) /\ Within(logs'[q], k, T2[t])
    <3> PICK rpc : rpc = NextRpc(q, n)
      OBVIOUS
    <3>1. /\ rpc \in InFlight(n, q) /\ rpc \in NodeRpc /\ IsUpdate(rpc)
          /\ Begins(logs'[q], T[rpc.term]) /\ Len(logs'[q]) = End(rpc)
      BY <1>1, <2>4, FollowerLog
    <3>2. rpc.term \in Nat /\ rpc.term = term'[q]
      <4>1. rpc.term >= term[q] /\ term' = [term EXCEPT ![q] = TermAfter(q, rpc)]
        BY <2>4 DEF FollowerAppends
      <4>2. term \in [Node -> Nat] /\ rpc.term \in Nat
        BY <1>1, <3>1, NodeRpcFields DEF TypeOK
      <4> QED BY <4>1, <4>2 DEF TermAfter
    <3>3. OnRecord(n, rpc.term)
      BY <3>1 DEF Stepping, Sound, UpdatesOnRecord, IsUpdate
    <3>4. rpc.term # t
      BY <1>6, <3>2, <3>3 DEF OnRecord, Stepping, UniqueLeaders
    <3>5. rpc.term > t
      BY <2>2, <3>2, <3>4
    <3>6. k <= Len(logs'[q])
      BY <3>1, <3>5 DEF KeptAt, UpdatesKeep
    <3>7. Within(T[t], k, T[rpc.term])
      BY <3>3, <3>5 DEF KeptAt, LeadersKeep, OnRecord
    <3>8. T[rpc.term] \in Seq(Entry)
      BY <1>1, <3>2 DEF Histories
    <3>9. Within(logs'[q], k, T[t])
      BY <1>2, <1>3, <3>1, <3>6, <3>7, <3>8, FollowedWithin
    <3> QED BY <1>1, <3>6, <3>9, WithinGrows
  <2>5. ASSUME NEW c \in Client, NEW cmd \in Cmd, LeaderAppendsCommand(q, c, cmd)
        PROVE  k <= Len(logs'[q]) /\ Within(logs'[q], k, T2[t])
    <3>1. state'[q] = "LEADER"
      BY <2>5 DEF LeaderAppendsCommand, voteVars
    <3>2. Begins(logs[q], logs'[q])
      BY <1>1, <3>1, LeaderLogGrows
    <3>3. Len(logs[q]) \in Nat /\ Len(logs'[q]) \in Nat
      BY <1>2
    <3>4. k <= Len(logs'[q]) /\ Within(logs'[q], k, T[t])
      BY <2>1, <3>2, <3>3 DEF Begins, Within
    <3> QED BY <1>1, <3>4, WithinGrows
  <2> QED BY <1>1, <2>2, <2>3, <2>4, <2>5, LogStep
<1>7. CASE OnRecord(q, t)
  BY <1>6, <1>7 DEF Holds
<1>8. CASE OnRecord(q, t)' /\ ~OnRecord(q, t)
  BY <1>2, <1>5, <1>8
<1>9. CASE k <= A2[q][t] /\ term'[q] = t
  BY <1>2, <1>4, <1>9
<1>10. CASE Holds(A, q, t, k) /\ term'[q] # t
  BY <1>6, <1>10
<1> QED BY <1>7, <1>8, <1>9, <1>10, HoldsBefore DEF Holds

LEMMA LeadersKeepStep ==
  ASSUME NEW T, NEW T2, NEW A, NEW A2, Stepping(T, T2, A, A2),
         NEW t \in Nat, NEW k \in Nat, Own(T, t, k), Own(T2, t, k), KeptAt(T, A, t, k),
         ~Lost(A, t, k)
  PROVE  LeadersKeep(T2, t, k)'
<1> SUFFICES ASSUME NEW e \in elections', e.term > t
             PROVE  Within(T2[t], k, T2[e.term])
  BY DEF LeadersKeep
<1>1. /\ TypeOK /\ TypeOK' /\ [Next]_vars
      /\ T \in Histories /\ T2 \in Histories /\ Grow(T, T2)
  BY SteppingFacts DEF Stepping
<1>2. e.term \in Nat /\ e.leader \in Node
  BY VotersReached
<1>3. /\ T[t] \in Seq(Entry) /\ T2[t] \in Seq(Entry) /\ Begins(T[t], T2[t])
      /\ T2[e.term] \in Seq(Entry)
  BY <1>1, <1>2 DEF Histories, Grow
<1>4. Len(T[t]) \in Nat /\ Len(T2[t]) \in Nat /\ k \in 1 .. Len(T[t])
  BY <1>3 DEF Own
<1>5. \A i \in 1 .. k : T2[t][i] = T[t][i]
  BY <1>3, <1>4 DEF Begins
<1>6. CASE e \in elections
  <2>1. Within(T[t], k, T[e.term])
    BY <1>6 DEF KeptAt, LeadersKeep
  <2>2. Within(T[t], k, T2[e.term])
    BY <1>1, <1>2, <2>1, WithinGrows
  <2> QED BY <1>5, <2>2 DEF Within
<1>7. CASE e \notin elections
  <2> DEFINE c == e.leader
             u == e.term
  <2>1. state'[c] = "LEADER" /\ state[c] # "LEADER" /\ u = term'[c]
    BY <1>7, RecordStep DEF Stepping
  <2>2. PICK m \in Node \ {c} : CandidateTakesVote(c, m)
    <3>1. Next
      BY <2>1 DEF Stepping, HistoryNext, vars, voteVars
    <3> QED BY <1>1, <1>2, <2>1, <3>1, ElectedStep
  <2>3. /\ state[c] = "CANDIDATE"
        /\ UNCHANGED <<term, votedFor, logs>>
    BY <2>2 DEF CandidateTakesVote, Receives
  <2>4. votes' = votes
    <3>1. CASE UNCHANGED <<vars, historyVars>>
      BY <3>1 DEF historyVars
    <3>2. CASE HistoryNext
      BY <2>3, <3>2 DEF HistoryNext, Record, Stepping, Sound, VotesRecorded
    <3> QED BY <3>1, <3>2 DEF Stepping
  <2>5. PICK v \in e.voters : Holds(A, v, t, k)
    <3>1. ASSUME NEW v \in e.voters PROVE term[v] > t
      <4>1. v \in Node /\ u <= term[v]
        BY <2>3, VotersReached
      <4>2. term[v] \in Nat
        BY <1>1, <4>1 DEF TypeOK
      <4> QED BY <1>2, <4>1, <4>2
    <3>2. e.voters \in SUBSET Node /\ IsMajority(Cardinality(e.voters))
      BY VotersReached
    <3> QED BY <3>1, <3>2 DEF Lost
  <2>6. <<v, u, c>> \in votes
    BY <2>4, VotersReached
  <2>7. k <= Len(logs[c]) /\ Within(logs[c], k, T[t])
    BY <2>1, <2>3, <2>5, <2>6 DEF KeptAt, CandidatesKeep
  <2>8. T2[u] = logs[c]
    BY <1>2, <2>1, <2>3 DEF Stepping, Continue
  <2>9. k <= Len(T2[u]) /\ \A i \in 1 .. k : T2[u][i] = T[t][i]
    BY <2>7, <2>8 DEF Within
  <2> HIDE DEF u
  <2>10. Within(T2[t], k, T2[u])
    BY <1>5, <2>9 DEF Within
  <2> QED BY <2>10 DEF u
<1> QED BY <1>6, <1>7

(* A log that a voter finds up to date holds what the log of the voter     *)
(* holds of term t, if the logs of later terms do.                         *)
LEMMA UpToDateLog ==
  ASSUME NEW T \in Histories, NEW p \in Seq(Entry), NEW c \in Seq(Entry),
         NEW t \in Nat, NEW k \in Nat, Own(T, t, k),
         k <= Len(p), Within(p, k, T[t]),
         \A i \in DOMAIN p : \A j \in i .. Len(p) : p[i].term <= p[j].term,
         LogOf(T, c),
         \/ LastTerm(p) < LastTerm(c)
         \/ LastTerm(p) = LastTerm(c) /\ LastIndex(p) <= LastIndex(c),
         \A w \in Nat : w > t /\ T[w] # <<>> => Within(T[t], k, T[w])
  PROVE  k <= Len(c) /\ Within(c, k, T[t])
<1> DEFINE n == Len(c)
           w == c[n].term
<1>1. Len(p) \in Nat /\ DOMAIN p = 1 .. Len(p) /\ n \in Nat /\ k \in 1 .. Len(p)
  BY DEF Own
<1>2. p # <<>> /\ LastTerm(p) = p[Len(p)].term
  BY <1>1 DEF LastTerm
<1>3. p[k].term = t
  BY <1>1 DEF Own, Within
<1>4. LastTerm(p) >= t /\ LastTerm(p) \in Nat
  <2>1. p[Len(p)].term \in Nat
    BY <1>1, EntryFields
  <2>2. p[k].term <= p[Len(p)].term
    BY <1>1
  <2> QED BY <1>2, <1>3, <2>1, <2>2
<1>5. c # <<>>
  <2>1. ASSUME c = <<>> PROVE FALSE
    <3>1. LastTerm(c) = -1
      BY <2>1 DEF LastTerm
    <3> QED BY <1>4, <3>1
  <2> QED BY <2>1
<1>6. n \in DOMAIN c /\ n > 0 /\ LastTerm(c) = w /\ w \in Nat
  <2>1. n \in DOMAIN c /\ n > 0
    BY <1>5
  <2> QED BY <1>5, <2>1, EntryFields DEF LastTerm
<1>7. n <= Len(T[w]) /\ \A i \in 1 .. n : c[i] = T[w][i]
  BY <1>6 DEF LogOf, Within
<1>8. w >= t
  <2>1. LastTerm(c) \in Nat
    BY <1>6
  <2> QED BY <1>4, <1>6, <2>1
<1>9. CASE w = t
  <2>1. LastTerm(p) = LastTerm(c)
    BY <1>4, <1>6, <1>9
  <2>2. Len(p) <= n
    BY <1>1, <1>6, <2>1 DEF LastIndex
  <2>3. k <= n
    BY <1>1, <2>2
  <2> HIDE DEF w, n
  <2> QED BY <1>1, <1>7, <1>9, <2>3 DEF Own, Within, n
<1>10. CASE w > t
  <2>1. T[w] # <<>>
    <3>1. T[w] \in Seq(Entry)
      BY <1>6 DEF Histories
    <3>2. Len(T[w]) > 0
      BY <1>1, <1>6, <1>7, <3>1
    <3> QED BY <3>2
  <2>2. Within(T[t], k, T[w])
    BY <1>6, <1>10, <2>1
  <2>3. CASE k <= n
    <3> HIDE DEF w, n
    <3> QED BY <1>1, <1>7, <2>2, <2>3 DEF Own, Within, n
  <2>4. CASE n < k
    <3>1. p[n] = c[n]
      <4> HIDE DEF w, n
      <4>1. n \in 1 .. k /\ n \in 1 .. n
        BY <1>1, <1>6, <2>4
      <4>2. p[n] = T[t][n] /\ T[t][n] = T[w][n] /\ c[n] = T[w][n]
        BY <1>7, <2>2, <4>1 DEF Within
      <4> QED BY <4>2
    <3>2. p[n].term <= p[k].term
      <4>1. n \in DOMAIN p /\ k \in n .. Len(p)
        BY <1>1, <1>6, <2>4
      <4> HIDE DEF n
      <4> QED BY <4>1
    <3>3. w <= t
      BY <1>3, <3>1, <3>2
    <3> QED BY <1>6, <1>10, <3>3
  <2> QED BY <1>1, <2>3, <2>4
<1> QED BY <1>6, <1>8, <1>9, <1>10

LEMMA CandidatesKeepStep ==
  ASSUME NEW T, NEW T2, NEW A, NEW A2, Stepping(T, T2, A, A2),
         NEW t \in Nat, NEW k \in Nat, Own(T, t, k), Own(T2, t, k), KeptAt(T, A, t, k)
  PROVE  CandidatesKeep(T2, A2, t, k)'
<1> SUFFICES ASSUME NEW v \in votes', v[2] > t, Holds(A2, v[1], t, k)',
                    state'[v[3]] = "CANDIDATE", term'[v[3]] = v[2]
             PROVE  k <= Len(logs'[v[3]]) /\ Within(logs'[v[3]], k, T2[t])
  BY DEF CandidatesKeep
<1> DEFINE q == v[1]
           u == v[2]
           c == v[3]
<1>1. /\ TypeOK /\ TypeOK' /\ [Next]_vars /\ Follow(T)
      /\ T \in Histories /\ T2 \in Histories /\ Grow(T, T2)
  BY SteppingFacts DEF Stepping
<1>2. /\ q \in Node /\ u \in Nat /\ c \in Node
      /\ term'[q] \in Nat /\ term'[q] >= u
  <2>1. /\ v \in Node \X Nat \X Node
        /\ u < term'[q] \/ u = term'[q]
    BY DEF Stepping, Sound, VotesBind
  <2>2. term'[q] \in Nat
    BY <1>1, <2>1 DEF TypeOK
  <2> QED BY <2>1, <2>2
<1>3. /\ logs[c] \in Seq(Entry) /\ logs'[c] = logs[c]
      /\ term[c] \in Nat
  BY <1>1, <1>2, CandidateLog DEF TypeOK
<1>4. Holds(A, q, t, k)
  <2>1. term'[q] # t
    BY <1>2
  <2> QED BY <1>2, <2>1, HoldsBefore
<1>5. ASSUME u <= term[c] PROVE state[c] = "CANDIDATE" /\ term[c] = u
  <2>1. TermOfOffice(c)
    BY <1>1, <1>2, OfficeStep
  <2> QED BY <1>2, <1>3, <1>5, <2>1 DEF TermOfOffice
<1>6. ASSUME v \in votes
      PROVE  k <= Len(logs[c]) /\ Within(logs[c], k, T[t])
  <2>1. u <= term[c]
    BY <1>6 DEF Stepping, Sound, VotesCurrent
  <2> QED BY <1>4, <1>5, <1>6, <2>1 DEF KeptAt, CandidatesKeep
<1>7. ASSUME v \notin votes
      PROVE  \/ c = q
             \/ k <= Len(logs[c]) /\ Within(logs[c], k, T[t])
  <2>1. u = term'[q] /\ c = votedFor'[q] /\ c # Nil /\ v = <<q, u, c>>
    <3>1. PICK n \in Node : votedFor'[n] # Nil /\ v = <<n, term'[n], votedFor'[n]>>
      BY <1>7 DEF Stepping, HistoryNext, Record, historyVars
    <3> QED BY <3>1
  <2>2. ~(term'[q] = term[q] /\ votedFor'[q] = votedFor[q])
    BY <1>2, <1>7, <2>1 DEF Stepping, Sound, VotesRecorded
  <2>3. ASSUME c # q
        PROVE  k <= Len(logs[c]) /\ Within(logs[c], k, T[t])
    <3>1. PICK m \in Node \ {q} : /\ FollowerRequestVote(q, m)
                                  /\ GrantsVote(q, m, NextRpc(q, m)) /\ votedFor'[q] = m
      BY <1>1, <1>2, <2>1, <2>2, <2>3, VoteCast
    <3> PICK rpc : rpc = NextRpc(q, c)
      OBVIOUS
    <3>2. /\ rpc \in NodeRpc /\ rpc.type = "REQUEST_VOTE" /\ rpc.term = term'[q]
          /\ rpc.term <= term[c]
          /\ state[c] = "CANDIDATE" /\ term[c] = rpc.term =>
               rpc.lastLogIndex = LastIndex(logs[c]) /\ rpc.lastLogTerm = LastTerm(logs[c])
          /\ \/ term[q] = rpc.term /\ votedFor[q] = c
             \/ UpToDate(logs[q], rpc)
      BY <1>1, <1>2, <2>1, <3>1, VoteGranted DEF Stepping, Sound
    <3>3. state[c] = "CANDIDATE" /\ term[c] = u
      BY <1>5, <2>1, <3>2
    <3>4. ~(term[q] = rpc.term /\ votedFor[q] = c)
      BY <2>1, <2>2, <3>2
    <3>5. k <= Len(logs[q]) /\ Within(logs[q], k, T[t])
      BY <1>2, <1>4 DEF KeptAt, LogsKeep
    <3>6. logs[q] \in Seq(Entry) /\ logs[q] # <<>>
      <4>1. logs[q] \in Seq(Entry)
        BY <1>1, <1>2 DEF TypeOK
      <4>2. Len(logs[q]) > 0
        BY <3>5, <4>1 DEF Own
      <4> QED BY <4>1, <4>2
    <3>7. \/ LastTerm(logs[q]) < LastTerm(logs[c])
          \/ /\ LastTerm(logs[q]) = LastTerm(logs[c])
             /\ LastIndex(logs[q]) <= LastIndex(logs[c])
      BY <2>1, <3>2, <3>3, <3>4, <3>6 DEF UpToDate
    <3>8. \A i \in DOMAIN logs[q] : \A j \in i .. Len(logs[q]) :
            logs[q][i].term <= logs[q][j].term
      BY <1>2 DEF Stepping, Sound, LogTermsInOrder
    <3>9. LogOf(T, logs[c])
      BY <1>1, <1>2 DEF Follow
    <3>10. ASSUME NEW w \in Nat, w > t, T[w] # <<>> PROVE Within(T[t], k, T[w])
      <4>1. PICK e \in elections : e.term = w
        BY <1>1, <3>10 DEF Follow
      <4> QED BY <3>10, <4>1 DEF KeptAt, LeadersKeep
    <3> HIDE DEF q, u, c
    <3> QED BY <1>1, <1>3, <3>5, <3>6, <3>7, <3>8, <3>9, <3>10, UpToDateLog
  <2> QED BY <2>3
<1>8. ASSUME c = q
      PROVE  k <= Len(logs'[c]) /\ Within(logs'[c], k, T2[t])
  <2>1. LogsKeep(T2, A2, t, k)'
    BY LogsKeepStep
  <2> QED BY <1>2, <1>8, <2>1 DEF LogsKeep
<1>9. ASSUME k <= Len(logs[c]), Within(logs[c], k, T[t])
      PROVE  k <= Len(logs'[c]) /\ Within(logs'[c], k, T2[t])
  BY <1>1, <1>3, <1>9, WithinGrows
<1> QED BY <1>6, <1>7, <1>8, <1>9

LEMMA UpdatesKeepStep ==
  ASSUME NEW T, NEW T2, NEW A, NEW A2, Stepping(T, T2, A, A2),
         NEW t \in Nat, NEW k \in Nat, KeptAt(T, A, t, k), LeadersKeep(T2, t, k)'
  PROVE  UpdatesKeep(t, k)'
<1> SUFFICES ASSUME NEW a \in Node, NEW b \in Node, NEW x \in InFlight(a, b)',
                    IsUpdate(x), x.term > t
             PROVE  k <= End(x)
  BY DEF UpdatesKeep, IsUpdate, Throws, End
<1>1. TypeOK /\ TypeOK' /\ [Next]_vars /\ Follow(T)
  BY SteppingFacts DEF Stepping
<1>2. CASE x \in InFlight(a, b)
  BY <1>2 DEF KeptAt, UpdatesKeep
<1>3. CASE Sends(a, b, x)
  <2>1. x \in NodeRpc
    BY <1>1, UnderWayType DEF InFlight, TypeOK
  <2>2. /\ state'[a] = "LEADER" /\ x.term = term[a] /\ term'[a] = term[a]
        /\ End(x) = Len(logs[a])
    BY <1>3, <2>1, UpdateSent DEF Stepping, Sound
  <2>3. CASE state[a] = "LEADER"
    <3>1. T[x.term] = logs[a]
      BY <1>1, <2>2, <2>3 DEF Follow
    <3>2. OnRecord(a, x.term)
      BY <2>2, <2>3 DEF Stepping, Sound, Offices
    <3>3. Within(T[t], k, T[x.term])
      BY <3>2 DEF KeptAt, LeadersKeep, OnRecord
    <3> QED BY <2>2, <3>1, <3>3 DEF Within
  <2>4. CASE state[a] # "LEADER"
    <3>1. Next
      BY <2>2, <2>4 DEF Stepping, HistoryNext, vars, voteVars
    <3>2. PICK m \in Node \ {a} : CandidateTakesVote(a, m)
      BY <1>1, <2>2, <2>4, <3>1, ElectedStep
    <3>3. logs' = logs
      BY <3>2 DEF CandidateTakesVote
    <3>4. T2[x.term] = logs[a]
      BY <2>2, <3>3 DEF Stepping, Continue
    <3>5. OnRecord(a, x.term)'
      BY <2>2 DEF Stepping, Sound, Offices
    <3>6. Within(T2[t], k, T2[x.term])
      BY <3>5 DEF LeadersKeep, OnRecord
    <3> QED BY <2>2, <3>4, <3>6 DEF Within
  <2> QED BY <2>3, <2>4
<1> QED BY <1>1, <1>2, <1>3, StepSends

LEMMA KeptStep ==
  ASSUME NEW T, NEW T2, NEW A, NEW A2, Stepping(T, T2, A, A2), Kept(T, A)
  PROVE  Kept(T2, A2)'
<1> SUFFICES ASSUME NEW t \in Nat, NEW k \in Nat, Own(T2, t, k), ~Lost(A2, t, k)'
             PROVE  KeptAt(T2, A2, t, k)'
  BY DEF Kept, Own
<1>1. CASE ~Own(T, t, k)
  BY <1>1, NewEntryKept
<1>2. CASE Own(T, t, k)
  <2>1. ~Lost(A, t, k)
    BY LostStays
  <2>2. KeptAt(T, A, t, k)
    BY <1>2, <2>1 DEF Kept
  <2>3. LeadersKeep(T2, t, k)'
    BY <1>2, <2>1, <2>2, LeadersKeepStep
  <2> QED BY <1>2, <2>2, <2>3, LogsKeepStep, CandidatesKeepStep, UpdatesKeepStep DEF KeptAt
<1> QED BY <1>1, <1>2

-----------------------------------------------------------------------------
(* What a step adds to the record of commits.                              *)

Commitment(n) ==
  [term |-> term[n], log |-> SubSeq(logs[n], 1, commitIndex'[n] + 1)]

LEMMA RecordCommitsStep ==
  ASSUME [CommitNext]_<<vars, historyVars, commitHistory>>
  PROVE  /\ late \subseteq late' /\ commits \subseteq commits'
         /\ \A n \in CountingLate : term[n] \in late'
         /\ \A n \in Committing : Commitment(n) \in commits'
         /\ \A c \in commits' : c \in commits \/ \E n \in Committing : c = Commitment(n)
<1>1. CASE UNCHANGED <<vars, historyVars, commitHistory>>
  <2>1. UNCHANGED <<matchIndex, commitIndex, late, commits>>
    BY <1>1 DEF vars, indexVars, commitVars, commitHistory
  <2>2. CountingLate = {}
    BY <2>1 DEF CountingLate
  <2>3. ASSUME NEW n \in Node PROVE commitIndex[n] \notin commitIndex[n] + 1 .. LastIndex(logs[n])
    OBVIOUS
  <2>4. Committing = {}
    BY <2>1, <2>3 DEF Committing
  <2> QED BY <2>1, <2>2, <2>4
<1>2. CASE CommitNext
  BY <1>2 DEF CommitNext, RecordCommits, Commitment
<1> QED BY <1>1, <1>2

(* As long as no election was recorded as unbacked, all are backed. *)
BackedSoFar == unbacked = {} => AllBacked

LEMMA BackedSoFarStep ==
  ASSUME BackedSoFar, [CommitNext]_<<vars, historyVars, commitHistory>>
  PROVE  BackedSoFar'
<1>1. CASE UNCHANGED <<vars, historyVars, commitHistory>>
  BY <1>1 DEF historyVars, commitHistory, BackedSoFar, AllBacked, Backed
<1>2. CASE CommitNext
  <2> SUFFICES ASSUME unbacked' = {}, NEW e \in elections' PROVE Backed(e)'
    BY DEF BackedSoFar, AllBacked, Backed
  <2>1. unbacked' = unbacked \cup {f \in elections' \ elections : ~Backed(f)'}
    BY <1>2 DEF CommitNext, RecordCommits
  <2>2. CASE e \in elections
    <3>1. Backed(e)
      BY <2>1, <2>2 DEF BackedSoFar, AllBacked
    <3>2. votes \subseteq votes'
      BY <1>2 DEF CommitNext, HistoryNext, Record
    <3> QED BY <3>1, <3>2 DEF Backed
  <2>3. CASE e \notin elections
    BY <2>1, <2>3
  <2> QED BY <2>2, <2>3
<1> QED BY <1>1, <1>2

LEMMA UnbackedGrows ==
  ASSUME [CommitNext]_<<vars, historyVars, commitHistory>>, unbacked' = {}
  PROVE  unbacked = {}
BY DEF CommitNext, RecordCommits, commitHistory

-----------------------------------------------------------------------------
(* What a leader knows of its followers.                                   *)

(* A leader that counted answers of its own term only knows of a follower  *)
(* no more than the follower has acknowledged.                             *)
Matched(A) ==
  \A n \in Node : state[n] = "LEADER" /\ term[n] \notin late =>
    \A d \in Node \ {n} : matchIndex[n][d] + 1 <= A[d][term[n]]

LEMMA MatchStep ==
  ASSUME TypeOK, [Next]_vars, NEW n \in Node, state'[n] = "LEADER",
         NEW d \in Node \ {n}
  PROVE  \/ state[n] = "LEADER" /\ matchIndex'[n][d] = matchIndex[n][d]
         \/ matchIndex'[n][d] = -1
         \/ /\ LeaderAppendSucceeded(n, d)
            /\ matchIndex'[n][d] = NextRpc(n, d).newIndex - 1
<1>1. /\ matchIndex \in [Node -> [Node -> Index]]
      /\ state \in [Node -> {"FOLLOWER", "LEADER", "CANDIDATE"}]
  BY DEF TypeOK
<1>2. CASE state[n] # "LEADER"
  <2>1. Next
    BY <1>2 DEF vars, voteVars
  <2>2. PICK m \in Node \ {n} : CandidateIsElected(n, m)
    BY <1>2, <2>1, ElectedStep
  <2>3. matchIndex'[n] = FreshMatch
    BY <1>1, <2>2 DEF CandidateIsElected
  <2> QED BY <2>3 DEF FreshMatch
<1>3. ASSUME state[n] = "LEADER", UNCHANGED matchIndex
      PROVE  state[n] = "LEADER" /\ matchIndex'[n][d] = matchIndex[n][d]
  BY <1>3
<1>4. ASSUME state[n] = "LEADER", NEW k \in Node, state[k] # "LEADER",
             EmptyNextStateRead(k) \/ (\E m \in Node : CandidateIsElected(k, m))
      PROVE  matchIndex'[n][d] = matchIndex[n][d]
  <2>1. n # k
    BY <1>4
  <2>2. UNCHANGED matchIndex \/ matchIndex' = [matchIndex EXCEPT ![k] = FreshMatch]
    BY <1>4 DEF EmptyNextStateRead, CandidateIsElected, indexVars
  <2> QED BY <1>1, <2>1, <2>2
<1>5. ASSUME NEW k \in Node, FollowerTimeout(k) \/ CandidateTimeout(k) \/ LeaderTimeout(k),
             state[n] = "LEADER"
      PROVE  matchIndex'[n][d] = matchIndex[n][d]
  <2>1. \/ state[k] # "LEADER" /\ EmptyNextStateRead(k)
        \/ UNCHANGED matchIndex
    BY <1>5 DEF FollowerTimeout, CandidateTimeout, LeaderTimeout, Abort, indexVars
  <2> QED BY <1>3, <1>4, <1>5, <2>1
<1>6. ASSUME NEW k \in Node, NEW m \in Node \ {k}, HandleNodeRequest(k, m),
             state[n] = "LEADER"
      PROVE  \/ matchIndex'[n][d] = matchIndex[n][d]
             \/ /\ LeaderAppendSucceeded(n, d)
                /\ matchIndex'[n][d] = NextRpc(n, d).newIndex - 1
  <2>1. CASE LeaderAppendSucceeded(k, m)
    <3>1. matchIndex' = [matchIndex EXCEPT ![k] =
                           [matchIndex[k] EXCEPT ![m] = NextRpc(k, m).newIndex - 1]]
      BY <2>1 DEF LeaderAppendSucceeded
    <3>2. CASE k = n /\ m = d
      BY <1>1, <2>1, <3>1, <3>2
    <3>3. CASE ~(k = n /\ m = d)
      BY <1>1, <3>1, <3>3
    <3> QED BY <3>2, <3>3
  <2>2. CASE CandidateTakesVote(k, m)
    <3>1. state[k] = "CANDIDATE" /\ (UNCHANGED matchIndex \/ CandidateIsElected(k, m))
      BY <2>2 DEF CandidateTakesVote, CandidateCountsVote, Receives, indexVars
    <3> QED BY <1>3, <1>4, <1>6, <3>1
  <2>3. CASE ~LeaderAppendSucceeded(k, m) /\ ~CandidateTakesVote(k, m)
    <3>1. UNCHANGED matchIndex
      BY <1>6, <2>3 DEF HandleNodeRequest, FollowerRequestVote,
         FollowerRejectsStaleLeader, FollowerRejectsGap, FollowerAppends,
         FollowerAborts, FollowerIgnores, StepDown, BecomeFollower,
         CandidateMeetsLeader, CandidateIgnores, LeaderAppendFailed, LeaderAborts,
         LeaderIgnores, CrashLoopDrops, Abort, indexVars
    <3> QED BY <3>1
  <2> QED BY <2>1, <2>2, <2>3
<1>7. ASSUME NEW k \in Node, NEW c \in Client, NEW cmd \in Cmd,
             LeaderAppendsCommand(k, c, cmd)
      PROVE  matchIndex'[n][d] = matchIndex[n][d]
  BY <1>7 DEF LeaderAppendsCommand, indexVars
<1>8. ASSUME NEW k \in CrashTargets, Crash(k) \/ Recover(k) \/ RecoverAborts(k),
             state[n] = "LEADER"
      PROVE  matchIndex'[n][d] = matchIndex[n][d]
  <2>1. k \in Node
    BY CrashAssumption
  <2>2. \/ state[k] # "LEADER" /\ EmptyNextStateRead(k)
        \/ UNCHANGED matchIndex
    BY <1>8 DEF Crash, Recover, RecoverAborts, Abort, indexVars
  <2> QED BY <1>3, <1>4, <1>8, <2>1, <2>2
<1>9. CASE UNCHANGED vars
  BY <1>2, <1>3, <1>9 DEF vars, indexVars
<1> QED BY <1>2, <1>5, <1>6, <1>7, <1>8, <1>9 DEF Next

LEMMA MatchedStep ==
  ASSUME NEW T, NEW T2, NEW A, NEW A2, Stepping(T, T2, A, A2), Told(A), Matched(A),
         [CommitNext]_<<vars, historyVars, commitHistory>>
  PROVE  Matched(A2)'
<1> SUFFICES ASSUME NEW n \in Node, state'[n] = "LEADER", term'[n] \notin late',
                    NEW d \in Node \ {n}
             PROVE  matchIndex'[n][d] + 1 <= A2[d][term'[n]]
  BY DEF Matched
<1>1. TypeOK /\ TypeOK' /\ [Next]_vars
  BY SteppingFacts
<1>2. term'[n] = term[n]
  BY <1>1, OfficeStep DEF TermOfOffice
<1> PICK t : t = term[n]
  OBVIOUS
<1>3. t \in Nat /\ matchIndex[n][d] \in Index
  BY <1>1 DEF TypeOK
<1>4. A[d][t] \in Nat /\ A2[d][t] \in Nat
  BY <1>3 DEF Stepping, Marks
<1>5. A[d][t] <= A2[d][t]
  BY <1>3, MarksStep DEF Stepping, Sound
<1>6. ASSUME state[n] = "LEADER", matchIndex'[n][d] = matchIndex[n][d]
      PROVE  matchIndex'[n][d] + 1 <= A2[d][t]
  <2>1. term[n] \notin late
    BY <1>2, RecordCommitsStep
  <2>2. matchIndex[n][d] + 1 <= A[d][t]
    BY <1>6, <2>1 DEF Matched
  <2> QED BY <1>3, <1>4, <1>5, <1>6, <2>2 DEF Index
<1>7. CASE matchIndex'[n][d] = -1
  BY <1>2, <1>4, <1>7
<1>8. ASSUME LeaderAppendSucceeded(n, d), matchIndex'[n][d] = NextRpc(n, d).newIndex - 1,
             matchIndex'[n][d] # matchIndex[n][d]
      PROVE  matchIndex'[n][d] + 1 <= A2[d][t]
  <2> PICK r : r = NextRpc(n, d)
    OBVIOUS
  <2>1. /\ Receives(n, d, "LEADER", {"APPEND_ENTRIES_RESPONSE"})
        /\ r.term <= term[n] /\ r.success
    BY <1>8 DEF LeaderAppendSucceeded
  <2>2. r \in NodeRpc /\ IsAcknowledgement(r) /\ r \in InFlight(d, n)
    BY <1>1, <2>1, ReceiptType, NextRpcUnderWay
       DEF TypeOK, Receives, InFlight, IsAcknowledgement
  <2>3. r.term \in Nat /\ r.newIndex \in Nat
    BY <2>2, NodeRpcFields DEF IsAcknowledgement
  <2>4. ~(r.term < term[n])
    <3>1. ASSUME r.term < term[n] PROVE n \in CountingLate
      <4>1. state[n] = "LEADER"
        BY <2>1 DEF Receives
      <4> QED BY <1>8, <3>1, <4>1 DEF CountingLate
    <3> QED BY <1>2, <3>1, RecordCommitsStep
  <2>5. r.term = t
    BY <1>3, <2>1, <2>3, <2>4
  <2>6. r.newIndex <= A[d][t]
    BY <2>2, <2>5 DEF Told
  <2> QED BY <1>4, <1>5, <1>8, <2>3, <2>6
<1>9. ASSUME LeaderAppendSucceeded(n, d) PROVE state[n] = "LEADER"
  BY <1>9 DEF LeaderAppendSucceeded, Receives
<1> QED BY <1>1, <1>2, <1>6, <1>7, <1>8, <1>9, MatchStep

-----------------------------------------------------------------------------
(* What a step commits and saves.                                          *)

(* A leader whose commitIndex moves has found a majority that reaches it,  *)
(* and none that reaches further.                                          *)
LEMMA CommitStep ==
  ASSUME TypeOK, [Next]_vars, NEW n \in Node, state[n] = "LEADER",
         commitIndex'[n] # commitIndex[n]
  PROVE  /\ UNCHANGED <<state, term, logs>>
         /\ commitIndex'[n] \in Int /\ commitIndex'[n] > commitIndex[n]
         /\ Replicated(n, matchIndex'[n], commitIndex'[n])
         /\ ~Replicated(n, matchIndex'[n], commitIndex'[n] + 1)
<1>1. /\ commitIndex \in [Node -> Index]
      /\ matchIndex \in [Node -> [Node -> Index]]
  BY DEF TypeOK
<1>2. ASSUME UNCHANGED commitIndex PROVE FALSE
  BY <1>2
<1>3. ASSUME NEW k \in Node, NEW match, NEW net, CommitLoop(k, match, net),
             matchIndex' = [matchIndex EXCEPT ![k] = match],
             match \in [Node -> Int]
      PROVE  /\ commitIndex'[n] \in Int /\ commitIndex'[n] > commitIndex[n]
             /\ Replicated(n, matchIndex'[n], commitIndex'[n])
             /\ ~Replicated(n, matchIndex'[n], commitIndex'[n] + 1)
  <2>1. PICK end \in CommitLoopEnds(k, match) :
          commitIndex' = [commitIndex EXCEPT ![k] = end]
    BY <1>3 DEF CommitLoop
  <2>2. k = n
    BY <1>1, <2>1
  <2>3. commitIndex'[n] = end /\ matchIndex'[n] = match
    BY <1>1, <1>3, <2>1, <2>2
  <2>4. end \in Int /\ commitIndex[n] \in Int
    BY <1>1, <1>3, <2>1, <2>2 DEF CommitLoopEnds, Index
  <2>5. CommitLoopEnd(n, match, end)
    BY <2>1, <2>2 DEF CommitLoopEnds
  <2>6. end > commitIndex[n]
    BY <2>3, <2>4, <2>5 DEF CommitLoopEnd
  <2> QED BY <2>3, <2>4, <2>5, <2>6 DEF CommitLoopEnd
<1>4. ASSUME NEW k \in Node, NEW m \in Node \ {k}, HandleNodeRequest(k, m)
      PROVE  /\ UNCHANGED <<state, term, logs>>
             /\ \E match \in [Node -> Int] : \E net :
                  /\ CommitLoop(k, match, net)
                  /\ matchIndex' = [matchIndex EXCEPT ![k] = match]
  <2>1. CASE LeaderAppendSucceeded(k, m)
    <3> DEFINE r == NextRpc(k, m)
               match == [matchIndex[k] EXCEPT ![m] = r.newIndex - 1]
    <3>1. /\ Receives(k, m, "LEADER", {"APPEND_ENTRIES_RESPONSE"})
          /\ UNCHANGED <<state, term, logs>>
          /\ CommitLoop(k, match, ChanAfter(k, m))
          /\ matchIndex' = [matchIndex EXCEPT ![k] = match]
      BY <2>1 DEF LeaderAppendSucceeded, voteVars
    <3>2. r \in NodeRpc /\ r.type = "APPEND_ENTRIES_RESPONSE"
      BY <3>1, ReceiptType
    <3>3. r.newIndex \in Nat
      BY <3>2, NodeRpcFields
    <3> HIDE DEF r
    <3>4. match \in [Node -> Int]
      BY <1>1, <3>3 DEF Index
    <3> QED BY <3>1, <3>4
  <2>2. CASE LeaderAppendFailed(k, m) \/ LeaderIgnores(k, m)
    <3>1. /\ UNCHANGED <<state, term, logs, matchIndex>>
          /\ \E net : CommitLoop(k, matchIndex[k], net)
      BY <2>2 DEF LeaderAppendFailed, LeaderIgnores, voteVars, indexVars
    <3>2. matchIndex[k] \in [Node -> Int] /\ matchIndex = [matchIndex EXCEPT ![k] = matchIndex[k]]
      BY <1>1 DEF Index
    <3> QED BY <3>1, <3>2
  <2>3. CASE FollowerAppends(k, m)
    <3>1. state[k] = "FOLLOWER" /\ \E i : commitIndex' = [commitIndex EXCEPT ![k] = i]
      BY <2>3 DEF FollowerAppends, Receives
    <3> QED BY <1>1, <3>1
  <2>4. CASE ~LeaderAppendSucceeded(k, m) /\ ~LeaderAppendFailed(k, m)
             /\ ~LeaderIgnores(k, m) /\ ~FollowerAppends(k, m)
    <3>1. UNCHANGED commitIndex
      BY <1>4, <2>4 DEF HandleNodeRequest, FollowerRequestVote,
         FollowerRejectsStaleLeader, FollowerRejectsGap,
         FollowerAborts, FollowerIgnores, StepDown, BecomeFollower,
         CandidateTakesVote, CandidateMeetsLeader, CandidateIgnores, LeaderAborts,
         CrashLoopDrops, Abort, commitVars
    <3> QED BY <1>2, <3>1
  <2> QED BY <2>1, <2>2, <2>3, <2>4
<1>5. ASSUME NEW k \in Node, FollowerTimeout(k) \/ CandidateTimeout(k) \/ LeaderTimeout(k)
      PROVE  FALSE
  BY <1>2, <1>5 DEF FollowerTimeout, CandidateTimeout, LeaderTimeout, Abort, commitVars
<1>6. ASSUME NEW k \in Node, NEW c \in Client, NEW cmd \in Cmd,
             LeaderAppendsCommand(k, c, cmd)
      PROVE  FALSE
  BY <1>2, <1>6 DEF LeaderAppendsCommand, commitVars
<1>7. ASSUME NEW k \in CrashTargets, Crash(k) \/ Recover(k) \/ RecoverAborts(k)
      PROVE  FALSE
  BY <1>2, <1>7 DEF Crash, Recover, RecoverAborts, Abort, commitVars
<1>8. CASE UNCHANGED vars
  BY <1>2, <1>8 DEF vars, commitVars
<1> QED BY <1>3, <1>4, <1>5, <1>6, <1>7, <1>8 DEF Next

(* How a commitIndex moves: with the update a follower follows, or with    *)
(* the commit loop of a leader.  What is saved is what it moves over.      *)
LEMMA SaveStep ==
  ASSUME TypeOK, [Next]_vars, NEW k \in Node
  PROVE  /\ \/ commitIndex'[k] = commitIndex[k]
            \/ state[k] = "LEADER"
            \/ \E m \in Node \ {k} : FollowerAppends(k, m)
         /\ \/ file'[k] = file[k]
            \/ \E r : file'[k] = file[k] \o
                        Committed(logs'[k], commitIndex[k], commitIndex'[k], r)
<1>1. /\ commitIndex \in [Node -> Index] /\ file \in [Node -> Seq(Entry)]
      /\ logs \in [Node -> Seq(Entry)]
  BY DEF TypeOK
<1>2. ASSUME UNCHANGED commitVars
      PROVE  commitIndex'[k] = commitIndex[k] /\ file'[k] = file[k]
  BY <1>2 DEF commitVars
<1>3. ASSUME NEW n \in Node, state[n] = "LEADER", UNCHANGED logs,
             NEW match, NEW net, CommitLoop(n, match, net)
      PROVE  /\ commitIndex'[k] = commitIndex[k] \/ state[k] = "LEADER"
             /\ \/ file'[k] = file[k]
                \/ \E r : file'[k] = file[k] \o
                            Committed(logs'[k], commitIndex[k], commitIndex'[k], r)
  <2>1. PICK end : /\ \E r : Save(n, Committed(logs[n], commitIndex[n], end, r))
                   /\ commitIndex' = [commitIndex EXCEPT ![n] = end]
    BY <1>3 DEF CommitLoop
  <2>2. CASE n = k
    <3>1. commitIndex'[k] = end
      BY <1>1, <2>1, <2>2
    <3> QED BY <1>1, <1>3, <2>1, <2>2, <3>1 DEF Save
  <2>3. CASE n # k
    BY <1>1, <2>1, <2>3 DEF Save
  <2> QED BY <2>2, <2>3
<1>4. ASSUME NEW n \in Node, NEW m \in Node \ {n}, HandleNodeRequest(n, m)
      PROVE  /\ \/ commitIndex'[k] = commitIndex[k]
                \/ state[k] = "LEADER"
                \/ FollowerAppends(k, m) /\ n = k
             /\ \/ file'[k] = file[k]
                \/ \E r : file'[k] = file[k] \o
                            Committed(logs'[k], commitIndex[k], commitIndex'[k], r)
  <2>1. CASE LeaderAppendSucceeded(n, m) \/ LeaderAppendFailed(n, m) \/ LeaderIgnores(n, m)
    <3>1. /\ state[n] = "LEADER" /\ UNCHANGED logs
          /\ \E match, net : CommitLoop(n, match, net)
      BY <2>1 DEF LeaderAppendSucceeded, LeaderAppendFailed, LeaderIgnores, Receives
    <3> QED BY <1>3, <3>1
  <2>2. CASE FollowerAppends(n, m)
    <3> PICK hi : hi = NextRpc(n, m).leaderCommit
      OBVIOUS
    <3> PICK log : log = LogAfter(logs[n], NextRpc(n, m))
      OBVIOUS
    <3>1. /\ logs' = [logs EXCEPT ![n] = log]
          /\ \E r : Save(n, Committed(log, commitIndex[n], hi, r))
          /\ commitIndex' = [commitIndex EXCEPT ![n] = hi]
      BY <2>2 DEF FollowerAppends
    <3>2. CASE n = k
      <4>1. commitIndex'[k] = hi /\ logs'[k] = log
        BY <1>1, <3>1, <3>2
      <4> QED BY <1>1, <2>2, <3>1, <3>2, <4>1 DEF Save
    <3>3. CASE n # k
      BY <1>1, <3>1, <3>3 DEF Save
    <3> QED BY <3>2, <3>3
  <2>3. CASE ~LeaderAppendSucceeded(n, m) /\ ~LeaderAppendFailed(n, m)
             /\ ~LeaderIgnores(n, m) /\ ~FollowerAppends(n, m)
    <3>1. UNCHANGED commitVars
      BY <1>4, <2>3 DEF HandleNodeRequest, FollowerRequestVote,
         FollowerRejectsStaleLeader, FollowerRejectsGap,
         FollowerAborts, FollowerIgnores, StepDown, BecomeFollower,
         CandidateTakesVote, CandidateMeetsLeader, CandidateIgnores, LeaderAborts,
         CrashLoopDrops, Abort
    <3> QED BY <1>2, <3>1
  <2> QED BY <2>1, <2>2, <2>3
<1>5. ASSUME NEW n \in Node, FollowerTimeout(n) \/ CandidateTimeout(n) \/ LeaderTimeout(n)
      PROVE  UNCHANGED commitVars
  BY <1>5 DEF FollowerTimeout, CandidateTimeout, LeaderTimeout, Abort
<1>6. ASSUME NEW n \in Node, NEW c \in Client, NEW cmd \in Cmd,
             LeaderAppendsCommand(n, c, cmd)
      PROVE  UNCHANGED commitVars
  BY <1>6 DEF LeaderAppendsCommand
<1>7. ASSUME NEW n \in CrashTargets, Crash(n) \/ Recover(n) \/ RecoverAborts(n)
      PROVE  UNCHANGED commitVars
  BY <1>7 DEF Crash, Recover, RecoverAborts, Abort
<1>8. CASE UNCHANGED vars
  BY <1>2, <1>8 DEF vars
<1>9. CASE \E n \in Node : \E m \in Node \ {n} : HandleNodeRequest(n, m)
  BY <1>4, <1>9
<1> QED BY <1>2, <1>5, <1>6, <1>7, <1>8, <1>9 DEF Next

(* What is saved when the log reaches as far are entries of the log. *)
LEMMA CommittedEntries ==
  ASSUME NEW log \in Seq(Entry), NEW lo \in Index, NEW hi \in Index,
         hi + 1 <= Len(log), NEW r, NEW s, s = Committed(log, lo, hi, r)
  PROVE  /\ s \in Seq(Entry)
         /\ \A j \in DOMAIN s : /\ lo + j + 1 \in 1 .. hi + 1
                                /\ s[j] = log[lo + j + 1]
<1> DEFINE e(k) == IF lo + k < Len(log)
                   THEN log[lo + k + 1]
                   ELSE MakeEntry(lo + k, r.term, r.cmd, r.clientId)
<1>1. ASSUME NEW k \in 1 .. (hi - lo)
      PROVE  e(k) \in Entry /\ e(k) = log[lo + k + 1] /\ lo + k + 1 \in 1 .. hi + 1
  <2>1. lo + k + 1 \in 1 .. hi + 1 /\ lo + k + 1 \in 1 .. Len(log) /\ lo + k < Len(log)
    BY DEF Index
  <2> QED BY <2>1, EntryFields
<1>2. s = [k \in 1 .. (hi - lo) |-> e(k)]
  BY DEF Committed
<1> HIDE DEF e
<1>3. CASE hi - lo \in Nat
  BY <1>1, <1>2, <1>3
<1>4. CASE hi - lo \notin Nat
  <2>1. 1 .. (hi - lo) = {}
    BY <1>4 DEF Index
  <2>2. s = <<>>
    BY <1>2, <2>1
  <2> QED BY <2>2
<1> QED BY <1>3, <1>4

LEMMA PrefixOf ==
  ASSUME NEW log \in Seq(Entry), NEW i \in 0 .. Len(log)
  PROVE  /\ SubSeq(log, 1, i) \in Seq(Entry) /\ Len(SubSeq(log, 1, i)) = i
         /\ \A k \in 1 .. i : SubSeq(log, 1, i)[k] = log[k]
OBVIOUS

-----------------------------------------------------------------------------
(* What is committed is held by a majority.                                *)

Chosen(A, t, k) ==
  \E Q \in SUBSET Node :
    IsMajority(Cardinality(Q)) /\ \A q \in Q : Holds(A, q, t, k)

(* What leaders commit, when they ought to, are entries of their own that  *)
(* a majority holds.                                                       *)
Recorded(T, A) ==
  \A c \in commits :
    /\ c.term \in Nat /\ c.log \in Seq(Entry)
    /\ OfOwnTerm(c) /\ c.term \notin late =>
         /\ Own(T, c.term, Len(c.log)) /\ Begins(c.log, T[c.term])
         /\ Chosen(A, c.term, Len(c.log))

LEMMA ChosenIsNotLost ==
  ASSUME NEW A, NEW t, NEW k, Chosen(A, t, k)
  PROVE  ~Lost(A, t, k)
<1> SUFFICES ASSUME Lost(A, t, k) PROVE FALSE
  OBVIOUS
<1>1. PICK Q \in SUBSET Node :
        IsMajority(Cardinality(Q)) /\ \A q \in Q : Holds(A, q, t, k)
  BY DEF Chosen
<1>2. PICK V \in SUBSET Node :
        IsMajority(Cardinality(V)) /\ \A q \in V : ~Holds(A, q, t, k)
  BY DEF Lost
<1>3. /\ Cardinality(Q) > nb_node \div 2 /\ Cardinality(V) > nb_node \div 2
  BY <1>1, <1>2 DEF IsMajority
<1>4. Cardinality(Q) \in Nat /\ Cardinality(V) \in Nat /\ nb_node \in Nat
  BY NodeAssumption, FS_Subset, FS_CardinalityType DEF nb_node
<1>5. Cardinality(Q) + Cardinality(V) > Cardinality(Node)
  BY <1>3, <1>4 DEF nb_node
<1>6. PICK q \in Q \cap V : TRUE
  BY <1>5, NodeAssumption, FS_MajoritiesIntersect
<1> QED BY <1>1, <1>2, <1>6

(* What is chosen stays chosen. *)
LEMMA ChosenStays ==
  ASSUME NEW T, NEW T2, NEW A, NEW A2, Stepping(T, T2, A, A2),
         NEW t \in Nat, NEW k \in Nat, Chosen(A, t, k)
  PROVE  Chosen(A2, t, k)'
<1>1. PICK Q \in SUBSET Node :
        IsMajority(Cardinality(Q)) /\ \A q \in Q : Holds(A, q, t, k)
  BY DEF Chosen
<1>2. ASSUME NEW q \in Q PROVE Holds(A2, q, t, k)'
  <2>1. A[q][t] <= A2[q][t]
    BY MarksStep DEF Stepping, Sound
  <2>2. A[q][t] \in Nat /\ A2[q][t] \in Nat
    BY DEF Stepping, Marks
  <2>3. OnRecord(q, t) => OnRecord(q, t)'
    BY RecordStep DEF Stepping, OnRecord
  <2> QED BY <1>1, <2>1, <2>2, <2>3 DEF Holds
<1> QED BY <1>1, <1>2 DEF Chosen, IsMajority, nb_node

(* A leader that counted answers of its own term commits what it has, and  *)
(* what a majority has acknowledged.                                       *)
LEMMA CommitsChosen ==
  ASSUME NEW T, NEW T2, NEW A, NEW A2, Stepping(T, T2, A, A2), Matched(A2)',
         NEW n \in Node, state[n] = "LEADER", commitIndex'[n] # commitIndex[n],
         term[n] \notin late'
  PROVE  /\ n \in Committing
         /\ logs'[n] = logs[n] /\ T[term[n]] = logs[n] /\ T2[term[n]] = logs[n]
         /\ Chosen(A2, term[n], commitIndex[n] + 1)'
<1>1. TypeOK /\ TypeOK' /\ [Next]_vars
  BY SteppingFacts
<1>0. PICK i, t : i = commitIndex'[n] /\ t = term[n]
  OBVIOUS
<1>2. /\ state[n] = "LEADER" /\ t = term[n] /\ t \notin late'
      /\ UNCHANGED <<state, term, logs>>
      /\ i \in Int /\ i > commitIndex[n]
      /\ Replicated(n, matchIndex'[n], i)
      /\ ~Replicated(n, matchIndex'[n], i + 1)
  BY <1>0, <1>1, CommitStep
<1>3. t \in Nat /\ matchIndex'[n] \in [Node -> Index] /\ logs[n] \in Seq(Entry)
      /\ commitIndex[n] \in Index
  BY <1>0, <1>1 DEF TypeOK
<1>4. T[t] = logs[n] /\ T2[t] = logs[n]
  BY <1>2 DEF Stepping, Follow, Continue
<1>5. \A d \in Node \ {n} : matchIndex'[n][d] + 1 <= A2[d][t]
  BY <1>2 DEF Matched
<1>6. PICK d \in Node \ {n} : matchIndex'[n][d] >= i
  <2>1. ASSUME \A d \in Node \ {n} : ~(matchIndex'[n][d] >= i) PROVE FALSE
    <3>1. \A d \in Node \ {n} : ~(matchIndex'[n][d] >= i + 1)
      <4>1. \A d \in Node \ {n} : matchIndex'[n][d] \in Int
        BY <1>3 DEF Index
      <4> QED BY <1>2, <2>1, <4>1
    <3>2. /\ {d \in Node \ {n} : matchIndex'[n][d] >= i} = {}
          /\ {d \in Node \ {n} : matchIndex'[n][d] >= i + 1} = {}
      BY <2>1, <3>1
    <3> QED BY <1>2, <3>2 DEF Replicated
  <2> QED BY <2>1
<1>7. i + 1 <= Len(logs[n])
  <2>1. A2[d][t] <= Len(T[t])
    BY <1>3, MarksStep DEF Stepping, Sound
  <2>2. A2[d][t] \in Nat
    BY <1>3 DEF Stepping, Marks
  <2>3. matchIndex'[n][d] \in Int /\ Len(logs[n]) \in Nat
    BY <1>3 DEF Index
  <2> QED BY <1>2, <1>4, <1>5, <1>6, <2>1, <2>2, <2>3
<1>8. n \in Committing
  <2>1. i \in commitIndex[n] + 1 .. LastIndex(logs[n])
    <3>1. Len(logs[n]) \in Nat /\ commitIndex[n] \in Int
      BY <1>3 DEF Index
    <3> QED BY <1>2, <1>7, <3>1 DEF LastIndex
  <2> QED BY <1>0, <2>1 DEF Committing
<1>9. Chosen(A2, t, i + 1)'
  <2>1. PICK Q \in SUBSET Node :
          Q = {n} \cup {k \in Node \ {n} : matchIndex'[n][k] >= i}
    OBVIOUS
  <2>2. IsMajority(Cardinality(Q))
    BY <1>2, <2>1 DEF Replicated, IsMajority, nb_node
  <2>3. Holds(A2, n, t, i + 1)'
    <3>1. OnRecord(n, t)'
      BY <1>2 DEF Stepping, Sound, Offices
    <3> QED BY <3>1 DEF Holds
  <2>4. ASSUME NEW k \in Node \ {n}, matchIndex'[n][k] >= i
        PROVE  Holds(A2, k, t, i + 1)'
    <3>0. A2 \in [Node -> [Nat -> Nat]]
      BY DEF Stepping, Marks
    <3>1. A2[k][t] \in Nat
      BY <1>3, <3>0
    <3>2. matchIndex'[n][k] \in Int /\ matchIndex'[n][k] + 1 <= A2[k][t]
      BY <1>3, <1>5 DEF Index
    <3>3. i + 1 <= A2[k][t]
      BY <1>2, <2>4, <3>1, <3>2
    <3> QED BY <3>3 DEF Holds
  <2>5. \A q \in Q : Holds(A2, q, t, i + 1)'
    BY <2>1, <2>3, <2>4
  <2> QED BY <2>2, <2>5 DEF Chosen, IsMajority, nb_node
<1>10. Chosen(A2, term[n], commitIndex[n] + 1)'
  BY <1>0, <1>2, <1>9 DEF Chosen, Holds, OnRecord
<1> QED BY <1>0, <1>2, <1>4, <1>8, <1>10

LEMMA NewCommit ==
  ASSUME TypeOK, TypeOK', NEW n \in Committing, NEW c, c = Commitment(n)
  PROVE  /\ n \in Node /\ state[n] = "LEADER" /\ commitIndex'[n] # commitIndex[n]
         /\ c.term = term[n] /\ c.term \in Nat /\ c.log \in Seq(Entry)
         /\ Len(c.log) = commitIndex'[n] + 1 /\ Len(c.log) \in 1 .. Len(logs[n])
         /\ Begins(c.log, logs[n])
<1>1. /\ n \in Node /\ state[n] = "LEADER"
      /\ commitIndex'[n] \in commitIndex[n] + 1 .. LastIndex(logs[n])
  BY DEF Committing
<1>2. /\ commitIndex[n] \in Index /\ commitIndex'[n] \in Index
      /\ logs[n] \in Seq(Entry) /\ term[n] \in Nat
  BY <1>1 DEF TypeOK
<1>3. Len(logs[n]) \in Nat
  BY <1>2
<1>4. commitIndex'[n] + 1 \in 1 .. Len(logs[n]) /\ commitIndex'[n] # commitIndex[n]
  BY <1>1, <1>2, <1>3 DEF Index, LastIndex
<1>5. PICK i \in 1 .. Len(logs[n]) : i = commitIndex'[n] + 1
  BY <1>4
<1>6. c.term = term[n] /\ c.log = SubSeq(logs[n], 1, i)
  BY <1>5 DEF Commitment
<1>7. i \in 0 .. Len(logs[n])
  BY <1>3
<1>8. /\ c.log \in Seq(Entry) /\ Len(c.log) = i
      /\ \A k \in 1 .. i : c.log[k] = logs[n][k]
  BY <1>2, <1>6, <1>7, PrefixOf
<1>9. Begins(c.log, logs[n])
  BY <1>8 DEF Begins
<1> QED BY <1>1, <1>2, <1>4, <1>5, <1>6, <1>8, <1>9

LEMMA RecordedStep ==
  ASSUME NEW T, NEW T2, NEW A, NEW A2, Stepping(T, T2, A, A2),
         [CommitNext]_<<vars, historyVars, commitHistory>>,
         Matched(A2)', Recorded(T, A)
  PROVE  Recorded(T2, A2)'
<1>1. TypeOK /\ TypeOK' /\ Grow(T, T2)
  BY SteppingFacts
<1> SUFFICES ASSUME NEW c \in commits'
             PROVE  /\ c.term \in Nat /\ c.log \in Seq(Entry)
                    /\ OfOwnTerm(c) /\ c.term \notin late' =>
                         /\ Own(T2, c.term, Len(c.log)) /\ Begins(c.log, T2[c.term])
                         /\ Chosen(A2, c.term, Len(c.log))'
  BY DEF Recorded, Own, Begins, OfOwnTerm
<1>2. CASE c \in commits
  <2>1. /\ c.term \in Nat /\ c.log \in Seq(Entry)
        /\ OfOwnTerm(c) /\ c.term \notin late =>
             /\ Own(T, c.term, Len(c.log)) /\ Begins(c.log, T[c.term])
             /\ Chosen(A, c.term, Len(c.log))
    BY <1>2 DEF Recorded
  <2> SUFFICES ASSUME OfOwnTerm(c), c.term \notin late'
               PROVE  /\ Own(T2, c.term, Len(c.log)) /\ Begins(c.log, T2[c.term])
                      /\ Chosen(A2, c.term, Len(c.log))'
    BY <2>1
  <2>2. c.term \notin late
    BY RecordCommitsStep
  <2>3. PICK t \in Nat, k \in Nat : t = c.term /\ k = Len(c.log)
    BY <2>1
  <2>4. T[t] \in Seq(Entry) /\ T2[t] \in Seq(Entry) /\ Begins(T[t], T2[t])
    BY <1>1, <2>3 DEF Stepping, Histories, Grow
  <2>5. Own(T, t, k) /\ Begins(c.log, T[t]) /\ Chosen(A, t, k)
    BY <2>1, <2>2, <2>3
  <2>6. Own(T2, t, k)
    BY <2>4, <2>5 DEF Own, Begins
  <2>7. Begins(c.log, T2[t])
    BY <2>1, <2>4, <2>5, BeginsTransitive
  <2>8. Chosen(A2, t, k)'
    BY <2>5, ChosenStays
  <2> QED BY <2>3, <2>6, <2>7, <2>8
<1>3. ASSUME NEW n \in Committing, c = Commitment(n)
      PROVE  /\ c.term \in Nat /\ c.log \in Seq(Entry)
             /\ OfOwnTerm(c) /\ c.term \notin late' =>
                  /\ Own(T2, c.term, Len(c.log)) /\ Begins(c.log, T2[c.term])
                  /\ Chosen(A2, c.term, Len(c.log))'
  <2>1. /\ n \in Node /\ state[n] = "LEADER" /\ commitIndex'[n] # commitIndex[n]
        /\ c.term = term[n] /\ c.term \in Nat /\ c.log \in Seq(Entry)
        /\ Len(c.log) = commitIndex'[n] + 1 /\ Len(c.log) \in 1 .. Len(logs[n])
        /\ Begins(c.log, logs[n])
    BY <1>1, <1>3, NewCommit
  <2> SUFFICES ASSUME OfOwnTerm(c), c.term \notin late'
               PROVE  /\ Own(T2, c.term, Len(c.log)) /\ Begins(c.log, T2[c.term])
                      /\ Chosen(A2, c.term, Len(c.log))'
    BY <2>1
  <2>2. /\ T2[term[n]] = logs[n] /\ Chosen(A2, term[n], commitIndex[n] + 1)'
    BY <2>1, CommitsChosen
  <2>3. UNCHANGED term
    BY <1>1, <2>1, SteppingFacts, CommitStep
  <2>4. Chosen(A2, c.term, Len(c.log))'
    BY <2>1, <2>2, <2>3 DEF Chosen, Holds, OnRecord
  <2>5. Len(c.log) \in Nat /\ Len(c.log) > 0
    BY <2>1
  <2>6. c.log[Len(c.log)].term = c.term
    BY <2>1, <2>5 DEF OfOwnTerm, LastTerm
  <2>7. Own(T2, c.term, Len(c.log))
    BY <2>1, <2>2, <2>5, <2>6 DEF Own, Begins
  <2> QED BY <2>1, <2>2, <2>4, <2>7
<1> QED BY <1>2, <1>3, RecordCommitsStep

-----------------------------------------------------------------------------
(* What the files hold has been committed by a leader.                     *)

(* Some leader has committed the first i entries of log. *)
Covered(log, i) == i = 0 \/ \E c \in commits : Within(log, i, c.log)

CommitsCovered ==
  \A n \in Node : /\ commitIndex[n] + 1 <= Len(logs[n])
                  /\ Covered(logs[n], commitIndex[n] + 1)

UpdatesCovered(T) ==
  \A a, b \in Node : \A x \in InFlight(a, b) :
    IsUpdate(x) => /\ x.leaderCommit + 1 <= End(x)
                   /\ Covered(T[x.term], x.leaderCommit + 1)

(* e is where a leader committed it. *)
Placed(e) ==
  \E c \in commits : e.index + 1 \in 1 .. Len(c.log) /\ c.log[e.index + 1] = e

FilesCovered == \A n \in Node : \A j \in DOMAIN file[n] : Placed(file[n][j])

Saved(T) == late = {} => CommitsCovered /\ UpdatesCovered(T) /\ FilesCovered

LEMMA CoveredStep ==
  ASSUME [CommitNext]_<<vars, historyVars, commitHistory>>,
         NEW log, NEW log2, NEW i \in Nat, Covered(log, i),
         \A k \in 1 .. i : log2[k] = log[k]
  PROVE  Covered(log2, i)'
<1>1. commits \subseteq commits'
  BY RecordCommitsStep
<1> QED BY <1>1 DEF Covered, Within

LEMMA CommitsCoveredStep ==
  ASSUME NEW T, NEW T2, NEW A, NEW A2, Stepping(T, T2, A, A2),
         [CommitNext]_<<vars, historyVars, commitHistory>>,
         Matched(A2)', late' = {}, CommitsCovered, UpdatesCovered(T)
  PROVE  CommitsCovered'
<1> SUFFICES ASSUME NEW n \in Node
             PROVE  /\ commitIndex'[n] + 1 <= Len(logs'[n])
                    /\ Covered(logs[n], commitIndex[n] + 1)'
  BY DEF CommitsCovered
<1>1. TypeOK /\ TypeOK' /\ [Next]_vars /\ T[0] = <<>>
  BY SteppingFacts
<1>2. /\ commitIndex[n] \in Index /\ commitIndex'[n] \in Index
      /\ logs[n] \in Seq(Entry) /\ logs'[n] \in Seq(Entry) /\ term[n] \in Nat
  BY <1>1 DEF TypeOK
<1>3. commitIndex[n] + 1 <= Len(logs[n]) /\ Covered(logs[n], commitIndex[n] + 1)
  BY DEF CommitsCovered
<1> PICK p, q, i, j : /\ p = logs[n] /\ q = logs'[n]
                      /\ i = commitIndex[n] + 1 /\ j = commitIndex'[n] + 1
  OBVIOUS
<1>4. i \in Nat /\ j \in Nat /\ p \in Seq(Entry) /\ q \in Seq(Entry)
  BY <1>2 DEF Index
<1>5. SUFFICES j <= Len(q) /\ Covered(q, j)'
  BY DEF Covered, Within
<1>6. ASSUME NEW m \in Node \ {n}, FollowerAppends(n, m)
      PROVE  j <= Len(q) /\ Covered(q, j)'
  <2> PICK x : x = NextRpc(n, m)
    OBVIOUS
  <2>1. /\ x \in InFlight(m, n) /\ x \in NodeRpc /\ IsUpdate(x)
        /\ Begins(q, T[x.term]) /\ Len(q) = End(x)
    BY <1>1, <1>6, FollowerLog DEF Stepping
  <2>2. j = x.leaderCommit + 1
    <3>1. commitIndex \in [Node -> Index]
      BY <1>1 DEF TypeOK
    <3> QED BY <1>6, <3>1 DEF FollowerAppends
  <2>3. j <= End(x) /\ Covered(T[x.term], j)
    BY <2>1, <2>2 DEF UpdatesCovered
  <2>4. j <= Len(q)
    BY <2>1, <2>3
  <2>5. \A k \in 1 .. j : q[k] = T[x.term][k]
    <3>1. Len(q) \in Nat
      BY <1>4
    <3> QED BY <1>4, <2>1, <2>4, <3>1 DEF Begins
  <2> QED BY <1>4, <2>3, <2>4, <2>5, CoveredStep
<1>7. ASSUME commitIndex'[n] = commitIndex[n], ~(\E m \in Node \ {n} : FollowerAppends(n, m))
      PROVE  j <= Len(q) /\ Covered(q, j)'
  <2>1. Begins(p, q)
    <3>1. CASE logs'[n] = logs[n]
      BY <3>1 DEF Begins
    <3>2. CASE \E c \in Client, cmd \in Cmd : LeaderAppendsCommand(n, c, cmd)
      <4>1. state'[n] = "LEADER"
        BY <3>2 DEF LeaderAppendsCommand, voteVars
      <4> QED BY <1>1, <4>1, LeaderLogGrows
    <3> QED BY <1>1, <1>7, <3>1, <3>2, LogStep
  <2>2. i = j /\ i <= Len(p) /\ Covered(p, i)
    BY <1>3, <1>7
  <2>3. j <= Len(q) /\ \A k \in 1 .. j : q[k] = p[k]
    <3>1. Len(p) \in Nat /\ Len(q) \in Nat
      BY <1>4
    <3> QED BY <1>4, <2>1, <2>2, <3>1 DEF Begins
  <2> QED BY <1>4, <2>2, <2>3, CoveredStep
<1>8. ASSUME state[n] = "LEADER", commitIndex'[n] # commitIndex[n]
      PROVE  j <= Len(q) /\ Covered(q, j)'
  <2>1. n \in Committing /\ p = q
    BY <1>8, CommitsChosen
  <2> PICK c : c = Commitment(n)
    OBVIOUS
  <2>2. Len(c.log) = j /\ Len(c.log) \in 1 .. Len(p) /\ Begins(c.log, p)
    BY <1>1, <2>1, NewCommit
  <2>3. c \in commits'
    BY <2>1, RecordCommitsStep
  <2>4. j <= Len(q) /\ \A k \in 1 .. j : c.log[k] = q[k]
    BY <2>1, <2>2 DEF Begins
  <2>5. Within(q, j, c.log)
    BY <1>4, <2>2, <2>4 DEF Within
  <2> QED BY <2>3, <2>4, <2>5 DEF Covered
<1> QED BY <1>1, <1>6, <1>7, <1>8, SaveStep

LEMMA UpdatesCoveredStep ==
  ASSUME NEW T, NEW T2, NEW A, NEW A2, Stepping(T, T2, A, A2),
         [CommitNext]_<<vars, historyVars, commitHistory>>,
         CommitsCovered, UpdatesCovered(T)
  PROVE  UpdatesCovered(T2)'
<1> SUFFICES ASSUME NEW a \in Node, NEW b \in Node, NEW x \in InFlight(a, b)', IsUpdate(x)
             PROVE  /\ x.leaderCommit + 1 <= End(x)
                    /\ Covered(T2[x.term], x.leaderCommit + 1)'
  BY DEF UpdatesCovered, IsUpdate, Throws, End
<1>1. TypeOK /\ TypeOK' /\ [Next]_vars /\ Grow(T, T2) /\ Follow(T) /\ Follow(T2)'
  BY SteppingFacts DEF Stepping
<1>2. x \in NodeRpc
  BY <1>1, UnderWayType DEF InFlight, TypeOK
<1>3. PICK i \in Nat : i = x.leaderCommit + 1
  BY <1>2, NodeRpcFields DEF IsUpdate, Index
<1>4. /\ x.term \in Nat /\ End(x) \in Nat
      /\ T[x.term] \in Seq(Entry) /\ T2[x.term] \in Seq(Entry)
  BY <1>2, EndType DEF Stepping, Histories
<1>5. SUFFICES i <= End(x) /\ Covered(T2[x.term], i)'
  BY <1>3 DEF Covered, Within
<1>6. CASE x \in InFlight(a, b)
  <2>1. i <= End(x) /\ Covered(T[x.term], i)
    BY <1>3, <1>6 DEF UpdatesCovered
  <2>2. End(x) <= Len(T[x.term]) /\ Begins(T[x.term], T2[x.term])
    BY <1>1, <1>4, <1>6 DEF Follow, PartOf, Grow
  <2>3. \A k \in 1 .. i : T2[x.term][k] = T[x.term][k]
    <3>1. Len(T[x.term]) \in Nat
      BY <1>4
    <3> QED BY <1>4, <2>1, <2>2, <3>1 DEF Begins
  <2> QED BY <2>1, <2>3, CoveredStep
<1>7. CASE Sends(a, b, x)
  <2>1. /\ state'[a] = "LEADER" /\ x.term = term[a] /\ term'[a] = term[a]
        /\ End(x) = Len(logs[a])
    BY <1>2, <1>7, UpdateSent DEF Stepping, Sound
  <2>2. x.leaderCommit = commitIndex[a]
    <3>1. PICK next \in Int : x = Update(a, logs[a], next, commitIndex[a])
      BY <1>7 DEF Sends, IsUpdate, RequestVoteResponse
    <3> QED BY <3>1 DEF Update, AppendEntries
  <2>3. i <= End(x) /\ Covered(logs[a], i)
    BY <1>3, <2>1, <2>2 DEF CommitsCovered
  <2>4. T2[x.term] = logs'[a] /\ Begins(logs[a], logs'[a])
    BY <1>1, <2>1, LeaderLogGrows DEF Follow
  <2>5. \A k \in 1 .. i : T2[x.term][k] = logs[a][k]
    <3>1. logs[a] \in Seq(Entry)
      BY <1>1 DEF TypeOK
    <3>2. Len(logs[a]) \in Nat
      BY <3>1
    <3> QED BY <2>1, <2>3, <2>4, <3>2 DEF Begins
  <2> QED BY <2>3, <2>5, CoveredStep
<1> QED BY <1>1, <1>6, <1>7, StepSends

LEMMA FilesCoveredStep ==
  ASSUME TypeOK, TypeOK', [CommitNext]_<<vars, historyVars, commitHistory>>,
         EntriesIndexed', FilesCovered, CommitsCovered'
  PROVE  FilesCovered'
<1> SUFFICES ASSUME NEW n \in Node, NEW j \in DOMAIN file'[n]
             PROVE  Placed(file[n][j])'
  BY DEF FilesCovered
<1>1. [Next]_vars
  BY DEF CommitNext, HistoryNext
<1> PICK f, g, lo, hi, p : /\ f = file[n] /\ g = file'[n] /\ p = logs'[n]
                           /\ lo = commitIndex[n] /\ hi = commitIndex'[n]
  OBVIOUS
<1>2. /\ f \in Seq(Entry) /\ lo \in Index /\ hi \in Index /\ p \in Seq(Entry)
  BY DEF TypeOK
<1>3. hi + 1 <= Len(p) /\ Covered(p, hi + 1)'
  BY DEF CommitsCovered, Covered, Within
<1>4. SUFFICES Placed(g[j])'
  BY DEF Placed
<1>5. ASSUME j \in DOMAIN f, g[j] = f[j] PROVE Placed(g[j])'
  <2>1. Placed(f[j])
    BY <1>5 DEF FilesCovered
  <2> QED BY <1>5, <2>1, RecordCommitsStep DEF Placed
<1>6. ASSUME NEW r, g = f \o Committed(p, lo, hi, r), j \notin DOMAIN f
      PROVE  Placed(g[j])'
  <2>1. PICK s : s = Committed(p, lo, hi, r)
    OBVIOUS
  <2>2. /\ s \in Seq(Entry)
        /\ \A k \in DOMAIN s : lo + k + 1 \in 1 .. hi + 1 /\ s[k] = p[lo + k + 1]
    BY <1>2, <1>3, <2>1, CommittedEntries
  <2>3. PICK k \in DOMAIN s : g[j] = s[k]
    <3>0. /\ Len(f) \in Nat /\ Len(s) \in Nat /\ DOMAIN f = 1 .. Len(f)
          /\ DOMAIN (f \o s) = 1 .. Len(f) + Len(s)
      BY <1>2, <2>2
    <3>1. j \in 1 .. Len(f) + Len(s) /\ j \notin 1 .. Len(f) /\ Len(f) \in Nat /\ Len(s) \in Nat
      BY <1>6, <2>1, <3>0
    <3>2. j - Len(f) \in 1 .. Len(s)
      BY <3>1
    <3>3. g[j] = s[j - Len(f)]
      BY <1>2, <1>6, <2>1, <2>2, <3>1, <3>2
    <3> QED BY <2>2, <3>2, <3>3
  <2>4. PICK i \in 1 .. hi + 1 : i = lo + k + 1 /\ g[j] = p[i]
    BY <2>2, <2>3
  <2>5. hi + 1 \in Nat /\ i \in 1 .. Len(p) /\ Len(p) \in Nat
    BY <1>2, <1>3 DEF Index
  <2>6. p[i].index = i - 1
    BY <2>5 DEF EntriesIndexed, IndexedFrom
  <2>7. PICK c \in commits' : Within(p, hi + 1, c.log)
    BY <1>3, <2>4 DEF Covered
  <2>8. i <= Len(c.log) /\ c.log[i] = p[i]
    BY <2>4, <2>5, <2>7 DEF Within
  <2> QED BY <2>4, <2>6, <2>7, <2>8 DEF Placed
<1>7. CASE g = f
  BY <1>5, <1>7
<1>8. ASSUME NEW r, g = f \o Committed(p, lo, hi, r) PROVE Placed(g[j])'
  <2>1. PICK s : s = Committed(p, lo, hi, r)
    OBVIOUS
  <2>2. s \in Seq(Entry)
    BY <1>2, <1>3, <2>1, CommittedEntries
  <2>3. j \in DOMAIN f => g[j] = f[j]
    BY <1>2, <1>8, <2>1, <2>2
  <2> QED BY <1>5, <1>6, <1>8, <2>3
<1>9. g = f \/ \E r : g = f \o Committed(p, lo, hi, r)
  BY <1>1, SaveStep
<1> QED BY <1>7, <1>8, <1>9

-----------------------------------------------------------------------------
(* What holds as long as every election was backed.                        *)

Ledger ==
  unbacked = {} =>
    /\ UpdatesReachFurther
    /\ \E T \in Histories, A \in Marks :
         /\ Follow(T) /\ Promised(T, A) /\ Told(A) /\ Kept(T, A)
         /\ Matched(A) /\ Recorded(T, A) /\ Saved(T)

LEMMA LedgerStep ==
  ASSUME Sound, Sound', AllBacked', BackedElectionsAgree', Ledger, unbacked' = {},
         [CommitNext]_<<vars, historyVars, commitHistory>>
  PROVE  Ledger'
<1>1. [HistoryNext]_<<vars, historyVars>> /\ unbacked = {}
  BY CommitStepRefines, UnbackedGrows
<1>2. UniqueLeaders'
  BY BackedLeadersUnique DEF UniqueLeaders, AllBacked, BackedElectionsAgree, Backed
<1>3. UniqueLeaders
  BY <1>1, <1>2, UniqueBefore
<1>4. UpdatesReachFurther
  BY <1>1 DEF Ledger
<1>5. PICK T \in Histories, A \in Marks :
        /\ Follow(T) /\ Promised(T, A) /\ Told(A) /\ Kept(T, A)
        /\ Matched(A) /\ Recorded(T, A) /\ Saved(T)
  BY <1>1 DEF Ledger
<1>6. PICK T2 \in Histories : Continue(T, T2)
  BY <1>2, HistoryContinues DEF Sound
<1>7. PICK A2 \in Marks : ContinueMarks(A, A2)
  BY MarksContinue DEF Sound
<1>8. Stepping(T, T2, A, A2)
  BY <1>1, <1>2, <1>3, <1>4, <1>5, <1>6, <1>7 DEF Stepping
<1>9. Follow(T2)' /\ Promised(T2, A2)'
  BY <1>8, SteppingFacts
<1>10. UpdatesReachFurther'
  BY <1>8, UpdatesReachFurtherStep DEF Stepping, Sound
<1>11. Told(A2)'
  BY <1>5, <1>8, ToldStep DEF Stepping, Sound
<1>12. Kept(T2, A2)'
  BY <1>5, <1>8, KeptStep
<1>13. Matched(A2)'
  BY <1>5, <1>8, MatchedStep
<1>14. Recorded(T2, A2)'
  BY <1>5, <1>8, <1>13, RecordedStep
<1>15. Saved(T2)'
  <2> SUFFICES ASSUME late' = {}
               PROVE  CommitsCovered' /\ UpdatesCovered(T2)' /\ FilesCovered'
    BY DEF Saved
  <2>1. CommitsCovered /\ UpdatesCovered(T) /\ FilesCovered
    BY <1>5, RecordCommitsStep DEF Saved
  <2>2. CommitsCovered'
    BY <1>8, <1>13, <2>1, CommitsCoveredStep
  <2>3. UpdatesCovered(T2)'
    BY <1>8, <2>1, UpdatesCoveredStep
  <2> QED BY <2>1, <2>2, <2>3, FilesCoveredStep DEF Sound
<1>16. /\ Histories' = Histories /\ Marks' = Marks
  BY DEF Histories, Marks
<1> QED BY <1>9, <1>10, <1>11, <1>12, <1>13, <1>14, <1>15, <1>16 DEF Ledger

LEMMA LedgerInit == ASSUME CommitInit PROVE Ledger
<1> DEFINE T == [t \in Nat |-> <<>>]
           A == [q \in Node |-> [t \in Nat |-> 0]]
<1>1. T \in Histories /\ A \in Marks
  BY DEF Histories, Marks
<1>2. \A a, b \in Node : InFlight(a, b) = {}
  BY DEF CommitInit, HistoryInit, Init, MailboxInit, InFlight, UnderWay
<1>3. Follow(T)
  BY <1>2 DEF CommitInit, HistoryInit, Init, Follow, LogOf
<1>4. Promised(T, A) /\ Told(A)
  BY <1>2 DEF Promised, Told
<1>5. Kept(T, A)
  BY DEF Kept, Own
<1>6. Matched(A)
  BY DEF CommitInit, HistoryInit, Init, Matched
<1>7. Recorded(T, A)
  BY DEF CommitInit, Recorded
<1>8. Saved(T)
  <2>1. CommitsCovered
    <3> SUFFICES ASSUME NEW n \in Node
                 PROVE  /\ commitIndex[n] + 1 <= Len(logs[n])
                        /\ Covered(logs[n], commitIndex[n] + 1)
      BY DEF CommitsCovered
    <3>1. commitIndex[n] = -1 /\ logs[n] = <<>>
      BY DEF CommitInit, HistoryInit, Init
    <3>2. commitIndex[n] + 1 = 0 /\ Len(logs[n]) = 0
      BY <3>1
    <3> QED BY <3>2 DEF Covered
  <2>2. UpdatesCovered(T)
    BY <1>2 DEF UpdatesCovered
  <2>3. FilesCovered
    BY DEF CommitInit, HistoryInit, Init, FilesCovered
  <2> QED BY <2>1, <2>2, <2>3 DEF Saved
<1>9. UpdatesReachFurther
  <2>1. \A a, b \in Node : Line(a, b) \in Seq(NodeRpc) /\ DOMAIN Line(a, b) = {}
    <3>1. TypeOK
      BY InitType DEF CommitInit, HistoryInit
    <3> QED BY <1>2, <3>1, LineUnderWay
  <2> QED BY <2>1 DEF UpdatesReachFurther
<1> HIDE DEF T, A
<1> QED BY <1>1, <1>3, <1>4, <1>5, <1>6, <1>7, <1>8, <1>9 DEF Ledger

LEMMA LedgerInv == CommitSpec => [](Sound /\ BackedSoFar /\ BackedElectionsAgree /\ Ledger)
<1>1. CommitSpec => [](Sound /\ BackedElectionsAgree)
  BY CommitRefines, SoundInv, BackedElectionsSafe, PTL
<1>2. CommitInit => BackedSoFar
  BY DEF CommitInit, HistoryInit, BackedSoFar, AllBacked
<1>3. CommitSpec => []BackedSoFar
  BY <1>2, BackedSoFarStep, PTL DEF CommitSpec
<1>4. /\ Sound /\ Sound' /\ BackedSoFar' /\ BackedElectionsAgree' /\ Ledger
      /\ [CommitNext]_<<vars, historyVars, commitHistory>>
      => Ledger'
  <2> SUFFICES ASSUME Sound, Sound', BackedSoFar', BackedElectionsAgree', Ledger,
                      [CommitNext]_<<vars, historyVars, commitHistory>>
               PROVE  Ledger'
    OBVIOUS
  <2>1. CASE unbacked' = {}
    <3>1. AllBacked'
      BY <2>1 DEF BackedSoFar
    <3> QED BY <2>1, <3>1, LedgerStep
  <2>2. CASE unbacked' # {}
    BY <2>2 DEF Ledger
  <2> QED BY <2>1, <2>2
<1> QED BY <1>1, <1>3, <1>4, LedgerInit, PTL DEF CommitSpec

-----------------------------------------------------------------------------
(* The theorems.                                                           *)

(* c was committed up to an entry of its own term, which a majority held.  *)
Settled(T, A, c) ==
  /\ c.term \in Nat /\ c.log \in Seq(Entry)
  /\ Own(T, c.term, Len(c.log)) /\ Begins(c.log, T[c.term])
  /\ Chosen(A, c.term, Len(c.log))

(* The log of every term that had a leader, from then on, begins with it.  *)
LEMMA LaterLogsHold ==
  ASSUME NEW T \in Histories, NEW A, Kept(T, A), NEW c, Settled(T, A, c),
         NEW u \in Nat, u >= c.term, u = c.term \/ \E e \in elections : e.term = u
  PROVE  Begins(c.log, T[u])
<1>1. CASE u = c.term
  BY <1>1 DEF Settled
<1>2. CASE u # c.term
  <2>1. PICK t \in Nat, k \in Nat : t = c.term /\ k = Len(c.log)
    BY DEF Settled
  <2>2. PICK e \in elections : e.term = u /\ u > t
    BY <1>2, <2>1
  <2>3. Own(T, t, k) /\ Begins(c.log, T[t]) /\ ~Lost(A, t, k)
    BY <2>1, ChosenIsNotLost DEF Settled
  <2>4. Within(T[t], k, T[u])
    BY <2>2, <2>3 DEF Kept, KeptAt, LeadersKeep
  <2> QED BY <2>1, <2>3, <2>4 DEF Begins, Within
<1> QED BY <1>1, <1>2

(* Two commits have the same entry where both reach. *)
LEMMA CommitsAgree ==
  ASSUME NEW T \in Histories, NEW A, Kept(T, A), Follow(T),
         NEW c, Settled(T, A, c), NEW d, Settled(T, A, d), c.term <= d.term,
         NEW i \in 1 .. Len(c.log), i \in 1 .. Len(d.log)
  PROVE  c.log[i] = d.log[i]
<1>1. PICK u \in Nat : u = d.term
  BY DEF Settled
<1>2. T[u] # <<>>
  BY <1>1 DEF Settled, Own
<1>3. \E e \in elections : e.term = u
  BY <1>2 DEF Follow
<1>4. Begins(c.log, T[u])
  BY <1>1, <1>3, LaterLogsHold DEF Settled
<1>5. Begins(d.log, T[u])
  BY <1>1 DEF Settled
<1> QED BY <1>4, <1>5 DEF Begins

LEMMA BeginningEqual ==
  ASSUME NEW p \in Seq(Entry), NEW h \in Seq(Entry), Begins(p, h)
  PROVE  Len(p) <= Len(h) /\ SubSeq(h, 1, Len(p)) = p
<1>1. Len(p) \in 0 .. Len(h) /\ Len(p) <= Len(h) /\ \A k \in 1 .. Len(p) : p[k] = h[k]
  BY DEF Begins
<1>2. /\ SubSeq(h, 1, Len(p)) \in Seq(Entry) /\ Len(SubSeq(h, 1, Len(p))) = Len(p)
      /\ \A k \in 1 .. Len(p) : SubSeq(h, 1, Len(p))[k] = h[k]
  BY <1>1, PrefixOf
<1>3. PICK q \in Seq(Entry) : q = SubSeq(h, 1, Len(p))
  BY <1>2
<1>4. q = p
  <2>1. Len(q) = Len(p) /\ \A k \in 1 .. Len(p) : q[k] = p[k]
    BY <1>1, <1>2, <1>3
  <2> QED BY <2>1
<1> QED BY <1>1, <1>3, <1>4

(* LeadersHoldCommits: as long as every election rests on votes of its own *)
(* term, what a leader commits, by answers of its own term and up to an    *)
(* entry of its own term, is in the log of every later leader              *)
(* (followerCycle.cc:79-83, leaderCycle.cc:38-47).                         *)
THEOREM LeadersKeepCommits == CommitSpec => []LeadersHoldCommits
<1>1. Sound /\ Ledger => LeadersHoldCommits
  <2> SUFFICES ASSUME Sound, Ledger, unbacked = {}, NEW c \in commits,
                      OfOwnTerm(c), c.term \notin late, NEW n \in Node,
                      state[n] = "LEADER", term[n] >= c.term
               PROVE  /\ Len(c.log) <= Len(logs[n])
                      /\ SubSeq(logs[n], 1, Len(c.log)) = c.log
    BY DEF LeadersHoldCommits
  <2>1. PICK T \in Histories, A \in Marks : Follow(T) /\ Kept(T, A) /\ Recorded(T, A)
    BY DEF Ledger
  <2>2. Settled(T, A, c)
    BY <2>1 DEF Recorded, Settled
  <2>3. term[n] \in Nat /\ logs[n] \in Seq(Entry)
    BY DEF Sound, TypeOK
  <2>4. \E e \in elections : e.term = term[n]
    BY DEF Sound, Offices, OnRecord
  <2>5. T[term[n]] = logs[n]
    BY <2>1 DEF Follow
  <2>6. Begins(c.log, logs[n])
    BY <2>1, <2>2, <2>3, <2>4, <2>5, LaterLogsHold
  <2>7. c.log \in Seq(Entry)
    BY <2>2 DEF Settled
  <2> QED BY <2>3, <2>6, <2>7, BeginningEqual
<1> QED BY <1>1, LedgerInv, PTL

(* SavedEntriesAgree: as long as, moreover, every commit was of that kind, *)
(* no two files hold different entries of one position, although a node    *)
(* may save a position again (followerCycle.cc:62-66, leaderCycle.cc:      *)
(* 79-83).                                                                 *)
THEOREM FilesNeverDisagree == CommitSpec => []SavedEntriesAgree
<1>1. Ledger => SavedEntriesAgree
  <2> SUFFICES ASSUME Ledger, unbacked = {}, late = {}, \A c \in commits : OfOwnTerm(c),
                      NEW m \in Node, NEW n \in Node,
                      NEW i \in DOMAIN file[m], NEW j \in DOMAIN file[n],
                      file[m][i].index = file[n][j].index
               PROVE  file[m][i] = file[n][j]
    BY DEF SavedEntriesAgree
  <2>1. PICK T \in Histories, A \in Marks :
          Follow(T) /\ Kept(T, A) /\ Recorded(T, A) /\ Saved(T)
    BY DEF Ledger
  <2>2. PICK c \in commits : /\ file[m][i].index + 1 \in 1 .. Len(c.log)
                             /\ c.log[file[m][i].index + 1] = file[m][i]
    BY <2>1 DEF Saved, FilesCovered, Placed
  <2>3. PICK d \in commits : /\ file[n][j].index + 1 \in 1 .. Len(d.log)
                             /\ d.log[file[n][j].index + 1] = file[n][j]
    BY <2>1 DEF Saved, FilesCovered, Placed
  <2>4. Settled(T, A, c) /\ Settled(T, A, d)
    BY <2>1 DEF Recorded, Settled
  <2>5. c.term <= d.term \/ d.term <= c.term
    BY <2>4 DEF Settled
  <2> QED BY <2>1, <2>2, <2>3, <2>4, <2>5, CommitsAgree
<1> QED BY <1>1, LedgerInv, PTL
==============================================================================
