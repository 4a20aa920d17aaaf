--------------------------- MODULE RaftMessageProofs --------------------------
(***************************************************************************)
(* Theorems that rest on what is under way between the nodes, for every    *)
(* number of nodes, clients and commands and every value of the bounds:    *)
(*   GrantsBind           Spec => []GrantBinding                           *)
(*   EntriesAreIndexed    Spec => []EntriesIndexed                         *)
(*   LogTermsAreInOrder   Spec => []LogTermsInOrder                        *)
(* LineStep says, once for all of them, what a step may do to the queue    *)
(* from one node to another, and StepSends what it may add to the messages *)
(* under way.                                                              *)
(***************************************************************************)
EXTENDS RaftProofs

-----------------------------------------------------------------------------
(* What a step does to the queue of messages from one node to another.     *)

(* The answers to clients go to no node. *)
LEMMA AnswerQueue ==
  ASSUME NEW net, ChanOK(net), NEW cache, NEW n \in Node, NEW entries,
         NEW a \in Node, NEW b \in Node
  PROVE  Queue(Answer(net, n, entries), cache, a, b) = Queue(net, cache, a, b)
<1>1. net \in [Node -> [Node \cup Client -> Seq(NodeRpc \cup ClientRpc)]]
  BY DEF ChanOK
<1>2. b \notin Client
  BY ClientAssumption
<1>3. Answer(net, n, entries)[a][b] = net[a][b]
  BY <1>1, <1>2 DEF Answer
<1> QED BY <1>3 DEF Queue

(* The commit loop of a leader sends nothing to nodes but what it was      *)
(* given.                                                                  *)
LEMMA CommitLoopQueue ==
  ASSUME NEW net, ChanOK(net), NEW n \in Node, NEW match, CommitLoop(n, match, net),
         NEW cache, NEW a \in Node, NEW b \in Node
  PROVE  Queue(chan', cache, a, b) = Queue(net, cache, a, b)
<1>1. PICK entries : chan' = Answer(net, n, entries)
  BY DEF CommitLoop
<1> QED BY <1>1, AnswerQueue

(* The kinds of messages a node a sends to a node b in a step: a request   *)
(* for votes of its new term, with the end of its log, an answer to an     *)
(* AppendEntries, which succeeds only when the log now ends where the      *)
(* answer says, the answer to a request for a vote, or, from a leader, an  *)
(* update from the log it has.                                             *)
Sends(a, b, x) ==
  \/ /\ x.type = "REQUEST_VOTE" /\ x.term > 0 /\ x.term = term'[a]
     /\ x.lastLogIndex = LastIndex(logs[a]) /\ x.lastLogTerm = LastTerm(logs[a])
  \/ /\ x.type = "APPEND_ENTRIES_RESPONSE"
     /\ x.success => /\ FollowerAppends(a, b) /\ b # a
                     /\ x.term = TermAfter(a, NextRpc(a, b))
                     /\ x.newIndex = Len(logs'[a])
  \/ /\ FollowerRequestVote(a, b)
     /\ x = RequestVoteResponse(TermAfter(a, NextRpc(a, b)),
                                GrantsVote(a, b, NextRpc(a, b)))
  \/ /\ state'[a] = "LEADER"
     /\ \E next \in Int : x = Update(a, logs[a], next, commitIndex[a])

Line(a, b) == Queue(chan, reinjected, a, b)

(* The queue stays, loses its head, or takes one more message. *)
LineMoves(a, b) ==
  \/ Line(a, b)' = Line(a, b)
  \/ Line(a, b) # <<>> /\ Line(a, b)' = Tail(Line(a, b))
  \/ \E x \in NodeRpc : Sends(a, b, x) /\ Line(a, b)' = Append(Line(a, b), x)

(* What is under way is in the queue. *)
LEMMA LineUnderWay ==
  ASSUME TypeOK, NEW a \in Node, NEW b \in Node
  PROVE  /\ Line(a, b) \in Seq(NodeRpc)
         /\ \A x : x \in InFlight(a, b) <=> \E i \in DOMAIN Line(a, b) : x = Line(a, b)[i]
<1>1. ChanOK(chan) /\ ReinjectedOK(reinjected)
  BY DEF TypeOK
<1>2. Line(a, b) \in Seq(NodeRpc)
  BY <1>1, QueueType DEF Line
<1>3. \A x : x \in InFlight(a, b) <=> \E i \in DOMAIN Line(a, b) : x = Line(a, b)[i]
  BY <1>1, QueueUnderWay DEF Line, InFlight
<1> QED BY <1>2, <1>3

(* A candidate sends requests for votes. *)
LEMMA StartCandidateLine ==
  ASSUME TypeOK, NEW n \in Node, StartCandidate(n, chan), reinjected' = reinjected,
         NEW a \in Node, NEW b \in Node
  PROVE  LineMoves(a, b)
<1> DEFINE rpc == RequestVote(term[n] + 1, LastIndex(logs[n]), LastTerm(logs[n]))
           rpcs == [d \in Node |-> rpc]
<1>1. logs[n] \in Seq(Entry) /\ term[n] \in Nat /\ term[n] + 1 \in Nat
  <2>1. logs[n] \in Seq(Entry) /\ term[n] \in Nat
    BY DEF TypeOK
  <2> QED BY <2>1
<1>2. ChanOK(chan) /\ ReinjectedOK(reinjected)
  BY DEF TypeOK
<1>3. rpc \in NodeRpc
  <2>1. LastIndex(logs[n]) \in Index /\ LastTerm(logs[n]) \in Index
    BY <1>1, LastType
  <2> QED BY <1>1, <2>1, RequestVoteType
<1>4. chan' = Broadcast(chan, n, rpcs)
  BY DEF StartCandidate
<1>5. rpcs[b] = rpc /\ Sends(n, b, rpc)
  <2>1. /\ rpc.type = "REQUEST_VOTE" /\ rpc.term = term[n] + 1
        /\ rpc.lastLogIndex = LastIndex(logs[n]) /\ rpc.lastLogTerm = LastTerm(logs[n])
    BY DEF RequestVote
  <2>2. term'[n] = term[n] + 1
    BY DEF StartCandidate, TypeOK
  <2>3. rpc.term > 0
    BY <1>1, <2>1
  <2> QED BY <2>1, <2>2, <2>3 DEF Sends
<1> HIDE DEF rpcs, rpc
<1>6. Line(a, b)' = IF a = n /\ b # n THEN Append(Line(a, b), rpcs[b]) ELSE Line(a, b)
  BY <1>2, <1>3, <1>4, <1>5, BroadcastQueue DEF Line
<1> QED BY <1>3, <1>5, <1>6 DEF LineMoves

(* A leader that begins a cycle sends updates. *)
LEMMA LeaderPreCycleQueue ==
  ASSUME TypeOK, NEW n \in Node, NEW net, ChanOK(net), NEW next \in [Node -> Int],
         LeaderPreCycle(n, net, next), state'[n] = "LEADER",
         NEW cache, ReinjectedOK(cache), NEW a \in Node, NEW b \in Node
  PROVE  \/ Queue(chan', cache, a, b) = Queue(net, cache, a, b)
         \/ /\ a = n
            /\ \E x \in NodeRpc : /\ Sends(a, b, x)
                                  /\ Queue(chan', cache, a, b) = Append(Queue(net, cache, a, b), x)
<1> DEFINE rpcs == [d \in Node |-> Update(n, logs[n], next[d], commitIndex[n])]
<1>1. rpcs[b] = Update(n, logs[n], next[b], commitIndex[n]) /\ next[b] \in Int
  OBVIOUS
<1>2. rpcs[b] \in NodeRpc
  <2>1. /\ term[n] \in Nat /\ logs[n] \in Seq(Entry) /\ commitIndex[n] \in Index
    BY DEF TypeOK
  <2> QED BY <1>1, <2>1, UpdateType
<1>3. chan' = Broadcast(net, n, rpcs)
  BY DEF LeaderPreCycle
<1> HIDE DEF rpcs
<1>4. Queue(chan', cache, a, b) =
        IF a = n /\ b # n THEN Append(Queue(net, cache, a, b), rpcs[b])
        ELSE Queue(net, cache, a, b)
  BY <1>2, <1>3, BroadcastQueue
<1>5. a = n => Sends(a, b, rpcs[b])
  BY <1>1 DEF Sends
<1> QED BY <1>2, <1>4, <1>5

(* A node that takes a message and answers it, or does not. *)
LEMMA AnswerLine ==
  ASSUME TypeOK, NEW n \in Node, NEW m \in Node \ {n}, CanReceive(n, m),
         NEW x \in NodeRpc, reinjected' = ReinjectedAfter(n),
         NEW a \in Node, NEW b \in Node,
         \/ \A c, d \in Node : Queue(chan', reinjected', c, d) =
                               Queue(ChanAfter(n, m), reinjected', c, d)
         \/ /\ \A c, d \in Node : Queue(chan', reinjected', c, d) =
                               Queue(Send(ChanAfter(n, m), n, m, x), reinjected', c, d)
            /\ Sends(n, m, x)
  PROVE  LineMoves(a, b)
<1>1. ChanOK(chan) /\ ReinjectedOK(reinjected)
  BY DEF TypeOK
<1>2. ChanOK(ChanAfter(n, m)) /\ ReinjectedOK(ReinjectedAfter(n))
  BY <1>1, ChanAfterType, ReinjectedAfterType
<1>3. /\ Queue(chan, reinjected, m, n) # <<>>
      /\ Queue(ChanAfter(n, m), ReinjectedAfter(n), a, b) =
           IF a = m /\ b = n THEN Tail(Line(a, b)) ELSE Line(a, b)
  BY <1>1, TakeQueue DEF Line
<1>4. Queue(Send(ChanAfter(n, m), n, m, x), ReinjectedAfter(n), a, b) =
        IF a = n /\ b = m
        THEN Append(Queue(ChanAfter(n, m), ReinjectedAfter(n), a, b), x)
        ELSE Queue(ChanAfter(n, m), ReinjectedAfter(n), a, b)
  BY <1>2, SendQueue
<1>5. Line(a, b)' = Queue(chan', reinjected', a, b)
  BY DEF Line
<1>6. Line(m, n) # <<>>
  BY <1>3 DEF Line
<1> QED BY <1>3, <1>4, <1>5, <1>6 DEF LineMoves

(* What a step does to the queue from a to b. *)
LEMMA LineStep ==
  ASSUME TypeOK, [Next]_vars, NEW a \in Node, NEW b \in Node
  PROVE  LineMoves(a, b)
<1>1. ChanOK(chan) /\ ReinjectedOK(reinjected)
  BY DEF TypeOK
<1>2. CASE UNCHANGED mailboxVars
  BY <1>2 DEF LineMoves, Line, mailboxVars
<1>3. ASSUME NEW n \in Node, LeaderPreCycle(n, chan, nextIndex[n]),
             reinjected' = reinjected, state'[n] = "LEADER"
      PROVE  LineMoves(a, b)
  <2>1. nextIndex[n] \in [Node -> Int]
    BY DEF TypeOK
  <2> QED BY <1>1, <1>3, <2>1, LeaderPreCycleQueue DEF Line, LineMoves
<1>4. ASSUME NEW n \in Node,
             FollowerTimeout(n) \/ CandidateTimeout(n) \/ LeaderTimeout(n)
      PROVE  LineMoves(a, b)
  <2>1. \/ StartCandidate(n, chan) /\ reinjected' = reinjected
        \/ /\ LeaderPreCycle(n, chan, nextIndex[n]) /\ reinjected' = reinjected
           /\ state'[n] = "LEADER"
        \/ UNCHANGED mailboxVars
    BY <1>4 DEF FollowerTimeout, CandidateTimeout, LeaderTimeout, Abort, voteVars
  <2> QED BY <1>2, <1>3, <2>1, StartCandidateLine
<1>5. ASSUME NEW n \in Node, NEW m \in Node \ {n}, HandleNodeRequest(n, m)
      PROVE  LineMoves(a, b)
  <2> DEFINE rpc == NextRpc(n, m)
             net == ChanAfter(n, m)
  <2>1. ASSUME CanReceive(n, m)
        PROVE  /\ ChanOK(net) /\ ReinjectedOK(ReinjectedAfter(n))
               /\ RequestVote(0, -1, -1) \in NodeRpc
    BY <1>1, <2>1, ChanAfterType, ReinjectedAfterType, RequestVoteType DEF Index
  <2>2. CASE \/ FollowerIgnores(n, m) \/ (CandidateTakesVote(n, m) /\ CandidateCountsVote(n, m))
             \/ CandidateIgnores(n, m) \/ CrashLoopDrops(n, m)
    <3>1. /\ CanReceive(n, m)
          /\ chan' = net /\ reinjected' = ReinjectedAfter(n)
      BY <2>2 DEF FollowerIgnores, CandidateTakesVote, CandidateCountsVote,
                  CandidateIgnores, CrashLoopDrops, Receives
    <3> QED BY <2>1, <3>1, AnswerLine
  <2>3. CASE StepDown(n, m) \/ CandidateMeetsLeader(n, m)
    <3>1. /\ CanReceive(n, m)
          /\ chan' = net /\ reinjected' = Reinject(n, m)
      BY <2>3 DEF StepDown, CandidateMeetsLeader, BecomeFollower, Receives
    <3> QED BY <1>1, <3>1, ReinjectQueue DEF Line, LineMoves
  <2>4. CASE FollowerAborts(n, m) \/ LeaderAborts(n, m)
    BY <1>2, <2>4 DEF FollowerAborts, LeaderAborts, Abort
  <2>5. CASE FollowerRequestVote(n, m)
    <3> DEFINE answer == RequestVoteResponse(TermAfter(n, rpc), GrantsVote(n, m, rpc))
    <3>1. /\ Receives(n, m, "FOLLOWER", {"REQUEST_VOTE"})
          /\ chan' = Send(net, n, m, answer)
          /\ reinjected' = ReinjectedAfter(n)
      BY <2>5 DEF FollowerRequestVote
    <3>2. CanReceive(n, m) /\ rpc \in NodeRpc
      BY <3>1, ReceiptType DEF Receives
    <3>3. answer \in NodeRpc
      <4>1. GrantsVote(n, m, rpc) \in BOOLEAN
        BY DEF GrantsVote
      <4> QED BY <3>2, <4>1, AfterType, RequestVoteResponseType
    <3>4. Sends(n, m, answer)
      BY <2>5 DEF Sends
    <3> HIDE DEF answer
    <3> QED BY <3>1, <3>2, <3>3, <3>4, AnswerLine
  <2>6. ASSUME NEW t \in Nat, NEW s \in BOOLEAN, NEW i \in Nat, CanReceive(n, m),
               chan' = Send(net, n, m, AppendEntriesResponse(t, s, i)),
               reinjected' = ReinjectedAfter(n),
               s => FollowerAppends(n, m) /\ t = TermAfter(n, rpc) /\ i = Len(logs'[n])
        PROVE  LineMoves(a, b)
    <3> DEFINE answer == AppendEntriesResponse(t, s, i)
    <3>1. answer \in NodeRpc /\ Sends(n, m, answer)
      <4>1. answer \in NodeRpc
        BY AppendEntriesResponseType
      <4>2. /\ answer.type = "APPEND_ENTRIES_RESPONSE"
            /\ answer.success = s /\ answer.term = t /\ answer.newIndex = i
        BY DEF AppendEntriesResponse
      <4> HIDE DEF answer
      <4> QED BY <2>6, <4>1, <4>2 DEF Sends
    <3> HIDE DEF answer
    <3>2. chan' = Send(net, n, m, answer)
      BY <2>6 DEF answer
    <3> QED BY <2>6, <3>1, <3>2, AnswerLine
  <2>7. CASE FollowerRejectsStaleLeader(n, m)
    <3>1. term[n] \in Nat /\ Len(logs[n]) \in Nat
      BY DEF TypeOK
    <3> QED BY <2>6, <2>7, <3>1 DEF FollowerRejectsStaleLeader, Receives
  <2>8. CASE FollowerRejectsGap(n, m)
    <3>1. Receives(n, m, "FOLLOWER", {"APPEND_ENTRIES"})
      BY <2>8 DEF FollowerRejectsGap
    <3>2. TermAfter(n, rpc) \in Nat /\ Len(logs[n]) \in Nat
      <4>1. rpc \in NodeRpc
        BY <3>1, ReceiptType
      <4>2. TermAfter(n, rpc) \in Nat
        BY <4>1, AfterType
      <4>3. logs[n] \in Seq(Entry)
        BY DEF TypeOK
      <4> QED BY <4>2, <4>3
    <3> QED BY <2>6, <2>8, <3>1, <3>2 DEF FollowerRejectsGap, Receives
  <2>9. CASE FollowerAppends(n, m)
    <3> DEFINE log == LogAfter(logs[n], rpc)
    <3>1. /\ Receives(n, m, "FOLLOWER", {"APPEND_ENTRIES"})
          /\ ~Throws(rpc) /\ ConsistentEntry(logs[n], rpc)
          /\ logs' = [logs EXCEPT ![n] = log]
          /\ chan' = IF rpc.entries = <<>> THEN net
                     ELSE Send(net, n, m,
                               AppendEntriesResponse(TermAfter(n, rpc), TRUE, Len(log)))
          /\ reinjected' = ReinjectedAfter(n)
      BY <2>9 DEF FollowerAppends
    <3>2. /\ CanReceive(n, m) /\ rpc \in NodeRpc /\ rpc.type = "APPEND_ENTRIES"
      BY <3>1, ReceiptType DEF Receives
    <3>3. TermAfter(n, rpc) \in Nat
      BY <3>2, AfterType
    <3>4. Len(log) \in Nat /\ Len(log) = Len(logs'[n])
      <4>1. logs \in [Node -> Seq(Entry)]
        BY DEF TypeOK
      <4>2. log \in Seq(Entry)
        BY <3>1, <3>2, <4>1, LogAfterType
      <4> HIDE DEF log
      <4> QED BY <3>1, <4>1, <4>2
    <3>5. CASE chan' = net
      BY <2>1, <3>1, <3>2, <3>5, AnswerLine
    <3>6. CASE chan' = Send(net, n, m,
                            AppendEntriesResponse(TermAfter(n, rpc), TRUE, Len(log)))
      <4> HIDE DEF log, net, rpc
      <4> QED BY <2>6, <2>9, <3>1, <3>2, <3>3, <3>4, <3>6
    <3> QED BY <3>1, <3>5, <3>6
  <2>10. CASE CandidateTakesVote(n, m) /\ CandidateIsElected(n, m)
    <3>1. /\ CanReceive(n, m) /\ reinjected' = ReinjectedAfter(n)
          /\ LeaderPreCycle(n, net, FreshNext(logs[n]))
      BY <2>10 DEF CandidateTakesVote, CandidateIsElected, Receives
    <3>2. FreshNext(logs[n]) \in [Node -> Int]
      BY FreshType
    <3>3. ChanOK(net) /\ ReinjectedOK(ReinjectedAfter(n))
      BY <2>1, <3>1
    <3>4. state'[n] = "LEADER"
      BY <2>10 DEF CandidateIsElected, TypeOK
    <3>5. /\ Line(m, n) # <<>>
          /\ Queue(net, ReinjectedAfter(n), a, b) =
               IF a = m /\ b = n THEN Tail(Line(a, b)) ELSE Line(a, b)
      BY <1>1, <3>1, TakeQueue DEF Line
    <3> HIDE DEF net
    <3>6. \/ Line(a, b)' = Queue(net, ReinjectedAfter(n), a, b)
          \/ /\ a = n
             /\ \E x \in NodeRpc : /\ Sends(a, b, x)
                                   /\ Line(a, b)' = Append(Queue(net, ReinjectedAfter(n), a, b), x)
      BY <3>1, <3>2, <3>3, <3>4, LeaderPreCycleQueue DEF Line
    <3> QED BY <3>5, <3>6 DEF LineMoves
  <2>11. CASE LeaderAppendSucceeded(n, m) \/ LeaderIgnores(n, m)
    <3>1. /\ CanReceive(n, m) /\ reinjected' = ReinjectedAfter(n)
          /\ \E match : CommitLoop(n, match, net)
      BY <2>11 DEF LeaderAppendSucceeded, LeaderIgnores, Receives
    <3>2. ChanOK(net) /\ RequestVote(0, -1, -1) \in NodeRpc
      BY <2>1, <3>1
    <3>3. \A c, d \in Node : Queue(chan', reinjected', c, d) = Queue(net, reinjected', c, d)
      <4> HIDE DEF net
      <4> QED BY <3>1, <3>2, CommitLoopQueue
    <3> QED BY <3>1, <3>2, <3>3, AnswerLine
  <2>12. CASE LeaderAppendFailed(n, m)
    <3> DEFINE next == nextIndex[n][m] - 1
               update == Update(n, logs[n], next, commitIndex[n])
               sent == Send(net, n, m, update)
    <3>1. /\ CanReceive(n, m) /\ reinjected' = ReinjectedAfter(n)
          /\ CommitLoop(n, matchIndex[n], sent)
      BY <2>12 DEF LeaderAppendFailed, Receives
    <3>2. next \in Int
      <4>1. nextIndex[n][m] \in Int
        BY DEF TypeOK
      <4> QED BY <4>1
    <3>3. ChanOK(net)
      BY <2>1, <3>1
    <3> HIDE DEF next
    <3>4. update \in NodeRpc
      <4>1. term[n] \in Nat /\ logs[n] \in Seq(Entry) /\ commitIndex[n] \in Index
        BY DEF TypeOK
      <4> QED BY <3>2, <4>1, UpdateType
    <3>5. Sends(n, m, update)
      <4>1. state'[n] = "LEADER"
        BY <2>12 DEF LeaderAppendFailed, Receives, voteVars
      <4> QED BY <3>2, <4>1 DEF Sends
    <3> HIDE DEF update
    <3>6. ChanOK(sent)
      <4> HIDE DEF net
      <4> QED BY <3>3, <3>4, SendType
    <3>7. \A c, d \in Node : Queue(chan', reinjected', c, d) = Queue(sent, reinjected', c, d)
      <4> HIDE DEF sent
      <4> QED BY <3>1, <3>6, CommitLoopQueue
    <3> QED BY <3>1, <3>4, <3>5, <3>7, AnswerLine
  <2> QED BY <1>5, <2>2, <2>3, <2>4, <2>5, <2>7, <2>8, <2>9, <2>10, <2>11, <2>12
          DEF HandleNodeRequest, CandidateTakesVote
<1>6. ASSUME NEW n \in Node, NEW c \in Client, NEW cmd \in Cmd,
             LeaderAppendsCommand(n, c, cmd)
      PROVE  LineMoves(a, b)
  BY <1>2, <1>6 DEF LeaderAppendsCommand
<1>7. ASSUME NEW n \in CrashTargets, Crash(n) \/ Recover(n) \/ RecoverAborts(n)
      PROVE  LineMoves(a, b)
  <2>1. n \in Node
    BY CrashAssumption
  <2>2. \/ StartCandidate(n, chan) /\ reinjected' = reinjected
        \/ /\ LeaderPreCycle(n, chan, nextIndex[n]) /\ reinjected' = reinjected
           /\ state'[n] = "LEADER"
        \/ UNCHANGED mailboxVars
    BY <1>7 DEF Crash, Recover, RecoverAborts, Abort, mailboxVars, voteVars
  <2> QED BY <1>2, <1>3, <2>1, <2>2, StartCandidateLine
<1>8. CASE UNCHANGED vars
  BY <1>2, <1>8 DEF vars
<1> QED BY <1>4, <1>5, <1>6, <1>7, <1>8 DEF Next

(* Every message under way after a step was so before, or is sent by it. *)
LEMMA StepSends ==
  ASSUME TypeOK, [Next]_vars, NEW a \in Node, NEW b \in Node, NEW x \in InFlight(a, b)'
  PROVE  x \in InFlight(a, b) \/ Sends(a, b, x)
<1> DEFINE q == Line(a, b)
           r == Line(a, b)'
<1>1. TypeOK'
  BY NextType
<1>2. /\ q \in Seq(NodeRpc) /\ \A y : y \in InFlight(a, b) <=> \E i \in DOMAIN q : y = q[i]
      /\ r \in Seq(NodeRpc) /\ \A y : y \in InFlight(a, b)' <=> \E i \in DOMAIN r : y = r[i]
  <2>1. ChanOK(chan') /\ ReinjectedOK(reinjected')
    BY <1>1 DEF TypeOK, ChanOK, ReinjectedOK
  <2>2. r = Queue(chan', reinjected', a, b) /\ InFlight(a, b)' = UnderWay(chan', reinjected', a, b)
    BY DEF Line, Queue, Cached, InFlight, UnderWay
  <2>3. r \in Seq(NodeRpc)
    BY <2>1, <2>2, QueueType
  <2>4. \A y : y \in InFlight(a, b)' <=> \E i \in DOMAIN r : y = r[i]
    BY <2>1, <2>2, QueueUnderWay
  <2> QED BY <2>3, <2>4, LineUnderWay
<1>3. LineMoves(a, b)
  BY LineStep
<1>4. \/ r = q
      \/ q # <<>> /\ r = Tail(q)
      \/ \E y \in NodeRpc : Sends(a, b, y) /\ r = Append(q, y)
  BY <1>3 DEF LineMoves
<1> HIDE DEF q, r
<1>5. CASE r = q
  BY <1>2, <1>5
<1>6. CASE q # <<>> /\ r = Tail(q)
  BY <1>2, <1>6, TailElement
<1>7. ASSUME NEW y \in NodeRpc, Sends(a, b, y), r = Append(q, y)
      PROVE  x \in InFlight(a, b) \/ Sends(a, b, x)
  <2>1. PICK i \in DOMAIN r : x = r[i]
    BY <1>2
  <2>2. r[i] = y \/ (i \in DOMAIN q /\ r[i] = q[i])
    BY <1>2, <1>7, AppendElement
  <2> QED BY <1>2, <1>7, <2>1, <2>2
<1> QED BY <1>4, <1>5, <1>6, <1>7

-----------------------------------------------------------------------------
(* A vote that is granted binds the voter.                                 *)

(* What binds node a: it voted for b in term t, or is beyond that term. *)
Bound(a, b, t) == term[a] > t \/ (term[a] = t /\ votedFor[a] = b)

(* A vote that bound a node before a step binds it after. *)
LEMMA BoundStep ==
  ASSUME TypeOK, [Next]_vars, NEW a \in Node, NEW b \in Node, NEW t \in Nat,
         Bound(a, b, t)
  PROVE  Bound(a, b, t)'
<1>1. term[a] \in Nat /\ term'[a] \in Nat
  <2>1. TypeOK'
    BY NextType
  <2>2. term[a] \in Nat
    BY DEF TypeOK
  <2>3. term'[a] \in Nat
    BY <2>1 DEF TypeOK
  <2> QED BY <2>2, <2>3
<1>2. VoteKept(a)
  BY OneVoteStep
<1>3. b # Nil
  BY NodeAssumption
<1> QED BY <1>1, <1>2, <1>3 DEF Bound, VoteKept

(* The vote a follower grants binds it as soon as it is sent. *)
LEMMA GrantBinds ==
  ASSUME TypeOK, NEW a \in Node, NEW b \in Node, FollowerRequestVote(a, b),
         GrantsVote(a, b, NextRpc(a, b)), NEW t, t = TermAfter(a, NextRpc(a, b))
  PROVE  term'[a] = t /\ votedFor'[a] = b
<1> DEFINE rpc == NextRpc(a, b)
<1>1. /\ term' = [term EXCEPT ![a] = TermAfter(a, rpc)]
      /\ votedFor' = [votedFor EXCEPT ![a] =
                        IF GrantsVote(a, b, rpc) THEN b ELSE VoteAfter(a, rpc)]
  BY DEF FollowerRequestVote
<1> HIDE DEF rpc
<1>2. term \in [Node -> Nat] /\ votedFor \in [Node -> Node \cup {Nil}]
  BY DEF TypeOK
<1> QED BY <1>1, <1>2 DEF rpc

(* A step keeps GrantBinding: the votes already under way go on binding    *)
(* their voters, and the only vote it can send binds its own.              *)
LEMMA GrantBindingStep ==
  ASSUME TypeOK, GrantBinding, [Next]_vars
  PROVE  GrantBinding'
<1> SUFFICES ASSUME NEW a \in Node, NEW b \in Node, NEW x \in InFlight(a, b)',
                    x.type = "REQUEST_VOTE_RESPONSE", x.voteGranted
             PROVE  Bound(a, b, x.term)'
  BY DEF GrantBinding, Bound
<1>1. CASE x \in InFlight(a, b)
  <2>1. x \in NodeRpc
    BY <1>1, UnderWayType DEF TypeOK, InFlight
  <2>2. x.term \in Nat
    BY <2>1, NodeRpcFields
  <2>3. Bound(a, b, x.term)
    BY <1>1 DEF GrantBinding, Bound
  <2> QED BY <2>2, <2>3, BoundStep
<1>2. CASE Sends(a, b, x)
  <2>1. /\ FollowerRequestVote(a, b)
        /\ x = RequestVoteResponse(TermAfter(a, NextRpc(a, b)),
                                   GrantsVote(a, b, NextRpc(a, b)))
    <3>1. ASSUME NEW next, x = Update(a, logs[a], next, commitIndex[a])
          PROVE  FALSE
      <4>1. x.type = "APPEND_ENTRIES"
        BY <3>1 DEF Update, AppendEntries
      <4> QED BY <4>1
    <3> QED BY <1>2, <3>1 DEF Sends
  <2>2. /\ x.term = TermAfter(a, NextRpc(a, b))
        /\ x.voteGranted = GrantsVote(a, b, NextRpc(a, b))
    BY <2>1 DEF RequestVoteResponse
  <2>3. GrantsVote(a, b, NextRpc(a, b))
    BY <2>2
  <2> QED BY <2>1, <2>2, <2>3, GrantBinds DEF Bound
<1>3. x \in InFlight(a, b) \/ Sends(a, b, x)
  BY StepSends
<1> QED BY <1>1, <1>2, <1>3

(* GrantBinding: a granted vote under way is one its sender is bound by    *)
(* (followerCycle.cc:72-91).                                               *)
THEOREM GrantsBind == Spec => []GrantBinding
<1>1. Init => GrantBinding
  BY DEF Init, MailboxInit, GrantBinding, InFlight, UnderWay
<1>2. TypeOK /\ GrantBinding /\ [Next]_vars => GrantBinding'
  BY GrantBindingStep
<1> QED BY <1>1, <1>2, TypeCorrect, PTL DEF Spec

-----------------------------------------------------------------------------
(* The entries of a log carry their own positions.                         *)

(* A log that is cut after its first k entries and continued. *)
LEMMA CutAndContinue ==
  ASSUME NEW log \in Seq(Entry), NEW k \in 0 .. Len(log), NEW es \in Seq(Entry)
  PROVE  /\ Len(SubSeq(log, 1, k) \o es) = k + Len(es)
         /\ \A i \in 1 .. k : (SubSeq(log, 1, k) \o es)[i] = log[i]
         /\ \A i \in k + 1 .. k + Len(es) :
              (SubSeq(log, 1, k) \o es)[i] = es[i - k]
<1> DEFINE s == SubSeq(log, 1, k)
<1>1. s \in Seq(Entry) /\ Len(s) = k
  OBVIOUS
<1>2. \A i \in 1 .. k : s[i] = log[i]
  OBVIOUS
<1> HIDE DEF s
<1>3. Len(s \o es) = k + Len(es)
  BY <1>1
<1>4. \A i \in 1 .. k : (s \o es)[i] = log[i]
  BY <1>1, <1>2
<1>5. \A i \in k + 1 .. k + Len(es) : (s \o es)[i] = es[i - k]
  BY <1>1
<1> QED BY <1>3, <1>4, <1>5 DEF s

(* What is left of a log without its first k entries. *)
LEMMA Suffix ==
  ASSUME NEW log \in Seq(Entry), NEW k \in Nat
  PROVE  /\ Len(SubSeq(log, k + 1, Len(log))) =
              IF k <= Len(log) THEN Len(log) - k ELSE 0
         /\ \A i \in 1 .. Len(log) - k :
              SubSeq(log, k + 1, Len(log))[i] = log[k + i]
  OBVIOUS

LEMMA IndexedCutAndContinue ==
  ASSUME NEW log \in Seq(Entry), NEW k \in 0 .. Len(log), NEW es \in Seq(Entry),
         IndexedFrom(log, 0), IndexedFrom(es, k)
  PROVE  IndexedFrom(SubSeq(log, 1, k) \o es, 0)
<1> DEFINE new == SubSeq(log, 1, k) \o es
<1>1. /\ Len(new) = k + Len(es)
      /\ \A i \in 1 .. k : new[i] = log[i]
      /\ \A i \in k + 1 .. k + Len(es) : new[i] = es[i - k]
  BY CutAndContinue
<1>2. new \in Seq(Entry)
  <2>1. SubSeq(log, 1, k) \in Seq(Entry)
    OBVIOUS
  <2> QED BY <2>1
<1> HIDE DEF new
<1>3. ASSUME NEW i \in 1 .. k PROVE new[i].index = i - 1
  BY <1>1, <1>3 DEF IndexedFrom
<1>4. ASSUME NEW i \in k + 1 .. k + Len(es) PROVE new[i].index = i - 1
  <2>1. i - k \in DOMAIN es
    BY <1>4
  <2>2. es[i - k].index = k + (i - k) - 1
    BY <2>1 DEF IndexedFrom
  <2> QED BY <1>1, <1>4, <2>2
<1>5. DOMAIN new = 1 .. k + Len(es)
  BY <1>1, <1>2
<1>6. ASSUME NEW i \in DOMAIN new PROVE new[i].index = 0 + i - 1
  <2>1. i \in 1 .. k \/ i \in k + 1 .. k + Len(es)
    BY <1>5
  <2> QED BY <1>3, <1>4, <2>1
<1> QED BY <1>6 DEF IndexedFrom, new

LEMMA IndexedSuffix ==
  ASSUME NEW log \in Seq(Entry), NEW k \in Nat, IndexedFrom(log, 0)
  PROVE  IndexedFrom(SubSeq(log, k + 1, Len(log)), k)
<1> DEFINE s == SubSeq(log, k + 1, Len(log))
<1>1. s \in Seq(Entry)
  BY SuffixType
<1>2. /\ Len(s) = IF k <= Len(log) THEN Len(log) - k ELSE 0
      /\ \A i \in 1 .. Len(log) - k : s[i] = log[k + i]
  BY Suffix
<1> HIDE DEF s
<1>3. ASSUME NEW i \in DOMAIN s PROVE s[i].index = k + i - 1
  <2>1. i \in 1 .. Len(log) - k
    BY <1>1, <1>2
  <2>2. k + i \in DOMAIN log
    BY <2>1
  <2>3. log[k + i].index = 0 + (k + i) - 1
    BY <2>2 DEF IndexedFrom
  <2>4. s[i] = log[k + i]
    BY <1>2, <2>1
  <2> QED BY <2>1, <2>3, <2>4
<1> QED BY <1>3 DEF IndexedFrom, s

(* The two ways a step can change a log: a follower cuts and continues it, *)
(* a leader appends one entry to it.                                       *)
LEMMA LogStep ==
  ASSUME TypeOK, [Next]_vars, NEW k \in Node
  PROVE  \/ logs'[k] = logs[k]
         \/ \E m \in Node \ {k} : FollowerAppends(k, m)
         \/ \E c \in Client, cmd \in Cmd : LeaderAppendsCommand(k, c, cmd)
<1>1. logs \in [Node -> Seq(Entry)]
  BY DEF TypeOK
<1>2. ASSUME NEW n \in Node,
             FollowerTimeout(n) \/ CandidateTimeout(n) \/ LeaderTimeout(n)
      PROVE  logs' = logs
  BY <1>2 DEF FollowerTimeout, CandidateTimeout, LeaderTimeout, Abort
<1>3. ASSUME NEW n \in Node, NEW m \in Node \ {n}, HandleNodeRequest(n, m)
      PROVE  FollowerAppends(n, m) \/ logs' = logs
  BY <1>3 DEF HandleNodeRequest, FollowerRequestVote, FollowerRejectsStaleLeader,
       FollowerRejectsGap, FollowerAborts, FollowerIgnores, StepDown,
       CandidateTakesVote, CandidateMeetsLeader,
       CandidateIgnores, LeaderAppendSucceeded, LeaderAppendFailed, LeaderAborts,
       LeaderIgnores, CrashLoopDrops, BecomeFollower, Abort
<1>4. ASSUME NEW n \in Node, NEW m \in Node \ {n}, FollowerAppends(n, m), k # n
      PROVE  logs'[k] = logs[k]
  BY <1>1, <1>4 DEF FollowerAppends
<1>5. ASSUME NEW n \in Node, NEW c \in Client, NEW cmd \in Cmd,
             LeaderAppendsCommand(n, c, cmd), k # n
      PROVE  logs'[k] = logs[k]
  BY <1>1, <1>5 DEF LeaderAppendsCommand
<1>6. ASSUME NEW n \in CrashTargets, Crash(n) \/ Recover(n) \/ RecoverAborts(n)
      PROVE  logs' = logs
  BY <1>6 DEF Crash, Recover, RecoverAborts, Abort
<1>7. CASE UNCHANGED vars
  BY <1>7 DEF vars
<1> QED BY <1>2, <1>3, <1>4, <1>5, <1>6, <1>7 DEF Next

(* What FollowerAppends takes and what becomes of the log. *)
LEMMA FollowerAppendsLog ==
  ASSUME TypeOK, NEW n \in Node, NEW m \in Node \ {n}, FollowerAppends(n, m),
         NEW rpc, rpc = NextRpc(n, m)
  PROVE  /\ rpc \in InFlight(m, n)
         /\ rpc \in NodeRpc /\ rpc.type = "APPEND_ENTRIES" /\ ~Throws(rpc)
         /\ ConsistentEntry(logs[n], rpc)
         /\ rpc.prevLogIndex + 1 \in 0 .. Len(logs[n])
         /\ rpc.entries \in Seq(Entry)
         /\ logs'[n] = SubSeq(logs[n], 1, rpc.prevLogIndex + 1) \o rpc.entries
<1>1. /\ Receives(n, m, "FOLLOWER", {"APPEND_ENTRIES"})
      /\ ~Throws(rpc) /\ ConsistentEntry(logs[n], rpc)
      /\ logs' = [logs EXCEPT ![n] = LogAfter(logs[n], rpc)]
  BY DEF FollowerAppends
<1>2. rpc \in NodeRpc /\ rpc.type = "APPEND_ENTRIES"
  BY <1>1, ReceiptType
<1>3. rpc \in InFlight(m, n)
  BY <1>1, NextRpcUnderWay DEF TypeOK, Receives, InFlight
<1>4. rpc.prevLogIndex \in Int /\ rpc.entries \in Seq(Entry)
  BY <1>2, NodeRpcFields
<1>5. logs \in [Node -> Seq(Entry)]
  BY DEF TypeOK
<1>6. rpc.prevLogIndex + 1 \in 0 .. Len(logs[n])
  BY <1>1, <1>4, <1>5 DEF Throws, ConsistentEntry, LastIndex
<1>7. logs'[n] = LogAfter(logs[n], rpc)
  BY <1>1, <1>5
<1> QED BY <1>1, <1>2, <1>3, <1>4, <1>6, <1>7 DEF LogAfter

(* A step keeps EntriesIndexed. *)
LEMMA EntriesIndexedStep ==
  ASSUME TypeOK, EntriesIndexed, [Next]_vars
  PROVE  EntriesIndexed'
<1>1. logs \in [Node -> Seq(Entry)]
  BY DEF TypeOK
<1>2. ASSUME NEW k \in Node PROVE IndexedFrom(logs'[k], 0)
  <2>1. IndexedFrom(logs[k], 0)
    BY DEF EntriesIndexed
  <2>2. ASSUME NEW m \in Node \ {k}, FollowerAppends(k, m)
        PROVE  IndexedFrom(logs'[k], 0)
    <3> DEFINE rpc == NextRpc(k, m)
    <3>1. /\ rpc \in InFlight(m, k)
          /\ rpc.type = "APPEND_ENTRIES" /\ ~Throws(rpc)
          /\ rpc.prevLogIndex + 1 \in 0 .. Len(logs[k])
          /\ rpc.entries \in Seq(Entry)
          /\ logs'[k] = SubSeq(logs[k], 1, rpc.prevLogIndex + 1) \o rpc.entries
      BY <2>2, FollowerAppendsLog
    <3> HIDE DEF rpc
    <3>2. IndexedFrom(rpc.entries, rpc.prevLogIndex + 1)
      BY <3>1 DEF EntriesIndexed
    <3> QED BY <1>1, <2>1, <3>1, <3>2, IndexedCutAndContinue
  <2>3. ASSUME NEW c \in Client, NEW cmd \in Cmd, LeaderAppendsCommand(k, c, cmd)
        PROVE  IndexedFrom(logs'[k], 0)
    <3> DEFINE e == MakeEntry(Len(logs[k]), term[k], cmd, c)
    <3>1. logs'[k] = Append(logs[k], e)
      BY <1>1, <2>3 DEF LeaderAppendsCommand
    <3>2. e.index = Len(logs[k])
      BY DEF MakeEntry
    <3>3. logs[k] \in Seq(Entry)
      BY <1>1
    <3> HIDE DEF e
    <3> QED BY <2>1, <3>1, <3>2, <3>3 DEF IndexedFrom
  <2> QED BY <2>1, <2>2, <2>3, LogStep
<1>3. ASSUME NEW a \in Node, NEW b \in Node, NEW x \in InFlight(a, b)',
             x.type = "APPEND_ENTRIES", ~Throws(x)
      PROVE  IndexedFrom(x.entries, x.prevLogIndex + 1)
  <2>1. x \in InFlight(a, b) \/ Sends(a, b, x)
    BY StepSends
  <2>2. CASE x \in InFlight(a, b)
    BY <1>3, <2>2 DEF EntriesIndexed
  <2>3. CASE Sends(a, b, x)
    <3>1. PICK next \in Int : x = Update(a, logs[a], next, commitIndex[a])
      BY <1>3, <2>3 DEF Sends, RequestVoteResponse
    <3> DEFINE from == IF next < 0 THEN 1 ELSE next + 1
    <3>2. /\ x.prevLogIndex = next - 1
          /\ x.entries = SubSeq(logs[a], from, Len(logs[a]))
      BY <3>1 DEF Update, AppendEntries
    <3>3. next \in Nat /\ from = next + 1
      <4> HIDE DEF from
      <4>1. next \in Nat
        BY <1>3, <3>2 DEF Throws
      <4> QED BY <4>1 DEF from
    <3> HIDE DEF from
    <3>4. x.entries = SubSeq(logs[a], next + 1, Len(logs[a]))
      BY <3>2, <3>3
    <3>5. logs[a] \in Seq(Entry) /\ IndexedFrom(logs[a], 0)
      BY <1>1 DEF EntriesIndexed
    <3>6. IndexedFrom(x.entries, next)
      BY <3>3, <3>4, <3>5, IndexedSuffix
    <3>7. x.prevLogIndex + 1 = next
      BY <3>2, <3>3
    <3> QED BY <3>6, <3>7
  <2> QED BY <2>1, <2>2, <2>3
<1> QED BY <1>2, <1>3 DEF EntriesIndexed, Throws, IndexedFrom

(* EntriesIndexed: what a leader appends and sends is numbered as the      *)
(* assertion of followerCycle.cc:39 expects.                               *)
THEOREM EntriesAreIndexed == Spec => []EntriesIndexed
<1>1. Init => EntriesIndexed
  BY DEF Init, MailboxInit, EntriesIndexed, InFlight, UnderWay, IndexedFrom
<1>2. TypeOK /\ EntriesIndexed /\ [Next]_vars => EntriesIndexed'
  BY EntriesIndexedStep
<1> QED BY <1>1, <1>2, TypeCorrect, PTL DEF Spec

-----------------------------------------------------------------------------
(* The terms of a log never decrease.                                      *)

TermsSorted(log) ==
  \A i, j \in DOMAIN log : i <= j => log[i].term <= log[j].term

TermsUpTo(log, t) == \A i \in DOMAIN log : log[i].term <= t

(* LogTermsInOrder is inductive only together with what the updates under  *)
(* way carry: entries in the order of their terms, none older than the     *)
(* entry before them, none newer than the update itself.                   *)
UpdateInOrder(x) ==
  /\ TermsSorted(x.entries) /\ TermsUpTo(x.entries, x.term)
  /\ x.prevLogIndex # -1 =>
       \A i \in DOMAIN x.entries : x.prevLogTerm <= x.entries[i].term

UpdatesInOrder ==
  \A a, b \in Node : \A x \in InFlight(a, b) :
    x.type = "APPEND_ENTRIES" /\ ~Throws(x) => UpdateInOrder(x)

LogsInOrder == \A n \in Node : TermsSorted(logs[n]) /\ TermsUpTo(logs[n], term[n])

LEMMA LogsInOrderEnough == TypeOK /\ LogsInOrder => LogTermsInOrder
<1> SUFFICES ASSUME TypeOK, LogsInOrder, NEW n \in Node, NEW i \in DOMAIN logs[n]
             PROVE  /\ logs[n][i].term <= term[n]
                    /\ \A j \in i .. Len(logs[n]) : logs[n][i].term <= logs[n][j].term
  BY DEF LogTermsInOrder
<1>1. logs[n] \in Seq(Entry)
  BY DEF TypeOK
<1>2. TermsSorted(logs[n]) /\ TermsUpTo(logs[n], term[n])
  BY DEF LogsInOrder
<1>3. ASSUME NEW j \in i .. Len(logs[n]) PROVE logs[n][i].term <= logs[n][j].term
  <2>1. j \in DOMAIN logs[n] /\ i <= j
    BY <1>1
  <2> QED BY <1>2, <2>1 DEF TermsSorted
<1> QED BY <1>2, <1>3 DEF TermsUpTo

(* A log that is cut and continued by entries no older than its last.      *)
LEMMA SortedCutAndContinue ==
  ASSUME NEW log \in Seq(Entry), NEW k \in 0 .. Len(log), NEW es \in Seq(Entry),
         TermsSorted(log), TermsSorted(es),
         k > 0 => \A i \in DOMAIN es : log[k].term <= es[i].term
  PROVE  TermsSorted(SubSeq(log, 1, k) \o es)
<1> DEFINE new == SubSeq(log, 1, k) \o es
<1>1. /\ Len(new) = k + Len(es)
      /\ \A i \in 1 .. k : new[i] = log[i]
      /\ \A i \in k + 1 .. k + Len(es) : new[i] = es[i - k]
  BY CutAndContinue
<1>2. new \in Seq(Entry)
  <2>1. SubSeq(log, 1, k) \in Seq(Entry)
    OBVIOUS
  <2> QED BY <2>1
<1> HIDE DEF new
<1>3. DOMAIN new = 1 .. k + Len(es)
  BY <1>1, <1>2
<1>4. ASSUME NEW i \in DOMAIN new, NEW j \in DOMAIN new, i <= j
      PROVE  new[i].term <= new[j].term
  <2>1. CASE j <= k
    <3>1. i \in DOMAIN log /\ j \in DOMAIN log
      BY <1>3, <1>4, <2>1
    <3>2. new[i] = log[i] /\ new[j] = log[j]
      BY <1>1, <1>3, <1>4, <2>1
    <3> QED BY <1>4, <3>1, <3>2 DEF TermsSorted
  <2>2. CASE i > k
    <3>1. i - k \in DOMAIN es /\ j - k \in DOMAIN es /\ i - k <= j - k
      BY <1>3, <1>4, <2>2
    <3>2. new[i] = es[i - k] /\ new[j] = es[j - k]
      BY <1>1, <1>3, <1>4, <2>2
    <3> QED BY <3>1, <3>2 DEF TermsSorted
  <2>3. CASE i <= k /\ k < j
    <3>1. i \in DOMAIN log /\ k \in DOMAIN log /\ j - k \in DOMAIN es /\ i <= k
      BY <1>3, <1>4, <2>3
    <3>2. new[i] = log[i] /\ new[j] = es[j - k]
      BY <1>1, <1>3, <1>4, <2>3
    <3>3. log[i].term <= log[k].term /\ log[k].term <= es[j - k].term
      BY <3>1 DEF TermsSorted
    <3>4. log[i].term \in Nat /\ log[k].term \in Nat /\ es[j - k].term \in Nat
      BY <3>1, EntryFields
    <3> QED BY <3>2, <3>3, <3>4
  <2> QED BY <1>3, <1>4, <2>1, <2>2, <2>3
<1> QED BY <1>4 DEF TermsSorted, new

LEMMA BoundedCutAndContinue ==
  ASSUME NEW log \in Seq(Entry), NEW k \in 0 .. Len(log), NEW es \in Seq(Entry),
         NEW t, TermsUpTo(log, t), TermsUpTo(es, t)
  PROVE  TermsUpTo(SubSeq(log, 1, k) \o es, t)
<1> DEFINE new == SubSeq(log, 1, k) \o es
<1>1. /\ Len(new) = k + Len(es)
      /\ \A i \in 1 .. k : new[i] = log[i]
      /\ \A i \in k + 1 .. k + Len(es) : new[i] = es[i - k]
  BY CutAndContinue
<1>2. new \in Seq(Entry)
  <2>1. SubSeq(log, 1, k) \in Seq(Entry)
    OBVIOUS
  <2> QED BY <2>1
<1> HIDE DEF new
<1>3. ASSUME NEW i \in DOMAIN new PROVE new[i].term <= t
  <2>1. CASE i <= k
    <3>1. i \in DOMAIN log /\ new[i] = log[i]
      BY <1>1, <1>2, <2>1
    <3> QED BY <3>1 DEF TermsUpTo
  <2>2. CASE i > k
    <3>1. i - k \in DOMAIN es /\ new[i] = es[i - k]
      BY <1>1, <1>2, <2>2
    <3> QED BY <3>1 DEF TermsUpTo
  <2> QED BY <1>1, <1>2, <2>1, <2>2
<1> QED BY <1>3 DEF TermsUpTo, new

(* What a leader sends of an ordered log is in order. *)
LEMMA UpdateIsInOrder ==
  ASSUME TypeOK, NEW a \in Node, TermsSorted(logs[a]), TermsUpTo(logs[a], term[a]),
         NEW next \in Int, NEW x, x = Update(a, logs[a], next, commitIndex[a]),
         ~Throws(x)
  PROVE  UpdateInOrder(x)
<1> DEFINE log == logs[a]
           from == IF next < 0 THEN 1 ELSE next + 1
           prevTerm == IF next - 1 \in 0 .. LastIndex(log)
                       THEN log[next - 1 + 1].term ELSE 0
<1>1. log \in Seq(Entry)
  BY DEF TypeOK
<1>2. /\ x.term = term[a] /\ x.prevLogIndex = next - 1 /\ x.prevLogTerm = prevTerm
      /\ x.entries = SubSeq(log, from, Len(log))
  BY DEF Update, AppendEntries
<1>3. next \in Nat /\ from = next + 1
  <2> HIDE DEF from, prevTerm
  <2>1. next \in Nat
    BY <1>2 DEF Throws
  <2> QED BY <2>1 DEF from
<1>4. next \in 1 .. Len(log) => prevTerm = log[next].term
  <2>1. ASSUME next \in 1 .. Len(log) PROVE prevTerm = log[next].term
    <3>1. next - 1 \in 0 .. LastIndex(log) /\ next - 1 + 1 = next
      BY <1>1, <2>1 DEF LastIndex
    <3> QED BY <3>1
  <2> QED BY <2>1
<1>5. TermsSorted(log) /\ TermsUpTo(log, term[a])
  OBVIOUS
<1> HIDE DEF from, prevTerm, log
<1> DEFINE s == SubSeq(log, next + 1, Len(log))
<1>6. x.entries = s
  BY <1>2, <1>3
<1>7. s \in Seq(Entry)
  BY <1>1, <1>3, SuffixType
<1>8. /\ Len(s) = IF next <= Len(log) THEN Len(log) - next ELSE 0
      /\ \A i \in 1 .. Len(log) - next : s[i] = log[next + i]
  BY <1>1, <1>3, Suffix
<1> HIDE DEF s
<1>9. ASSUME NEW i \in DOMAIN s
      PROVE  /\ s[i] = log[next + i]
             /\ next + i \in DOMAIN log
             /\ next # 0 => next \in DOMAIN log
  BY <1>1, <1>3, <1>7, <1>8
<1>10. TermsSorted(s)
  <2>1. ASSUME NEW i \in DOMAIN s, NEW j \in DOMAIN s, i <= j
        PROVE  s[i].term <= s[j].term
    <3>1. i \in Nat /\ j \in Nat /\ next + i <= next + j
      BY <1>3, <1>7, <2>1
    <3> QED BY <1>5, <1>9, <3>1 DEF TermsSorted
  <2> QED BY <2>1 DEF TermsSorted
<1>11. TermsUpTo(s, x.term)
  BY <1>2, <1>5, <1>9 DEF TermsUpTo
<1>12. ASSUME x.prevLogIndex # -1, NEW i \in DOMAIN s
       PROVE  x.prevLogTerm <= s[i].term
  <2>1. next # 0
    BY <1>2, <1>3, <1>12
  <2>2. next \in DOMAIN log /\ next + i \in DOMAIN log /\ s[i] = log[next + i]
    BY <1>9, <2>1
  <2>3. next <= next + i
    BY <1>3, <1>7
  <2>4. log[next].term <= log[next + i].term
    BY <1>5, <2>2, <2>3 DEF TermsSorted
  <2>5. next \in 1 .. Len(log)
    BY <1>1, <2>2
  <2> QED BY <1>2, <1>4, <2>2, <2>4, <2>5
<1> QED BY <1>6, <1>10, <1>11, <1>12 DEF UpdateInOrder

(* A step keeps the logs in order. *)
LEMMA LogsInOrderStep ==
  ASSUME TypeOK, LogsInOrder, UpdatesInOrder, [Next]_vars, NEW k \in Node
  PROVE  TermsSorted(logs'[k]) /\ TermsUpTo(logs'[k], term'[k])
<1>1. logs[k] \in Seq(Entry) /\ TermsSorted(logs[k]) /\ TermsUpTo(logs[k], term[k])
  <2>1. logs[k] \in Seq(Entry)
    BY DEF TypeOK
  <2> QED BY <2>1 DEF LogsInOrder
<1>2. term[k] \in Nat /\ term'[k] \in Nat /\ term[k] <= term'[k]
  <2>1. TypeOK'
    BY NextType
  <2>2. term[k] \in Nat
    BY DEF TypeOK
  <2>3. term'[k] \in Nat
    BY <2>1 DEF TypeOK
  <2>4. VoteKept(k)
    BY OneVoteStep
  <2> QED BY <2>2, <2>3, <2>4 DEF VoteKept
<1>3. TermsUpTo(logs[k], term'[k])
  <2>1. ASSUME NEW i \in DOMAIN logs[k] PROVE logs[k][i].term <= term'[k]
    <3>1. logs[k][i].term <= term[k] /\ logs[k][i].term \in Nat
      BY <1>1, EntryFields DEF TermsUpTo
    <3> QED BY <1>2, <3>1
  <2> QED BY <2>1 DEF TermsUpTo
<1>4. CASE logs'[k] = logs[k]
  BY <1>1, <1>3, <1>4
<1>5. ASSUME NEW m \in Node \ {k}, FollowerAppends(k, m)
      PROVE  TermsSorted(logs'[k]) /\ TermsUpTo(logs'[k], term'[k])
  <2> DEFINE rpc == NextRpc(k, m)
             cut == rpc.prevLogIndex + 1
  <2>1. /\ rpc \in InFlight(m, k) /\ rpc \in NodeRpc
        /\ rpc.type = "APPEND_ENTRIES" /\ ~Throws(rpc)
        /\ ConsistentEntry(logs[k], rpc)
        /\ cut \in 0 .. Len(logs[k])
        /\ rpc.entries \in Seq(Entry)
        /\ logs'[k] = SubSeq(logs[k], 1, cut) \o rpc.entries
    BY <1>5, FollowerAppendsLog
  <2>2. term' = [term EXCEPT ![k] = TermAfter(k, rpc)] /\ rpc.term >= term[k]
    BY <1>5 DEF FollowerAppends
  <2> HIDE DEF rpc
  <2>3. rpc.term \in Nat /\ rpc.prevLogIndex \in Int
    BY <2>1, NodeRpcFields
  <2>4. term'[k] = rpc.term
    <3>1. term'[k] = TermAfter(k, rpc)
      BY <2>2 DEF TypeOK
    <3> QED BY <1>2, <2>2, <2>3, <3>1 DEF TermAfter
  <2>5. UpdateInOrder(rpc)
    BY <2>1 DEF UpdatesInOrder
  <2>6. ASSUME cut > 0, NEW i \in DOMAIN rpc.entries
        PROVE  logs[k][cut].term <= rpc.entries[i].term
    <3>1. rpc.prevLogIndex # -1
      BY <2>3, <2>6
    <3>2. logs[k][cut].term = rpc.prevLogTerm
      BY <2>1, <3>1 DEF ConsistentEntry
    <3> QED BY <2>5, <3>1, <3>2 DEF UpdateInOrder
  <2> HIDE DEF cut
  <2>7. TermsSorted(SubSeq(logs[k], 1, cut) \o rpc.entries)
    BY <1>1, <2>1, <2>5, <2>6, SortedCutAndContinue DEF UpdateInOrder
  <2>8. TermsUpTo(SubSeq(logs[k], 1, cut) \o rpc.entries, term'[k])
    BY <1>1, <1>3, <2>1, <2>4, <2>5, BoundedCutAndContinue DEF UpdateInOrder
  <2> QED BY <2>1, <2>7, <2>8
<1>6. ASSUME NEW c \in Client, NEW cmd \in Cmd, LeaderAppendsCommand(k, c, cmd)
      PROVE  TermsSorted(logs'[k]) /\ TermsUpTo(logs'[k], term'[k])
  <2> DEFINE e == MakeEntry(Len(logs[k]), term[k], cmd, c)
             log == logs[k]
             new == Append(log, e)
  <2>1. logs'[k] = new
    BY <1>6 DEF LeaderAppendsCommand, TypeOK
  <2>2. e.term = term[k]
    BY DEF MakeEntry
  <2>3. term'[k] = term[k]
    BY <1>6 DEF LeaderAppendsCommand, voteVars
  <2>4. log \in Seq(Entry) /\ TermsSorted(log) /\ TermsUpTo(log, term[k])
    BY <1>1
  <2> HIDE DEF e, log
  <2>5. /\ DOMAIN new = 1 .. Len(log) + 1
        /\ \A i \in DOMAIN log : new[i] = log[i]
        /\ new[Len(log) + 1] = e
        /\ DOMAIN log = 1 .. Len(log)
        /\ Len(log) \in Nat
    BY <2>4
  <2> HIDE DEF new
  <2>6. ASSUME NEW i \in DOMAIN new PROVE new[i].term <= term[k]
    <3>1. i \in DOMAIN log \/ i = Len(log) + 1
      BY <2>5
    <3> QED BY <1>2, <2>2, <2>4, <2>5, <3>1 DEF TermsUpTo
  <2>7. ASSUME NEW i \in DOMAIN new, NEW j \in DOMAIN new, i <= j
        PROVE  new[i].term <= new[j].term
    <3>1. CASE j = Len(log) + 1
      BY <2>2, <2>5, <2>6, <3>1
    <3>2. CASE j # Len(log) + 1
      <4>1. i \in DOMAIN log /\ j \in DOMAIN log
        BY <2>5, <2>7, <3>2
      <4> QED BY <2>4, <2>5, <2>7, <4>1 DEF TermsSorted
    <3> QED BY <3>1, <3>2
  <2> QED BY <2>1, <2>3, <2>6, <2>7 DEF TermsSorted, TermsUpTo
<1> QED BY <1>4, <1>5, <1>6, LogStep

(* A step keeps the updates under way in order. *)
LEMMA UpdatesInOrderStep ==
  ASSUME TypeOK, LogsInOrder, UpdatesInOrder, [Next]_vars,
         NEW a \in Node, NEW b \in Node, NEW x \in InFlight(a, b)',
         x.type = "APPEND_ENTRIES", ~Throws(x)
  PROVE  UpdateInOrder(x)
<1>1. x \in InFlight(a, b) \/ Sends(a, b, x)
  BY StepSends
<1>2. CASE x \in InFlight(a, b)
  BY <1>2 DEF UpdatesInOrder
<1>3. CASE Sends(a, b, x)
  <2>1. PICK next \in Int : x = Update(a, logs[a], next, commitIndex[a])
    BY <1>3 DEF Sends, RequestVoteResponse
  <2>2. TermsSorted(logs[a]) /\ TermsUpTo(logs[a], term[a])
    BY DEF LogsInOrder
  <2> QED BY <2>1, <2>2, UpdateIsInOrder
<1> QED BY <1>1, <1>2, <1>3

(* LogTermsInOrder: the last entry of a log has its largest term, by which *)
(* votes are granted (followerCycle.cc:81-83), and no entry is newer than  *)
(* the term of its owner.                                                  *)
THEOREM LogTermsAreInOrder == Spec => []LogTermsInOrder
<1> DEFINE IInv == LogsInOrder /\ UpdatesInOrder
<1>1. Init => IInv
  BY DEF Init, MailboxInit, LogsInOrder, UpdatesInOrder, InFlight, UnderWay,
         TermsSorted, TermsUpTo
<1>2. TypeOK /\ IInv /\ [Next]_vars => IInv'
  <2> SUFFICES ASSUME TypeOK, LogsInOrder, UpdatesInOrder, [Next]_vars
               PROVE  LogsInOrder' /\ UpdatesInOrder'
    OBVIOUS
  <2>1. LogsInOrder'
    BY LogsInOrderStep DEF LogsInOrder, TermsSorted, TermsUpTo
  <2>2. UpdatesInOrder'
    BY UpdatesInOrderStep DEF UpdatesInOrder, Throws, UpdateInOrder, TermsSorted,
                              TermsUpTo
  <2> QED BY <2>1, <2>2
<1>3. TypeOK /\ IInv => LogTermsInOrder
  BY LogsInOrderEnough
<1> QED BY <1>1, <1>2, <1>3, TypeCorrect, PTL DEF Spec
==============================================================================
