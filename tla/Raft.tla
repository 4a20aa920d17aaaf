-------------------------------- MODULE Raft --------------------------------
(***************************************************************************)
(* The servers of the system: Node::Node (src/runners/node.{hh,cc}) and    *)
(* its three cycles (src/runners/node/cycle/).                             *)
(*                                                                         *)
(* Grain of atomicity.  A node is a single thread that blocks only in      *)
(* get_rpc_timeout.  One action is everything it does from the moment that *)
(* call returns until it blocks in the next one: the handler, and, if the  *)
(* handler (or the timeout) leaves the cycle, post_cycle, the change of    *)
(* state, and pre_cycle of the next cycle.  Nobody sees a node but through *)
(* the messages it sends, and those may be delayed at will in chan.        *)
(* Node::start also polls for a message before the next cycle and          *)
(* reinjects what it gets; since that message is the next one processed    *)
(* anyway, the poll is the same as choosing it later.                      *)
(*                                                                         *)
(* The environment (clients, controller) is open here: a command, a CRASH  *)
(* or a RECOVERY may arrive whenever the node receives.                    *)
(*                                                                         *)
(* The build is the Makefile's default, RELEASE: NDEBUG removes asserts.   *)
(*                                                                         *)
(* A definition marked "Slip:" is not part of the specification.  It is    *)
(* the next definition with one plausible mistake, kept to see that the    *)
(* properties notice the mistake.                                          *)
(***************************************************************************)
EXTENDS Mailbox, FiniteSets

CONSTANTS MaxTerm,        \* bound: a candidate stops raising its term there
          Standing,       \* bound: the nodes that may stand for election in a term
          MaxLog,         \* bound: n takes no command when its log has MaxLog[n] entries
          MaxSaved,       \* bound: no entry is saved beyond this many in a file
          MaxInFlight,    \* bound: no heartbeat when this much is under way
          CrashTargets    \* the nodes the operator crashes and recovers

ASSUME NodeAssumption == IsFiniteSet(Node) /\ Node # {} /\ Nil \notin Node
ASSUME ClientAssumption == Node \cap Client = {}
ASSUME BoundAssumption ==
  /\ MaxTerm \in Nat /\ MaxSaved \in Nat /\ MaxInFlight \in Nat
  /\ MaxLog \in [Node -> Nat]
  /\ Standing \in [1 .. MaxTerm -> SUBSET Node]
ASSUME CrashAssumption == CrashTargets \subseteq Node

VARIABLES
  state,          \* STATE::FOLLOWER, LEADER or CANDIDATE
  term,
  votedFor,
  leaderId,
  logs,           \* the entry of index i is logs[n][i + 1]
  matchIndex,
  nextIndex,
  commitIndex,
  crash,
  voteCount,      \* of the CandidateCycle object, 0 outside it
  hasVotedForMe,  \* of the CandidateCycle object; a leader's is kept as history
  file,           \* node_<rank>.log: the entries save_commit appended
  aborted         \* a process died of undefined behaviour or an uncaught
                  \* exception, and mpirun killed the others

voteVars == <<state, term, votedFor, voteCount, hasVotedForMe>>
indexVars == <<matchIndex, nextIndex>>
commitVars == <<commitIndex, file>>
vars == <<mailboxVars, voteVars, indexVars, commitVars, leaderId, logs, crash,
          aborted>>

nb_node == Cardinality(Node)

LastIndex(log) == Len(log) - 1

LastTerm(log) == IF log = <<>> THEN -1 ELSE log[Len(log)].term

Init ==
  /\ MailboxInit
  /\ state = [n \in Node |-> "FOLLOWER"]
  /\ term = [n \in Node |-> 0]
  /\ votedFor = [n \in Node |-> Nil]
  /\ leaderId = [n \in Node |-> Nil]
  /\ logs = [n \in Node |-> <<>>]
  /\ matchIndex = [n \in Node |-> [d \in Node |-> -1]]
  /\ nextIndex = [n \in Node |-> [d \in Node |-> 0]]
  /\ commitIndex = [n \in Node |-> -1]
  /\ crash = [n \in Node |-> FALSE]
  /\ voteCount = [n \in Node |-> 0]
  /\ hasVotedForMe = [n \in Node |-> {}]
  /\ file = [n \in Node |-> <<>>]
  /\ aborted = FALSE

-----------------------------------------------------------------------------
(* What several handlers share.                                            *)

(* The process dies in the middle of the step; what it had done until then *)
(* can no longer be observed.                                              *)
Abort ==
  /\ aborted' = TRUE
  /\ UNCHANGED <<mailboxVars, voteVars, indexVars, commitVars, leaderId, logs,
                 crash>>

Running(n) == ~aborted /\ ~crash[n]

(* n, in the given cycle, takes a message of that type sent by m. *)
Receives(n, m, cycle, types) ==
  /\ Running(n)
  /\ state[n] = cycle
  /\ CanReceive(n, m)
  /\ NextRpc(n, m).type \in types

(* Slip: the newer term is not adopted. *)
TermKept(n, rpc) == term[n]

(* The follower's half of check_always_should_stop. *)
TermAfter(n, rpc) == IF rpc.term > term[n] THEN rpc.term ELSE term[n]

(* Slip: the vote is reset by a message of the same term. *)
VoteForgotten(n, rpc) == IF rpc.term >= term[n] THEN Nil ELSE votedFor[n]

(* Slip: the vote is reset to rank 0 instead of to nullopt. *)
VoteZero(n, rpc) == IF rpc.term > term[n] THEN 0 ELSE votedFor[n]

VoteAfter(n, rpc) == IF rpc.term > term[n] THEN Nil ELSE votedFor[n]

(* The messages of send_update_to_follower to every node, given nextIndex. *)
Update(n, log, next, commit) ==
  LET prev == next - 1
  IN  AppendEntries(term[n],
        IF prev \in 0 .. LastIndex(log) THEN log[prev + 1].term ELSE 0,
        prev, commit,
        SubSeq(log, IF next < 0 THEN 1 ELSE next + 1, Len(log)))

(* A negative nextIndex makes send_update_to_follower read logs[-1]: the   *)
(* read faults, or a bogus entry goes out in front of the real ones (its   *)
(* content is left out, since every receiver throws before looking at it). *)
ReadsBeforeLog(next) == next < 0

(* initLeader. *)
FreshMatch == [d \in Node |-> -1]

FreshNext(log) == [d \in Node |-> Len(log)]

(* The dereference of an empty nextState in CandidateCycle::post_cycle     *)
(* reads whatever the stack holds; when that is LEADER, initLeader runs.   *)
EmptyNextStateRead(n) ==
  \/ UNCHANGED indexVars
  \/ /\ matchIndex' = [matchIndex EXCEPT ![n] = FreshMatch]
     /\ nextIndex' = [nextIndex EXCEPT ![n] = FreshNext(logs[n])]

(* A new CandidateCycle and its pre_cycle. *)
StartCandidate(n, net) ==
  /\ term[n] < MaxTerm /\ n \in Standing[term[n] + 1]
  /\ state' = [state EXCEPT ![n] = "CANDIDATE"]
  /\ term' = [term EXCEPT ![n] = @ + 1]
  /\ votedFor' = [votedFor EXCEPT ![n] = n]
  /\ voteCount' = [voteCount EXCEPT ![n] = 1]
  /\ hasVotedForMe' = [hasVotedForMe EXCEPT ![n] = {}]
  /\ chan' = Broadcast(net, n, [d \in Node |->
               RequestVote(term[n] + 1, LastIndex(logs[n]), LastTerm(logs[n]))])

(* Slip: the new leader does not name itself. *)
LeaderUnnamed(n, net, next) ==
  /\ UNCHANGED leaderId
  /\ chan' = Broadcast(net, n, [d \in Node |->
               Update(n, logs[n], next[d], commitIndex[n])])

(* LeaderCycle::pre_cycle: an update to every other node. *)
LeaderPreCycle(n, net, next) ==
  /\ leaderId' = [leaderId EXCEPT ![n] = n]
  /\ chan' = Broadcast(net, n, [d \in Node |->
               Update(n, logs[n], next[d], commitIndex[n])])

(* The bound on heartbeats: what is under way between the leader and each *)
(* of the other nodes, in both directions.                                 *)
HasRoom(n) ==
  \A d \in Node \ {n} : Len(chan[n][d]) + Len(chan[d][n]) < MaxInFlight

(* A candidate or a leader becomes follower and handles the message again. *)
BecomeFollower(n, m) ==
  /\ state' = [state EXCEPT ![n] = "FOLLOWER"]
  /\ voteCount' = [voteCount EXCEPT ![n] = 0]
  /\ hasVotedForMe' = [hasVotedForMe EXCEPT ![n] = {}]
  /\ chan' = ChanAfter(n, m)
  /\ reinjected' = Reinject(n, m)
  /\ UNCHANGED <<leaderId, logs, indexVars, commitVars, crash, aborted>>

(* save_commit of the entries of index lo + 1 .. hi.  An index beyond the  *)
(* log reads a slot of the vector that holds no live entry: the read       *)
(* faults, or finds the remains of an entry that used to be there.         *)
ReadsBeyondLog(log, lo, hi) == lo < hi /\ Len(log) <= hi

Remains(log, lo, hi, maxTerm) ==
  IF ReadsBeyondLog(log, lo, hi)
  THEN [term : 1 .. maxTerm, cmd : Cmd, clientId : Client]
  ELSE {Nil}

Committed(log, lo, hi, remains) ==
  [k \in 1 .. (hi - lo) |->
     IF lo + k < Len(log)
     THEN log[lo + k + 1]
     ELSE MakeEntry(lo + k, remains.term, remains.cmd, remains.clientId)]

Save(n, entries) ==
  /\ entries = <<>> \/ Len(file[n]) + Len(entries) <= MaxSaved
  /\ file' = [file EXCEPT ![n] = @ \o entries]

-----------------------------------------------------------------------------
(* FollowerCycle                                                           *)

(* The timer expires and the follower stands for election. *)
FollowerTimeout(n) ==
  /\ Running(n) /\ CanTimeOut(n)
  /\ state[n] = "FOLLOWER"
  /\ StartCandidate(n, chan)
  /\ UNCHANGED <<reinjected, leaderId, logs, indexVars, commitVars, crash,
                 aborted>>

UpToDate(log, rpc) ==
  \/ log = <<>>
  \/ LastTerm(log) < rpc.lastLogTerm
  \/ LastTerm(log) = rpc.lastLogTerm /\ LastIndex(log) <= rpc.lastLogIndex

(* Slip: a vote already given is not looked at. *)
GrantsAnyone(n, m, rpc) == rpc.term >= term[n] /\ UpToDate(logs[n], rpc)

(* Slip: the candidate's log is not compared. *)
GrantsAnyLog(n, m, rpc) == rpc.term >= term[n] /\ VoteAfter(n, rpc) \in {Nil, m}

GrantsVote(n, m, rpc) ==
  /\ rpc.term >= term[n]
  /\ \/ VoteAfter(n, rpc) = m
     \/ VoteAfter(n, rpc) = Nil /\ UpToDate(logs[n], rpc)

FollowerRequestVote(n, m) ==
  /\ Receives(n, m, "FOLLOWER", {"REQUEST_VOTE"})
  /\ LET rpc == NextRpc(n, m)
         granted == GrantsVote(n, m, rpc)
     IN  /\ term' = [term EXCEPT ![n] = TermAfter(n, rpc)]
         /\ votedFor' = [votedFor EXCEPT ![n] =
                           IF granted THEN m ELSE VoteAfter(n, rpc)]
         /\ chan' = Send(ChanAfter(n, m), n, m,
                         RequestVoteResponse(TermAfter(n, rpc), granted))
  /\ reinjected' = ReinjectedAfter(n)
  /\ UNCHANGED <<state, voteCount, hasVotedForMe, leaderId, logs, indexVars,
                 commitVars, crash, aborted>>

(* logs.at throws when prevLogIndex is below -1. *)
Throws(rpc) == rpc.prevLogIndex < -1

(* Slip: the term of the previous entry is not compared. *)
HasEntry(log, rpc) == rpc.prevLogIndex < Len(log)

ConsistentEntry(log, rpc) ==
  \/ rpc.prevLogIndex = -1
  \/ /\ rpc.prevLogIndex \in 0 .. LastIndex(log)
     /\ log[rpc.prevLogIndex + 1].term = rpc.prevLogTerm

(* Slip: resize(prevLogIndex). *)
LogCutShort(log, rpc) == SubSeq(log, 1, rpc.prevLogIndex) \o rpc.entries

(* append_entries: resize, then append. *)
LogAfter(log, rpc) == SubSeq(log, 1, rpc.prevLogIndex + 1) \o rpc.entries

(* AppendEntries of an older term. *)
FollowerRejectsStaleLeader(n, m) ==
  /\ Receives(n, m, "FOLLOWER", {"APPEND_ENTRIES"})
  /\ NextRpc(n, m).term < term[n]
  /\ chan' = Send(ChanAfter(n, m), n, m,
                  AppendEntriesResponse(term[n], FALSE, Len(logs[n])))
  /\ reinjected' = ReinjectedAfter(n)
  /\ UNCHANGED <<voteVars, leaderId, logs, indexVars, commitVars, crash, aborted>>

(* AppendEntries whose previous entry the follower does not have. *)
FollowerRejectsGap(n, m) ==
  /\ Receives(n, m, "FOLLOWER", {"APPEND_ENTRIES"})
  /\ LET rpc == NextRpc(n, m)
     IN  /\ rpc.term >= term[n] /\ ~Throws(rpc)
         /\ ~ConsistentEntry(logs[n], rpc)
         /\ term' = [term EXCEPT ![n] = TermAfter(n, rpc)]
         /\ votedFor' = [votedFor EXCEPT ![n] = VoteAfter(n, rpc)]
         /\ leaderId' = [leaderId EXCEPT ![n] = m]
         /\ chan' = Send(ChanAfter(n, m), n, m,
                         AppendEntriesResponse(TermAfter(n, rpc), FALSE, Len(logs[n])))
  /\ reinjected' = ReinjectedAfter(n)
  /\ UNCHANGED <<state, voteCount, hasVotedForMe, logs, indexVars, commitVars,
                 crash, aborted>>

(* AppendEntries that is followed: the log is cut and extended, what the   *)
(* leader has committed is saved, and only a non-empty request is answered.*)
FollowerAppends(n, m) ==
  /\ Receives(n, m, "FOLLOWER", {"APPEND_ENTRIES"})
  /\ LET rpc == NextRpc(n, m)
         log == LogAfter(logs[n], rpc)
     IN  /\ rpc.term >= term[n] /\ ~Throws(rpc)
         /\ ConsistentEntry(logs[n], rpc)
         /\ term' = [term EXCEPT ![n] = TermAfter(n, rpc)]
         /\ votedFor' = [votedFor EXCEPT ![n] = VoteAfter(n, rpc)]
         /\ leaderId' = [leaderId EXCEPT ![n] = m]
         /\ logs' = [logs EXCEPT ![n] = log]
         /\ \E r \in Remains(log, commitIndex[n], rpc.leaderCommit, rpc.term) :
              Save(n, Committed(log, commitIndex[n], rpc.leaderCommit, r))
         /\ commitIndex' = [commitIndex EXCEPT ![n] = rpc.leaderCommit]
         /\ chan' = IF rpc.entries = <<>> THEN ChanAfter(n, m)
                    ELSE Send(ChanAfter(n, m), n, m,
                              AppendEntriesResponse(TermAfter(n, rpc), TRUE, Len(log)))
  /\ reinjected' = ReinjectedAfter(n)
  /\ UNCHANGED <<state, voteCount, hasVotedForMe, indexVars, crash, aborted>>

(* The follower throws, or faults while it saves an entry it has not got. *)
FollowerAborts(n, m) ==
  /\ Receives(n, m, "FOLLOWER", {"APPEND_ENTRIES"})
  /\ LET rpc == NextRpc(n, m)
     IN  /\ rpc.term >= term[n]
         /\ \/ Throws(rpc)
            \/ /\ ~Throws(rpc)
               /\ ConsistentEntry(logs[n], rpc)
               /\ ReadsBeyondLog(LogAfter(logs[n], rpc), commitIndex[n],
                                 rpc.leaderCommit)
  /\ Abort

(* A response reaches a follower: only its term counts. *)
FollowerIgnores(n, m) ==
  /\ Receives(n, m, "FOLLOWER",
              {"REQUEST_VOTE_RESPONSE", "APPEND_ENTRIES_RESPONSE"})
  /\ term' = [term EXCEPT ![n] = TermAfter(n, NextRpc(n, m))]
  /\ votedFor' = [votedFor EXCEPT ![n] = VoteAfter(n, NextRpc(n, m))]
  /\ chan' = ChanAfter(n, m)
  /\ reinjected' = ReinjectedAfter(n)
  /\ UNCHANGED <<state, voteCount, hasVotedForMe, leaderId, logs, indexVars,
                 commitVars, crash, aborted>>

-----------------------------------------------------------------------------
(* CandidateCycle                                                          *)

NodeRpcTypes == {"REQUEST_VOTE", "REQUEST_VOTE_RESPONSE", "APPEND_ENTRIES",
                 "APPEND_ENTRIES_RESPONSE"}

CandidateTimeout(n) ==
  /\ Running(n) /\ CanTimeOut(n)
  /\ state[n] = "CANDIDATE"
  /\ EmptyNextStateRead(n)
  /\ StartCandidate(n, chan)
  /\ UNCHANGED <<reinjected, leaderId, logs, commitVars, crash, aborted>>

(* check_always_should_stop in a candidate or a leader. *)
StepDown(n, m) ==
  /\ \/ Receives(n, m, "CANDIDATE", NodeRpcTypes)
     \/ Receives(n, m, "LEADER", NodeRpcTypes)
  /\ NextRpc(n, m).term > term[n]
  /\ term' = [term EXCEPT ![n] = NextRpc(n, m).term]
  /\ votedFor' = [votedFor EXCEPT ![n] = Nil]
  /\ BecomeFollower(n, m)

(* Slip: hasVotedForMe is not looked at. *)
CountsVoteAgain(n, m) ==
  /\ NextRpc(n, m).type = "REQUEST_VOTE_RESPONSE"
  /\ NextRpc(n, m).term <= term[n]
  /\ NextRpc(n, m).voteGranted

(* Slip: voteGranted is not looked at. *)
CountsRefusal(n, m) ==
  /\ NextRpc(n, m).type = "REQUEST_VOTE_RESPONSE"
  /\ NextRpc(n, m).term <= term[n]
  /\ m \notin hasVotedForMe[n]

(* A vote response counts when it grants a vote this cycle has not counted.*)
CountsVote(n, m) ==
  /\ NextRpc(n, m).type = "REQUEST_VOTE_RESPONSE"
  /\ NextRpc(n, m).term <= term[n]
  /\ NextRpc(n, m).voteGranted
  /\ m \notin hasVotedForMe[n]

IsMajority(k) == k > nb_node \div 2

CandidateCountsVote(n, m) ==
  /\ ~IsMajority(voteCount[n] + 1)
  /\ voteCount' = [voteCount EXCEPT ![n] = @ + 1]
  /\ chan' = ChanAfter(n, m)
  /\ UNCHANGED <<state, leaderId, indexVars>>

(* The vote that makes a majority: initLeader, then the first updates. *)
CandidateIsElected(n, m) ==
  /\ IsMajority(voteCount[n] + 1)
  /\ voteCount' = [voteCount EXCEPT ![n] = 0]
  /\ state' = [state EXCEPT ![n] = "LEADER"]
  /\ matchIndex' = [matchIndex EXCEPT ![n] = FreshMatch]
  /\ nextIndex' = [nextIndex EXCEPT ![n] = FreshNext(logs[n])]
  /\ LeaderPreCycle(n, ChanAfter(n, m), FreshNext(logs[n]))

CandidateTakesVote(n, m) ==
  /\ Receives(n, m, "CANDIDATE", {"REQUEST_VOTE_RESPONSE"})
  /\ CountsVote(n, m)
  /\ hasVotedForMe' = [hasVotedForMe EXCEPT ![n] = @ \cup {m}]
  /\ reinjected' = ReinjectedAfter(n)
  /\ CandidateCountsVote(n, m) \/ CandidateIsElected(n, m)
  /\ UNCHANGED <<term, votedFor, logs, commitVars, crash, aborted>>

(* AppendEntries of the candidate's own term: somebody else was elected. *)
CandidateMeetsLeader(n, m) ==
  /\ Receives(n, m, "CANDIDATE", {"APPEND_ENTRIES"})
  /\ NextRpc(n, m).term = term[n]
  /\ BecomeFollower(n, m)
  /\ UNCHANGED <<term, votedFor>>

CandidateIgnores(n, m) ==
  /\ Receives(n, m, "CANDIDATE", NodeRpcTypes)
  /\ NextRpc(n, m).term <= term[n]
  /\ ~CountsVote(n, m)
  /\ NextRpc(n, m).type = "APPEND_ENTRIES" => NextRpc(n, m).term < term[n]
  /\ chan' = ChanAfter(n, m)
  /\ reinjected' = ReinjectedAfter(n)
  /\ UNCHANGED <<voteVars, leaderId, logs, indexVars, commitVars, crash, aborted>>

-----------------------------------------------------------------------------
(* LeaderCycle                                                             *)

(* The timer expires and the next LeaderCycle begins: a heartbeat. *)
LeaderTimeout(n) ==
  /\ Running(n) /\ CanTimeOut(n)
  /\ state[n] = "LEADER"
  /\ HasRoom(n)
  /\ \/ /\ LeaderPreCycle(n, chan, nextIndex[n])
        /\ UNCHANGED <<reinjected, voteVars, logs, indexVars, commitVars, crash,
                       aborted>>
     \/ /\ \E d \in Node \ {n} : ReadsBeforeLog(nextIndex[n][d])
        /\ Abort

(* Slip: a follower counts only when it holds the next entry too. *)
ReplicatedBeyond(n, match, index) ==
  IsMajority(Cardinality({n} \cup {d \in Node \ {n} : match[d] > index}))

(* The count of update_commitIndex for one index. *)
Replicated(n, match, index) ==
  IsMajority(Cardinality({n} \cup {d \in Node \ {n} : match[d] >= index}))

(* The index at which while (update_commitIndex()) stops. *)
CommitLoopEnd(n, match, end) ==
  /\ end >= commitIndex[n]
  /\ end > commitIndex[n] => Replicated(n, match, end)
  /\ ~Replicated(n, match, end + 1)

(* respond_client for every entry committed. *)
Answer(net, n, entries) ==
  [net EXCEPT ![n] = [d \in Node \cup Client |->
     IF d \in Client
     THEN net[n][d] \o [k \in 1 .. Cardinality({i \in DOMAIN entries :
                                                  entries[i].clientId = d})
                          |-> RequestClientResponse(TRUE)]
     ELSE net[n][d]]]

CommitLoopEnds(n, match) ==
  {end \in {commitIndex[n]} \cup {match[d] : d \in Node \ {n}} :
     CommitLoopEnd(n, match, end)}

(* The commit loop that ends every handle_node_request of a leader. *)
CommitLoop(n, match, net) ==
  \E end \in CommitLoopEnds(n, match) :
    /\ \E r \in Remains(logs[n], commitIndex[n], end, term[n]) :
         LET entries == Committed(logs[n], commitIndex[n], end, r)
         IN  /\ Save(n, entries)
             /\ chan' = Answer(net, n, entries)
    /\ commitIndex' = [commitIndex EXCEPT ![n] = end]

LeaderAppendSucceeded(n, m) ==
  /\ Receives(n, m, "LEADER", {"APPEND_ENTRIES_RESPONSE"})
  /\ NextRpc(n, m).term <= term[n]
  /\ NextRpc(n, m).success
  /\ LET newIndex == NextRpc(n, m).newIndex
         match == [matchIndex[n] EXCEPT ![m] = newIndex - 1]
     IN  /\ nextIndex' = [nextIndex EXCEPT ![n][m] = newIndex]
         /\ matchIndex' = [matchIndex EXCEPT ![n] = match]
         /\ CommitLoop(n, match, ChanAfter(n, m))
  /\ reinjected' = ReinjectedAfter(n)
  /\ UNCHANGED <<voteVars, leaderId, logs, crash, aborted>>

(* A refusal moves nextIndex back by one, whatever it is, and sends again. *)
LeaderAppendFailed(n, m) ==
  /\ Receives(n, m, "LEADER", {"APPEND_ENTRIES_RESPONSE"})
  /\ NextRpc(n, m).term <= term[n]
  /\ ~NextRpc(n, m).success
  /\ LET next == nextIndex[n][m] - 1
     IN  /\ nextIndex' = [nextIndex EXCEPT ![n][m] = next]
         /\ CommitLoop(n, matchIndex[n],
              Send(ChanAfter(n, m), n, m,
                   Update(n, logs[n], next, commitIndex[n])))
  /\ reinjected' = ReinjectedAfter(n)
  /\ UNCHANGED <<voteVars, leaderId, logs, matchIndex, crash, aborted>>

(* The leader faults reading before or beyond its log. *)
LeaderAborts(n, m) ==
  /\ Receives(n, m, "LEADER", {"APPEND_ENTRIES_RESPONSE"})
  /\ NextRpc(n, m).term <= term[n]
  /\ \/ /\ ~NextRpc(n, m).success
        /\ ReadsBeforeLog(nextIndex[n][m] - 1)
     \/ /\ NextRpc(n, m).success
        /\ \E end \in CommitLoopEnds(n,
                          [matchIndex[n] EXCEPT ![m] = NextRpc(n, m).newIndex - 1]) :
             ReadsBeyondLog(logs[n], commitIndex[n], end)
  /\ Abort

LeaderIgnores(n, m) ==
  /\ Receives(n, m, "LEADER",
              {"REQUEST_VOTE", "REQUEST_VOTE_RESPONSE", "APPEND_ENTRIES"})
  /\ NextRpc(n, m).term <= term[n]
  /\ CommitLoop(n, matchIndex[n], ChanAfter(n, m))
  /\ reinjected' = ReinjectedAfter(n)
  /\ UNCHANGED <<voteVars, leaderId, logs, indexVars, crash, aborted>>

(* REQUEST_CLIENT.  A follower or a candidate drops it, which is a stutter.*)
LeaderAppendsCommand(n, c, cmd) ==
  /\ Running(n) /\ reinjected[n] = <<>>
  /\ state[n] = "LEADER"
  /\ Len(logs[n]) < MaxLog[n]
  /\ logs' = [logs EXCEPT ![n] =
                Append(@, MakeEntry(Len(@), term[n], cmd, c))]
  /\ UNCHANGED <<mailboxVars, voteVars, leaderId, indexVars, commitVars, crash,
                 aborted>>

-----------------------------------------------------------------------------
(* Controller requests that change the state (Cycle::handle_controller_    *)
(* request, crash_loop).  A crashed node keeps its memory and loses every  *)
(* message that reaches it.                                                *)

Crash(n) ==
  /\ Running(n) /\ reinjected[n] = <<>>
  /\ crash' = [crash EXCEPT ![n] = TRUE]
  /\ UNCHANGED <<mailboxVars, voteVars, leaderId, logs, indexVars, commitVars,
                 aborted>>

CrashLoopDrops(n, m) ==
  /\ ~aborted /\ crash[n]
  /\ CanReceive(n, m)
  /\ chan' = ChanAfter(n, m)
  /\ reinjected' = ReinjectedAfter(n)
  /\ UNCHANGED <<voteVars, leaderId, logs, indexVars, commitVars, crash, aborted>>

(* RECOVERY ends crash_loop, and the handler leaves the cycle without a    *)
(* next state: a follower goes on, a candidate stands again in a new term, *)
(* a leader sends its updates.                                             *)
Recover(n) ==
  /\ ~aborted /\ crash[n]
  /\ CanTimeOut(n)
  /\ crash' = [crash EXCEPT ![n] = FALSE]
  /\ \/ /\ state[n] = "FOLLOWER"
        /\ UNCHANGED <<chan, voteVars, leaderId, indexVars>>
     \/ /\ state[n] = "CANDIDATE"
        /\ EmptyNextStateRead(n)
        /\ StartCandidate(n, chan)
        /\ UNCHANGED leaderId
     \/ /\ state[n] = "LEADER" /\ HasRoom(n)
        /\ LeaderPreCycle(n, chan, nextIndex[n])
        /\ UNCHANGED <<voteVars, indexVars>>
  /\ UNCHANGED <<reinjected, logs, commitVars, aborted>>

(* A leader whose nextIndex went negative faults in its first update. *)
RecoverAborts(n) ==
  /\ ~aborted /\ crash[n] /\ CanTimeOut(n)
  /\ state[n] = "LEADER"
  /\ \E d \in Node \ {n} : ReadsBeforeLog(nextIndex[n][d])
  /\ Abort

-----------------------------------------------------------------------------
HandleNodeRequest(n, m) ==
  \/ FollowerRequestVote(n, m)
  \/ FollowerRejectsStaleLeader(n, m)
  \/ FollowerRejectsGap(n, m)
  \/ FollowerAppends(n, m)
  \/ FollowerAborts(n, m)
  \/ FollowerIgnores(n, m)
  \/ StepDown(n, m)
  \/ CandidateTakesVote(n, m)
  \/ CandidateMeetsLeader(n, m)
  \/ CandidateIgnores(n, m)
  \/ LeaderAppendSucceeded(n, m)
  \/ LeaderAppendFailed(n, m)
  \/ LeaderAborts(n, m)
  \/ LeaderIgnores(n, m)
  \/ CrashLoopDrops(n, m)

Next ==
  \/ \E n \in Node : FollowerTimeout(n) \/ CandidateTimeout(n) \/ LeaderTimeout(n)
  \/ \E n \in Node : \E m \in Node \ {n} : HandleNodeRequest(n, m)
  \/ \E n \in Node, c \in Client, cmd \in Cmd : LeaderAppendsCommand(n, c, cmd)
  \/ \E n \in CrashTargets : Crash(n) \/ Recover(n) \/ RecoverAborts(n)

Spec == Init /\ [][Next]_vars
==============================================================================
