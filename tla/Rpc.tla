--------------------------------- MODULE Rpc ---------------------------------
(***************************************************************************)
(* The messages of the system (src/rpc/*.hh) and the log entries they      *)
(* carry (src/runners/node/entry.hh).  A message is the record its JSON    *)
(* form spells out, field by field; candidateId (RequestVote) and leaderId *)
(* (AppendEntries) are left out because no handler reads them: the         *)
(* receiver identifies the sender by the MPI source rank.                  *)
(***************************************************************************)
EXTENDS Integers, Sequences

CONSTANTS Node,     \* the ranks nb_node_min .. nb_node_max
          Client,   \* the ranks nb_client_min .. nb_client_max
          Cmd,      \* the commands a client may submit
          Nil       \* std::nullopt

(* A position in a log, or -1 for none. *)
Index == Nat \cup {-1}

(* Entry: index is the 0-based position the leader gave it. *)
Entry == [index : Nat, term : Nat, cmd : Cmd, clientId : Client]

MakeEntry(index, term, cmd, clientId) ==
  [index |-> index, term |-> term, cmd |-> cmd, clientId |-> clientId]

RequestVote(term, lastLogIndex, lastLogTerm) ==
  [type |-> "REQUEST_VOTE", term |-> term,
   lastLogIndex |-> lastLogIndex, lastLogTerm |-> lastLogTerm]

RequestVoteResponse(term, voteGranted) ==
  [type |-> "REQUEST_VOTE_RESPONSE", term |-> term, voteGranted |-> voteGranted]

AppendEntries(term, prevLogTerm, prevLogIndex, leaderCommit, entries) ==
  [type |-> "APPEND_ENTRIES", term |-> term, prevLogTerm |-> prevLogTerm,
   prevLogIndex |-> prevLogIndex, leaderCommit |-> leaderCommit,
   entries |-> entries]

AppendEntriesResponse(term, success, newIndex) ==
  [type |-> "APPEND_ENTRIES_RESPONSE", term |-> term, success |-> success,
   newIndex |-> newIndex]

RequestClientResponse(success) ==
  [type |-> "REQUEST_CLIENT_RESPONSE", success |-> success]

RequestLeader == [type |-> "REQUEST_LEADER"]

RequestLeaderResponse(leaderId, success) ==
  [type |-> "REQUEST_LEADER_RESPONSE", leaderId |-> leaderId, success |-> success]

RequestClient(message) == [type |-> "REQUEST_CLIENT", message |-> message]

(* The C++ class has a second field named type: it is request here. *)
ControllerRequest(request, message) ==
  [type |-> "CONTROLLER_REQUEST", request |-> request, message |-> message]

(* What one node may send to another. *)
NodeRpc ==
  [type : {"REQUEST_VOTE"}, term : Nat, lastLogIndex : Index, lastLogTerm : Index]
    \cup [type : {"REQUEST_VOTE_RESPONSE"}, term : Nat, voteGranted : BOOLEAN]
    \cup [type : {"APPEND_ENTRIES"}, term : Nat, prevLogTerm : Nat,
          prevLogIndex : Int, leaderCommit : Index, entries : Seq(Entry)]
    \cup [type : {"APPEND_ENTRIES_RESPONSE"}, term : Nat, success : BOOLEAN,
          newIndex : Nat]

(* What a node may send to a client. *)
ClientRpc == [type : {"REQUEST_CLIENT_RESPONSE"}, success : BOOLEAN]
==============================================================================
