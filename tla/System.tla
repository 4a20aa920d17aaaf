-------------------------------- MODULE System --------------------------------
(***************************************************************************)
(* The controller, the clients and the nodes together.  The nodes are      *)
(* those of Cluster, which Raft implements; this module adds what they do  *)
(* for the other processes: Cycle::handle_controller_request, crash_loop,  *)
(* and handle_client_request of the three roles.                           *)
(*                                                                         *)
(* Of the logs only what a leader takes from clients is kept, in accepted. *)
(*                                                                         *)
(* A definition marked "Slip:" is not part of the specification.  It is    *)
(* the next definition with one plausible mistake.                         *)
(***************************************************************************)
EXTENDS Client, Controller, Cluster

CONSTANT MaxAnswers    \* bound: answers to commands under way to a client

ASSUME MaxAnswersAssumption == MaxAnswers \in Nat

VARIABLE accepted    \* the commands leaders have put into their logs, in the
                     \* order of time: [node, client, cmd]

vars == <<link, lines, clientVars, clusterVars, accepted>>

SystemInit ==
  /\ LinkInit
  /\ ControllerInit
  /\ ClientInit
  /\ ClusterInit
  /\ accepted = <<>>

-----------------------------------------------------------------------------
(* A node and the controller.  STATUS and PRINT_LOG print, SPEED changes a *)
(* delay, and in its crash loop a node obeys the controller as before.     *)
NodeTakesOrder(n) ==
  /\ Waiting(Root, n)
  /\ link' = Taken(Root, n)
  /\ \/ NextFrom(Root, n).request = "CRASH" /\ Crashes(n)
     \/ NextFrom(Root, n).request = "RECOVERY" /\ Recovers(n)
     \/ /\ ~(NextFrom(Root, n).request = "CRASH" /\ ~crash[n])
        /\ ~(NextFrom(Root, n).request = "RECOVERY" /\ crash[n])
        /\ UNCHANGED clusterVars
  /\ UNCHANGED <<lines, clientVars, accepted>>

-----------------------------------------------------------------------------
(* A node and a client.                                                    *)

(* Slip: a node that knows no leader does not say so. *)
LeaderOrZero(n) == RequestLeaderResponse(IF leaderId[n] = Nil THEN Root ELSE leaderId[n], TRUE)

(* Slip: only the leader itself says who leads. *)
LeaderSpeaksOnly(n) ==
  RequestLeaderResponse(IF leaderId[n] = Nil THEN Root ELSE leaderId[n],
                        leaderId[n] # Nil /\ state[n] = "LEADER")

(* client_request_leader_response: leaderId.value_or(0), has_value. *)
LeaderResponse(n) ==
  RequestLeaderResponse(IF leaderId[n] = Nil THEN Root ELSE leaderId[n],
                        leaderId[n] # Nil)

(* A follower or a leader says who leads, for all it knows. *)
NodeAnswersLeader(n, c) ==
  /\ Waiting(c, n)
  /\ NextFrom(c, n).type = "REQUEST_LEADER"
  /\ ~crash[n] /\ state[n] # "CANDIDATE"
  /\ link' = SendEach(Taken(c, n), n, c, <<LeaderResponse(n)>>)
  /\ UNCHANGED <<lines, clientVars, clusterVars, accepted>>

(* A leader puts a command into its log. *)
NodeTakesCommand(n, c) ==
  /\ Waiting(c, n)
  /\ NextFrom(c, n).type = "REQUEST_CLIENT"
  /\ ~crash[n] /\ state[n] = "LEADER"
  /\ accepted' = Append(accepted,
                   [node |-> n, client |-> c, cmd |-> NextFrom(c, n).message])
  /\ link' = Taken(c, n)
  /\ UNCHANGED <<lines, clientVars, clusterVars>>

(* A candidate ignores clients, a follower ignores commands, and a crashed *)
(* node ignores everybody but the controller; nobody is told.              *)
NodeDropsRequest(n, c) ==
  /\ Waiting(c, n)
  /\ \/ crash[n]
     \/ state[n] = "CANDIDATE"
     \/ state[n] = "FOLLOWER" /\ NextFrom(c, n).type = "REQUEST_CLIENT"
  /\ link' = Taken(c, n)
  /\ UNCHANGED <<lines, clientVars, clusterVars, accepted>>

(* respond_client of an entry a leader commits.  When that happens is left *)
(* open, and one entry may be answered by several leaders in turn.         *)
LeaderAnswersCommand(n, c) ==
  /\ ~crash[n] /\ state[n] = "LEADER"
  /\ \E i \in DOMAIN accepted : accepted[i].client = c
  /\ Len(SelectSeq(link[n][c],
           LAMBDA rpc : rpc.type = "REQUEST_CLIENT_RESPONSE")) < MaxAnswers
  /\ link' = SendEach(link, n, c, <<RequestClientResponse(TRUE)>>)
  /\ UNCHANGED <<lines, clientVars, clusterVars, accepted>>

NodeServes(n, c) ==
  \/ NodeAnswersLeader(n, c)
  \/ NodeTakesCommand(n, c)
  \/ NodeDropsRequest(n, c)

-----------------------------------------------------------------------------
SystemNext ==
  \/ ReadLine /\ UNCHANGED <<clientVars, clusterVars, accepted>>
  \/ \E c \in Client : ClientStep(c) /\ UNCHANGED <<lines, clusterVars, accepted>>
  \/ RoleChange /\ UNCHANGED <<link, lines, clientVars, accepted>>
  \/ \E n \in Node : NodeTakesOrder(n)
  \/ \E n \in Node, c \in Client : NodeServes(n, c) \/ LeaderAnswersCommand(n, c)

SystemSpec == SystemInit /\ [][SystemNext]_vars
==============================================================================
