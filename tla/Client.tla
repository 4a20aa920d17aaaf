-------------------------------- MODULE Client --------------------------------
(***************************************************************************)
(* The clients (src/runners/client/client.cc).  Client::start alternates   *)
(* between handle_requests, which takes any message for two seconds, and,  *)
(* if the operator has started the client, request_leader_id, which asks   *)
(* nodes picked at random who leads and listens to the node asked and to   *)
(* nobody else until one knows; then every command queued goes to that     *)
(* leader and the queue is cleared.                                        *)
(*                                                                         *)
(* One action is what a client does from one receive to the next.  A       *)
(* timeout may expire at any time, since messages may be slow.             *)
(***************************************************************************)
EXTENDS Links

CONSTANT MaxAsked    \* bound: the requests of a client to a node, and its
                     \* answers, under way together; more are left out

ASSUME MaxAskedAssumption == MaxAsked \in Nat \ {0}

VARIABLES
  run,
  request,        \* the commands queued
  knownLeader,    \* the member leaderId, which the constructor leaves unset
  asked           \* the node request_leader_id waits for, Nil in handle_requests

clientVars == <<run, request, knownLeader, asked>>

ClientInit ==
  /\ run = [c \in Client |-> FALSE]
  /\ request = [c \in Client |-> <<>>]
  /\ knownLeader = [c \in Client |-> Nil]
  /\ asked = [c \in Client |-> Nil]

-----------------------------------------------------------------------------
(* handle_requests                                                         *)

(* Slip: a new command goes to the front. *)
PushedInFront(queue, order) ==
  IF order.request = "ENTRY" THEN <<order.message>> \o queue ELSE queue

QueueAfter(queue, order) ==
  IF order.request = "ENTRY" THEN Append(queue, order.message) ELSE queue

RunAfter(running, order) ==
  CASE order.request = "CRASH" -> FALSE
    [] order.request \in {"START", "RECOVERY"} -> TRUE
    [] OTHER -> running

(* A request of the controller (handle_controller_request). *)
ClientTakesOrder(c) ==
  /\ asked[c] = Nil
  /\ Waiting(Root, c)
  /\ run' = [run EXCEPT ![c] = RunAfter(@, NextFrom(Root, c))]
  /\ request' = [request EXCEPT ![c] = QueueAfter(@, NextFrom(Root, c))]
  /\ link' = Taken(Root, c)
  /\ UNCHANGED <<knownLeader, asked>>

(* Anything from a node: an answer to a command is logged, an answer to a  *)
(* question that was given up is dropped.                                  *)
ClientDropsAnswer(c, n) ==
  /\ asked[c] = Nil
  /\ Waiting(n, c)
  /\ link' = Taken(n, c)
  /\ UNCHANGED clientVars

-----------------------------------------------------------------------------
(* request_leader_id and send_request                                      *)

Outstanding(net, c, n) ==
  Len(SelectSeq(net[c][n], LAMBDA rpc : rpc.type = "REQUEST_LEADER"))
    + Len(SelectSeq(net[n][c], LAMBDA rpc : rpc.type = "REQUEST_LEADER_RESPONSE"))

(* Slip: the modulus of std::rand is one too small. *)
AllButOne == Node \ {CHOOSE n \in Node : TRUE}

(* The ranks std::rand may pick. *)
Picked == Node

(* The next round of the loop: c asks n. *)
Ask(net, c, n) ==
  /\ n \in Picked
  /\ asked' = [asked EXCEPT ![c] = n]
  /\ link' = IF Outstanding(net, c, n) < MaxAsked
             THEN SendEach(net, c, n, <<RequestLeader>>)
             ELSE net

(* Nothing more arrives in time in handle_requests, and the client runs. *)
ClientAsks(c, n) ==
  /\ asked[c] = Nil
  /\ run[c]
  /\ Ask(link, c, n)
  /\ UNCHANGED <<run, request, knownLeader>>

(* Slip: the member success is not looked at. *)
AnyAnswer(rpc) == rpc.type = "REQUEST_LEADER_RESPONSE"

NamesLeader(rpc) == rpc.type = "REQUEST_LEADER_RESPONSE" /\ rpc.success

(* The node asked does not answer in time. *)
AskTimesOut(c, n) ==
  /\ asked[c] # Nil
  /\ Ask(link, c, n)
  /\ UNCHANGED <<run, request, knownLeader>>

(* It sends something else, or does not know. *)
AskRefused(c, n) ==
  /\ asked[c] # Nil
  /\ Waiting(asked[c], c)
  /\ ~NamesLeader(NextFrom(asked[c], c))
  /\ Ask(Taken(asked[c], c), c, n)
  /\ UNCHANGED <<run, request, knownLeader>>

(* Slip: the queue is not cleared. *)
QueueKept(c) == request[c]

(* The queue once send_request has sent it. *)
QueueSent(c) == <<>>

(* It names a leader, to which the whole queue goes. *)
AskAnswered(c) ==
  /\ asked[c] # Nil
  /\ Waiting(asked[c], c)
  /\ NamesLeader(NextFrom(asked[c], c))
  /\ LET leader == NextFrom(asked[c], c).leaderId
     IN  /\ knownLeader' = [knownLeader EXCEPT ![c] = leader]
         /\ link' = SendEach(Taken(asked[c], c), c, leader,
                      [i \in DOMAIN request[c] |-> RequestClient(request[c][i])])
  /\ request' = [request EXCEPT ![c] = QueueSent(c)]
  /\ asked' = [asked EXCEPT ![c] = Nil]
  /\ UNCHANGED run

(* The rounds that ask n next, and those that take a message of n. *)
AsksNode(c, n) == ClientAsks(c, n) \/ AskTimesOut(c, n) \/ AskRefused(c, n)

TakesReply(c, n) ==
  /\ asked[c] = n
  /\ AskAnswered(c) \/ \E k \in Node : AskRefused(c, k)

ClientStep(c) ==
  \/ ClientTakesOrder(c)
  \/ AskAnswered(c)
  \/ \E n \in Node : ClientDropsAnswer(c, n) \/ AsksNode(c, n)
==============================================================================
