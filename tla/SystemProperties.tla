--------------------------- MODULE SystemProperties ---------------------------
(***************************************************************************)
(* What the operator and the clients of System may expect.                 *)
(***************************************************************************)
EXTENDS System

(* The lines the operator may type, and the commands among them for c. *)
Typed == UNION {{script[i] : i \in 1 .. Len(script)} : script \in Scripts}

Ordered(c) ==
  {line.arg : line \in {l \in Typed : l.name = "ENTRY" /\ c \in Addressees(l)}}

(* What may be under way from s to d when the nodes of L have led. *)
Allowed(s, d, L) ==
  IF s = Root
  THEN {ControllerRequest(line.name, line.arg) :
          line \in {l \in Typed : d \in Addressees(l)}}
  ELSE IF s \in Client /\ d \in Node
  THEN {RequestLeader} \cup {RequestClient(cmd) : cmd \in Ordered(s)}
  ELSE IF s \in Node /\ d \in Client
  THEN {RequestClientResponse(TRUE), RequestLeaderResponse(Root, FALSE)}
         \cup {RequestLeaderResponse(n, TRUE) : n \in L}
  ELSE {}

QueuesOf(net, L) ==
  /\ net = [s \in Process |-> [d \in Process |-> net[s][d]]]
  /\ \A s, d \in Process : net[s][d] \in Seq(Allowed(s, d, L))

(* The type of every variable, with who may send whom what: a client only  *)
(* gets, queues and sends what the operator typed for it, a node takes     *)
(* from a client only what was typed for that client, an answer under way, *)
(* however old, names a node that has led, and on the other queues nothing *)
(* is ever under way (client.hh:48-70, controller.cc:52-219,               *)
(* client.cc:35-69, node.cc:28-39).                                        *)
SystemTypeOK ==
  /\ lines \in Seq(Typed)
  /\ QueuesOf(link, led)
  /\ run \in [Client -> BOOLEAN]
  /\ request \in [Client -> Seq(Cmd)]
  /\ \A c \in Client : request[c] \in Seq(Ordered(c))
  /\ knownLeader \in [Client -> Node \cup {Nil}]
  /\ asked \in [Client -> Node \cup {Nil}]
  /\ state \in [Node -> {"FOLLOWER", "LEADER", "CANDIDATE"}]
  /\ leaderId \in [Node -> Node \cup {Nil}]
  /\ crash \in [Node -> BOOLEAN]
  /\ led \subseteq Node
  /\ accepted \in Seq([node : Node, client : Client, cmd : Cmd])
  /\ \A i \in DOMAIN accepted : accepted[i].cmd \in Ordered(accepted[i].client)

(* Whomever a client takes for the leader has won an election at some      *)
(* time, however old the answer it believed was (client.cc:50-57 takes any *)
(* answer of the node it asked last): its commands never go to a node that *)
(* was never leader, nor to rank 0, which stands for "none" in an answer.  *)
LeaderWasElected == \A c \in Client : knownLeader[c] # Nil => knownLeader[c] \in led

(* Every request of the controller reaches a process whose handler knows   *)
(* it: the default branches of client.cc:136 and cycle.cc:113 are dead.    *)
OrdersUnderstood ==
  \A p \in Node \cup Client : \A i \in DOMAIN link[Root][p] :
    link[Root][p][i].request \in
      {"STATUS", "CRASH", "SPEED", "RECOVERY"}
        \cup (IF p \in Node THEN {"PRINT_LOG"} ELSE {"START", "ENTRY"})

-----------------------------------------------------------------------------
(* A command stands for one ENTRY line, not for its text, which nobody     *)
(* reads: commands are numbered in the order they are typed.               *)
ASSUME NumberingAssumption ==
  /\ Cmd \subseteq Nat /\ Nil \notin Cmd
  /\ \A script \in Scripts : \A i, j \in 1 .. Len(script) :
       /\ i < j
       /\ script[i].name = "ENTRY" /\ script[i].arg # Nil
       /\ script[j].name = "ENTRY" /\ script[j].arg # Nil
       => script[i].arg < script[j].arg

(* The commands of c in the queues on their way to n, with Nil for         *)
(* everything else in those queues: what n has taken, what is under way to *)
(* it, what the operator has given to c and has yet to give.               *)
CommandsTaken(n, c) ==
  [i \in DOMAIN accepted |->
     IF accepted[i].node = n /\ accepted[i].client = c THEN accepted[i].cmd ELSE Nil]

CommandsSent(c, n) ==
  [i \in DOMAIN link[c][n] |->
     IF link[c][n][i].type = "REQUEST_CLIENT" THEN link[c][n][i].message ELSE Nil]

CommandsGiven(c) ==
  [i \in DOMAIN link[Root][c] |->
     IF link[Root][c][i].request = "ENTRY" THEN link[Root][c][i].message ELSE Nil]

CommandsTyped(c) ==
  [i \in DOMAIN lines |->
     IF lines[i].name = "ENTRY" /\ c \in Addressees(lines[i]) THEN lines[i].arg ELSE Nil]

(* All of them, from the first to the last. *)
Pipeline(n, c) ==
  CommandsTaken(n, c) \o CommandsSent(c, n) \o request[c]
    \o CommandsGiven(c) \o CommandsTyped(c)

Increasing(q) ==
  \A i, j \in DOMAIN q : i < j /\ q[i] # Nil /\ q[j] # Nil => q[i] < q[j]

(* A node takes the commands of one client in the order they were typed,   *)
(* each at most once, however often the client or the node crashed in      *)
(* between (client.cc:63-69).                                              *)
InOrder == \A n \in Node, c \in Client : Increasing(Pipeline(n, c))

-----------------------------------------------------------------------------
(* What the operator has yet to give, and where a command can be between   *)
(* the operator and a log.                                                 *)
Ungiven ==
  {cmd \in Cmd : \E c \in Client : \E i \in DOMAIN lines : CommandsTyped(c)[i] = cmd}

Pending ==
  {cmd \in Cmd : \E c \in Client :
     \/ \E i \in DOMAIN link[Root][c] :
          link[Root][c][i] = ControllerRequest("ENTRY", cmd)
     \/ \E i \in DOMAIN request[c] : request[c][i] = cmd
     \/ \E n \in Node : \E i \in DOMAIN link[c][n] : link[c][n][i] = RequestClient(cmd)}

Fate == INSTANCE Delivery
          WITH ungiven <- Ungiven,
               pending <- Pending,
               logged <- [i \in DOMAIN accepted |-> accepted[i].cmd]

(* Every command is given to one client once, and then either taken by one *)
(* leader once or lost on the way; none is lost and taken, and none comes  *)
(* back (controller.cc:181-198, client.cc:63-69, followerCycle.cc:117-120). *)
DeliversAtMostOnce == Fate!DeliverySpec

-----------------------------------------------------------------------------
(* Liveness.                                                               *)

(* What the code's scheduling justifies.  A message that has arrived is    *)
(* taken in the next handle_requests, which receives before it looks at    *)
(* the time (mpi_include.cc:98-101): strong fairness, since a client also  *)
(* listens to one node only in between.  std::rand picks every node again  *)
(* and again, and the two seconds a client waits are enough for an answer  *)
(* again and again.  A node handles what it receives.  Nothing forces      *)
(* elections, crashes or recoveries, nor the operator to type.             *)
Fairness ==
  \A c \in Client :
    /\ SF_vars(ClientTakesOrder(c) /\ UNCHANGED <<lines, clusterVars, accepted>>)
    /\ \A n \in Node :
         /\ SF_vars(AsksNode(c, n) /\ UNCHANGED <<lines, clusterVars, accepted>>)
         /\ SF_vars(TakesReply(c, n) /\ UNCHANGED <<lines, clusterVars, accepted>>)
         /\ WF_vars(NodeServes(n, c))

FairSystem == SystemSpec /\ Fairness

(* n can tell a client who leads. *)
Knows(n) == ~crash[n] /\ state[n] # "CANDIDATE" /\ leaderId[n] # Nil

(* If from some time on one node knows a leader, every command queued at a *)
(* client that runs is sent sooner or later, unless the operator stops the *)
(* client (client.cc:41-69).                                               *)
QueueDrains ==
  (\E n \in Node : <>[]Knows(n)) =>
    \A c \in Client : (run[c] /\ request[c] # <<>>) ~> (request[c] = <<>> \/ ~run[c])

(* And every request of the controller to a client is obeyed: the loop     *)
(* that does not listen to the controller ends (client.cc:45-58).          *)
OrdersObeyed ==
  (\E n \in Node : <>[]Knows(n)) => \A c \in Client : []<>~Waiting(Root, c)
==============================================================================
