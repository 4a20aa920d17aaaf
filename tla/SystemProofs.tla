----------------------------- MODULE SystemProofs -----------------------------
(***************************************************************************)
(* What clients and operator may rely on, for every number of nodes and    *)
(* clients, every script and every value of the bounds:                    *)
(*   SystemTyped           SystemSpec => []SystemTypeOK                    *)
(*   CommandsGoToLeaders   SystemSpec => []LeaderWasElected                *)
(*   OrdersReachHandlers   SystemSpec => []OrdersUnderstood                *)
(*   CommandsStayInOrder   SystemSpec => []InOrder                         *)
(*   CommandsAreTakenOnce  SystemSpec => DeliversAtMostOnce                *)
(*                                                                         *)
(* The first three follow from SystemInv, which says what each variable    *)
(* and each queue may hold: a command is always one that was typed for the *)
(* client that has or had it, and an answer under way, however old, names  *)
(* a node that has led.                                                    *)
(*                                                                         *)
(* For the other two every step is sorted by the move of commands it makes *)
(* (Move, StepsMove): from what is typed to what is given, on to what a    *)
(* client has queued, to what is under way to a node, to what is taken, or *)
(* out of the system.  Each move leaves each pipeline as it is or thins it *)
(* (PipelinesThin), so what increases goes on increasing.  Apart says that *)
(* no command is in the pipelines of two clients, or of one client at two  *)
(* nodes once it has been sent, and that none is typed twice; with it a    *)
(* step of System is a step of Delivery or none.                           *)
(***************************************************************************)
EXTENDS SystemProperties, TLAPS

(* The types of the variables but link and lines, and what is known of the *)
(* commands in them.                                                       *)
StateTyped ==
  /\ run \in [Client -> BOOLEAN]
  /\ request \in [Client -> Seq(Cmd)]
  /\ knownLeader \in [Client -> Node \cup {Nil}]
  /\ asked \in [Client -> Node \cup {Nil}]
  /\ state \in [Node -> {"FOLLOWER", "LEADER", "CANDIDATE"}]
  /\ leaderId \in [Node -> Node \cup {Nil}]
  /\ crash \in [Node -> BOOLEAN]
  /\ led \subseteq Node
  /\ accepted \in Seq([node : Node, client : Client, cmd : Cmd])

CommandsOrdered ==
  /\ \A c \in Client : request[c] \in Seq(Ordered(c))
  /\ \A i \in DOMAIN accepted : accepted[i].cmd \in Ordered(accepted[i].client)

LeadersLed ==
  /\ \A n \in Node : leaderId[n] \in led \cup {Nil}
  /\ LeaderWasElected

SystemInv ==
  /\ StateTyped
  /\ CommandsOrdered
  /\ QueuesOf(link, led)
  /\ lines \in Seq(Typed)
  /\ LeadersLed

-----------------------------------------------------------------------------
(* The queues.                                                             *)

LEMMA SeqMonotone ==
  ASSUME NEW S, NEW T, S \subseteq T, NEW q \in Seq(S)
  PROVE  q \in Seq(T)
OBVIOUS

LEMMA OneTyped ==
  ASSUME NEW S, NEW e \in S
  PROVE  <<e>> \in Seq(S)
OBVIOUS

LEMMA AppendTyped ==
  ASSUME NEW S, NEW q \in Seq(S), NEW e \in S
  PROVE  Append(q, e) \in Seq(S)
OBVIOUS

(* Taking a message leaves the queues in order. *)
LEMMA TakeKeepsLinks ==
  ASSUME NEW L, QueuesOf(link, L), NEW s \in Process, NEW d \in Process, Waiting(s, d)
  PROVE  QueuesOf(Taken(s, d), L) /\ NextFrom(s, d) \in Allowed(s, d, L)
<1> DEFINE ok == Allowed(s, d, L)
<1>1. link[s][d] \in Seq(ok) /\ link[s][d] # <<>>
  BY DEF QueuesOf, Waiting
<1>2. Tail(link[s][d]) \in Seq(ok) /\ Head(link[s][d]) \in ok
  <2> HIDE DEF ok
  <2> QED BY <1>1
<1>3. \A a, b \in Process :
        Taken(s, d)[a][b] = IF a = s /\ b = d THEN Tail(link[s][d]) ELSE link[a][b]
  BY DEF QueuesOf, Taken
<1>4. Taken(s, d) = [a \in Process |-> [b \in Process |-> Taken(s, d)[a][b]]]
  BY DEF QueuesOf, Taken
<1> QED BY <1>2, <1>3, <1>4 DEF QueuesOf, NextFrom

(* So does sending some that are allowed. *)
LEMMA SendKeepsLinks ==
  ASSUME NEW L, NEW net, QueuesOf(net, L), NEW s \in Process, NEW d \in Process,
         NEW rpcs \in Seq(Allowed(s, d, L))
  PROVE  QueuesOf(SendEach(net, s, d, rpcs), L)
<1> DEFINE ok == Allowed(s, d, L)
           sent == SendEach(net, s, d, rpcs)
<1>1. net[s][d] \o rpcs \in Seq(ok)
  <2>1. net[s][d] \in Seq(ok) /\ rpcs \in Seq(ok)
    BY DEF QueuesOf
  <2> HIDE DEF ok
  <2> QED BY <2>1
<1>2. \A a, b \in Process :
        sent[a][b] = IF a = s /\ b = d THEN net[s][d] \o rpcs ELSE net[a][b]
  BY DEF QueuesOf, SendEach
<1>3. sent = [a \in Process |-> [b \in Process |-> sent[a][b]]]
  BY DEF QueuesOf, SendEach
<1> QED BY <1>1, <1>2, <1>3 DEF QueuesOf

(* And so does a new leader. *)
LEMMA LeadKeepsLinks ==
  ASSUME NEW L, NEW M, L \subseteq M, NEW net, QueuesOf(net, L)
  PROVE  QueuesOf(net, M)
<1>1. \A s, d \in Process : Allowed(s, d, L) \subseteq Allowed(s, d, M)
  BY DEF Allowed
<1> QED BY <1>1, SeqMonotone DEF QueuesOf

-----------------------------------------------------------------------------
(* The controller.                                                         *)

LEMMA LinesTyped == Scripts \subseteq Seq(Typed)
<1> SUFFICES ASSUME NEW script \in Scripts PROVE script \in Seq(Typed)
  OBVIOUS
<1>1. Len(script) \in Nat /\ script = [i \in 1 .. Len(script) |-> script[i]]
  BY ScriptsAssumption
<1>2. \A i \in 1 .. Len(script) : script[i] \in Typed
  BY DEF Typed
<1>3. [i \in 1 .. Len(script) |-> script[i]] \in Seq(Typed)
  BY <1>1, <1>2
<1> QED BY <1>1, <1>3

LEMMA ReadLineStep ==
  ASSUME SystemInv, ReadLine, UNCHANGED <<clientVars, clusterVars, accepted>>
  PROVE  SystemInv'
<1> DEFINE line == Head(lines)
<1>1. line \in Typed /\ lines' \in Seq(Typed)
  BY DEF SystemInv, ReadLine
<1>2. QueuesOf(link', led)
  <2>1. \A s, d \in Process :
          link'[s][d] = IF s = Root /\ d \in Addressees(line)
                        THEN Append(link[s][d], ControllerRequest(line.name, line.arg))
                        ELSE link[s][d]
    BY DEF SystemInv, QueuesOf, ReadLine, Process
  <2>2. link' = [s \in Process |-> [d \in Process |-> link'[s][d]]]
    BY DEF SystemInv, QueuesOf, ReadLine, Process
  <2>3. ASSUME NEW d \in Process, d \in Addressees(line)
        PROVE  ControllerRequest(line.name, line.arg) \in Allowed(Root, d, led)
    BY <1>1, <2>3 DEF Allowed
  <2>4. ASSUME NEW s \in Process, NEW d \in Process
        PROVE  link'[s][d] \in Seq(Allowed(s, d, led))
    <3> DEFINE ok == Allowed(s, d, led)
    <3>1. link[s][d] \in Seq(ok)
      BY DEF SystemInv, QueuesOf
    <3>2. s = Root /\ d \in Addressees(line)
            => ControllerRequest(line.name, line.arg) \in ok
      BY <2>3
    <3>3. CASE s = Root /\ d \in Addressees(line)
      BY <2>1, <3>1, <3>2, <3>3, AppendTyped
    <3>4. CASE ~(s = Root /\ d \in Addressees(line))
      BY <2>1, <3>1, <3>4
    <3> QED BY <3>3, <3>4
  <2> QED BY <2>2, <2>4 DEF QueuesOf
<1>3. StateTyped' /\ CommandsOrdered' /\ LeadersLed' /\ led' = led
  BY DEF SystemInv, StateTyped, CommandsOrdered, LeadersLed, LeaderWasElected, clientVars, clusterVars
<1> QED BY <1>1, <1>2, <1>3 DEF SystemInv

-----------------------------------------------------------------------------
(* The clients.                                                            *)

(* What is typed for a client is a command. *)
LEMMA OrderedAreCommands == \A c \in Client : Ordered(c) \subseteq Cmd
<1> SUFFICES ASSUME NEW c \in Client, NEW line \in Typed, line.name = "ENTRY",
                    c \in Addressees(line)
             PROVE  line.arg \in Cmd
  BY DEF Ordered
<1>1. line.arg \in Cmd \cup {Nil}
  BY ScriptsAssumption DEF Typed
<1>2. line.arg # Nil
  BY DEF Addressees
<1> QED BY <1>1, <1>2

(* An order that is obeyed is one that was typed. *)
LEMMA OrderTyped ==
  ASSUME SystemInv, NEW c \in Client, Waiting(Root, c)
  PROVE  /\ QueuesOf(Taken(Root, c), led)
         /\ NextFrom(Root, c).request = "ENTRY" => /\ NextFrom(Root, c).message \in Ordered(c)
                                                   /\ NextFrom(Root, c).message \in Cmd
<1>1. Root \in Process /\ c \in Process
  BY DEF Process
<1>2. QueuesOf(Taken(Root, c), led) /\ NextFrom(Root, c) \in Allowed(Root, c, led)
  BY <1>1, TakeKeepsLinks DEF SystemInv
<1>3. PICK line \in Typed :
        c \in Addressees(line) /\ NextFrom(Root, c) = ControllerRequest(line.name, line.arg)
  BY <1>2 DEF Allowed
<1>4. line.name = "ENTRY" => line.arg \in Ordered(c)
  BY <1>3 DEF Ordered
<1> QED BY <1>2, <1>3, <1>4, OrderedAreCommands DEF ControllerRequest

(* What a client asks keeps the queues in order. *)
LEMMA AskKeepsLinks ==
  ASSUME NEW net, QueuesOf(net, led), NEW c \in Client, NEW n \in Node, Ask(net, c, n)
  PROVE  QueuesOf(link', led)
<1>1. c \in Process /\ n \in Process /\ c # Root
  BY RankAssumption DEF Process
<1>2. <<RequestLeader>> \in Seq(Allowed(c, n, led))
  <2>1. RequestLeader \in Allowed(c, n, led)
    BY <1>1 DEF Allowed
  <2> QED BY <2>1, OneTyped
<1>3. QueuesOf(SendEach(net, c, n, <<RequestLeader>>), led)
  BY <1>1, <1>2, SendKeepsLinks
<1> QED BY <1>3 DEF Ask

(* A node that is believed has led. *)
LEMMA AnswerNamesLed ==
  ASSUME SystemInv, NEW c \in Client, NEW n \in Node, Waiting(n, c)
  PROVE  /\ QueuesOf(Taken(n, c), led)
         /\ NamesLeader(NextFrom(n, c)) => NextFrom(n, c).leaderId \in led
<1>1. n \in Process /\ c \in Process /\ n # Root /\ n \notin Client
  BY RankAssumption DEF Process
<1>2. QueuesOf(Taken(n, c), led) /\ NextFrom(n, c) \in Allowed(n, c, led)
  BY <1>1, TakeKeepsLinks DEF SystemInv
<1>3. NextFrom(n, c) \in {RequestClientResponse(TRUE), RequestLeaderResponse(Root, FALSE)}
        \cup {RequestLeaderResponse(m, TRUE) : m \in led}
  BY <1>1, <1>2 DEF Allowed
<1> QED BY <1>2, <1>3 DEF NamesLeader, RequestClientResponse, RequestLeaderResponse

LEMMA ClientStepKeepsInv ==
  ASSUME SystemInv, NEW c \in Client, ClientStep(c),
         UNCHANGED <<lines, clusterVars, accepted>>
  PROVE  SystemInv'
<1>1. /\ run \in [Client -> BOOLEAN] /\ request \in [Client -> Seq(Cmd)]
      /\ knownLeader \in [Client -> Node \cup {Nil}]
      /\ asked \in [Client -> Node \cup {Nil}]
      /\ led \subseteq Node
      /\ \A k \in Client : request[k] \in Seq(Ordered(k))
  BY DEF SystemInv, StateTyped, CommandsOrdered
<1>2. /\ state' = state /\ leaderId' = leaderId /\ crash' = crash /\ led' = led
      /\ accepted' = accepted /\ lines' = lines
  BY DEF clusterVars
<1>3. SUFFICES /\ run' \in [Client -> BOOLEAN]
               /\ request' \in [Client -> Seq(Cmd)]
               /\ knownLeader' \in [Client -> Node \cup {Nil}]
               /\ asked' \in [Client -> Node \cup {Nil}]
               /\ \A k \in Client : knownLeader'[k] # Nil => knownLeader'[k] \in led
               /\ \A k \in Client : request'[k] \in Seq(Ordered(k))
               /\ QueuesOf(link', led)
  BY <1>2 DEF SystemInv, StateTyped, CommandsOrdered, LeadersLed, LeaderWasElected
<1>4. \A k \in Client : knownLeader[k] # Nil => knownLeader[k] \in led
  BY DEF SystemInv, LeadersLed, LeaderWasElected
<1>5. CASE ClientTakesOrder(c)
  <2>1. /\ QueuesOf(Taken(Root, c), led)
        /\ NextFrom(Root, c).request = "ENTRY" => /\ NextFrom(Root, c).message \in Ordered(c)
                                                  /\ NextFrom(Root, c).message \in Cmd
    BY <1>5, OrderTyped DEF ClientTakesOrder
  <2>2. run' \in [Client -> BOOLEAN]
    <3>1. RunAfter(run[c], NextFrom(Root, c)) \in BOOLEAN
      BY <1>1 DEF RunAfter
    <3> QED BY <1>1, <1>5, <3>1 DEF ClientTakesOrder
  <2>3. request' \in [Client -> Seq(Cmd)]
    <3>1. request[c] \in Seq(Cmd)
      BY <1>1
    <3>2. QueueAfter(request[c], NextFrom(Root, c)) \in Seq(Cmd)
      BY <2>1, <3>1, AppendTyped DEF QueueAfter
    <3> QED BY <1>1, <1>5, <3>2 DEF ClientTakesOrder
  <2>4. ASSUME NEW k \in Client PROVE request'[k] \in Seq(Ordered(k))
    <3>1. CASE k = c
      <4>1. request'[c] = QueueAfter(request[c], NextFrom(Root, c))
        BY <1>1, <1>5 DEF ClientTakesOrder
      <4>2. QueueAfter(request[c], NextFrom(Root, c)) \in Seq(Ordered(c))
        BY <1>1, <2>1, AppendTyped DEF QueueAfter
      <4> QED BY <3>1, <4>1, <4>2
    <3>2. CASE k # c
      <4>1. request'[k] = request[k]
        BY <1>1, <1>5, <3>2 DEF ClientTakesOrder
      <4> QED BY <1>1, <4>1
    <3> QED BY <3>1, <3>2
  <2> QED BY <1>1, <1>4, <1>5, <2>1, <2>2, <2>3, <2>4 DEF ClientTakesOrder
<1>6. ASSUME NEW n \in Node, ClientDropsAnswer(c, n)
      PROVE  QueuesOf(link', led) /\ UNCHANGED clientVars
  BY <1>6, AnswerNamesLed DEF ClientDropsAnswer
<1>7. ASSUME NEW n \in Node, AsksNode(c, n)
      PROVE  /\ QueuesOf(link', led)
             /\ asked' = [asked EXCEPT ![c] = n]
             /\ UNCHANGED <<run, request, knownLeader>>
  <2>1. QueuesOf(link, led)
    BY DEF SystemInv
  <2>2. CASE ClientAsks(c, n)
    BY <2>1, <2>2, AskKeepsLinks DEF ClientAsks, Ask
  <2>3. CASE AskTimesOut(c, n)
    BY <2>1, <2>3, AskKeepsLinks DEF AskTimesOut, Ask
  <2>4. CASE AskRefused(c, n)
    <3>1. asked[c] \in Node /\ Waiting(asked[c], c)
      BY <1>1, <2>4 DEF AskRefused
    <3>2. QueuesOf(Taken(asked[c], c), led)
      BY <3>1, AnswerNamesLed
    <3> QED BY <2>4, <3>2, AskKeepsLinks DEF AskRefused, Ask
  <2> QED BY <1>7, <2>2, <2>3, <2>4 DEF AsksNode
<1>8. CASE AskAnswered(c)
  <2> DEFINE n == asked[c]
             leader == NextFrom(n, c).leaderId
             commands == [i \in DOMAIN request[c] |-> RequestClient(request[c][i])]
  <2>1. n \in Node /\ Waiting(n, c) /\ NamesLeader(NextFrom(n, c))
    BY <1>1, <1>8 DEF AskAnswered
  <2>2. QueuesOf(Taken(n, c), led) /\ leader \in led
    BY <2>1, AnswerNamesLed
  <2>3. c \in Process /\ c # Root /\ leader \in Process /\ leader \in Node
    BY <1>1, <2>2, RankAssumption DEF Process
  <2>4. commands \in Seq(Allowed(c, leader, led))
    <3>1. request[c] \in Seq(Ordered(c))
      BY <1>1
    <3>2. \A i \in DOMAIN request[c] : RequestClient(request[c][i]) \in Allowed(c, leader, led)
      BY <2>3, <3>1 DEF Allowed
    <3>3. DOMAIN request[c] = 1 .. Len(request[c]) /\ Len(request[c]) \in Nat
      BY <3>1
    <3> QED BY <3>2, <3>3
  <2>5. QueuesOf(SendEach(Taken(n, c), c, leader, commands), led)
    BY <2>2, <2>3, <2>4, SendKeepsLinks
  <2>6. link' = SendEach(Taken(n, c), c, leader, commands)
        /\ knownLeader' = [knownLeader EXCEPT ![c] = leader]
    BY <1>8 DEF AskAnswered
  <2>7. /\ knownLeader' \in [Client -> Node \cup {Nil}]
        /\ \A k \in Client : knownLeader'[k] # Nil => knownLeader'[k] \in led
    <3> HIDE DEF leader
    <3> QED BY <1>1, <1>4, <2>2, <2>3, <2>6
  <2>8. /\ request' \in [Client -> Seq(Cmd)] /\ asked' \in [Client -> Node \cup {Nil}]
        /\ \A k \in Client : request'[k] \in Seq(Ordered(k))
        /\ run' = run
    <3>1. request' = [request EXCEPT ![c] = <<>>]
      BY <1>8 DEF AskAnswered, QueueSent
    <3>2. \A k \in Client : request'[k] = request[k] \/ request'[k] = <<>>
      BY <1>1, <3>1
    <3>3. request' \in [Client -> Seq(Cmd)] /\ \A k \in Client : request'[k] \in Seq(Ordered(k))
      BY <1>1, <3>1, <3>2
    <3> QED BY <1>1, <1>8, <3>3 DEF AskAnswered
  <2> QED BY <1>1, <2>5, <2>6, <2>7, <2>8
<1>9. CASE \E n \in Node : AsksNode(c, n)
  BY <1>1, <1>4, <1>7, <1>9
<1>10. CASE \E n \in Node : ClientDropsAnswer(c, n)
  BY <1>1, <1>4, <1>6, <1>10 DEF clientVars
<1> QED BY <1>5, <1>8, <1>9, <1>10 DEF ClientStep

-----------------------------------------------------------------------------
(* The nodes.                                                              *)

(* A step of the nodes among themselves, or one that an order asks for,    *)
(* makes nobody name a node that has not led.                              *)
LEMMA ClusterKeepsLed ==
  ASSUME StateTyped, LeadersLed, [ClusterNext]_clusterVars,
         UNCHANGED <<clientVars, accepted>>
  PROVE  StateTyped' /\ LeadersLed' /\ led \subseteq led'
<1>1. /\ state \in [Node -> {"FOLLOWER", "LEADER", "CANDIDATE"}]
      /\ leaderId \in [Node -> Node \cup {Nil}]
      /\ crash \in [Node -> BOOLEAN]
      /\ led \subseteq Node
  BY DEF StateTyped
<1>2. \A n \in Node : leaderId[n] \in led \cup {Nil}
  BY DEF LeadersLed
<1> SUFFICES /\ state' \in [Node -> {"FOLLOWER", "LEADER", "CANDIDATE"}]
             /\ leaderId' \in [Node -> Node \cup {Nil}]
             /\ crash' \in [Node -> BOOLEAN]
             /\ led' \subseteq Node
             /\ \A n \in Node : leaderId'[n] \in led' \cup {Nil}
             /\ led \subseteq led'
  BY DEF StateTyped, LeadersLed, LeaderWasElected, clientVars
<1>3. CASE UNCHANGED clusterVars
  BY <1>1, <1>2, <1>3 DEF clusterVars
<1>4. ASSUME NEW n \in Node, Stands(n) \/ StandsDown(n) PROVE led' = led /\ UNCHANGED <<leaderId, crash>>
             /\ state' \in [Node -> {"FOLLOWER", "LEADER", "CANDIDATE"}]
  BY <1>1, <1>4 DEF Stands, StandsDown
<1>5. ASSUME NEW n \in Node, Crashes(n) \/ Recovers(n)
      PROVE  UNCHANGED <<state, leaderId, led>> /\ crash' \in [Node -> BOOLEAN]
  BY <1>1, <1>5 DEF Crashes, Recovers
<1>6. CASE \E n \in Node : Wins(n)
  BY <1>1, <1>2, <1>6 DEF Wins
<1>7. CASE \E n, m \in Node : Follows(n, m)
  BY <1>1, <1>2, <1>7 DEF Follows
<1> QED BY <1>1, <1>2, <1>3, <1>4, <1>5, <1>6, <1>7 DEF ClusterNext, RoleChange

(* What a node does for the controller. *)
LEMMA NodeTakesOrderStep ==
  ASSUME SystemInv, NEW n \in Node, NodeTakesOrder(n)
  PROVE  SystemInv'
<1>1. Root \in Process /\ n \in Process /\ Waiting(Root, n) /\ link' = Taken(Root, n)
  BY DEF NodeTakesOrder, Process
<1>2. QueuesOf(link', led)
  BY <1>1, TakeKeepsLinks DEF SystemInv
<1>3. [ClusterNext]_clusterVars
  BY DEF NodeTakesOrder, ClusterNext
<1>4. UNCHANGED <<lines, clientVars, accepted>>
  BY DEF NodeTakesOrder
<1>5. StateTyped' /\ LeadersLed' /\ led \subseteq led'
  BY <1>3, <1>4, ClusterKeepsLed DEF SystemInv
<1>6. CommandsOrdered'
  BY <1>4 DEF SystemInv, CommandsOrdered, clientVars
<1> QED BY <1>2, <1>4, <1>5, <1>6, LeadKeepsLinks DEF SystemInv

LEMMA RoleChangeStep ==
  ASSUME SystemInv, RoleChange, UNCHANGED <<link, lines, clientVars, accepted>>
  PROVE  SystemInv'
<1>1. StateTyped' /\ LeadersLed' /\ led \subseteq led'
  BY ClusterKeepsLed DEF SystemInv, ClusterNext
<1>2. CommandsOrdered'
  BY DEF SystemInv, CommandsOrdered, clientVars
<1> QED BY <1>1, <1>2, LeadKeepsLinks DEF SystemInv

(* What a node does for a client. *)
LEMMA NodeServesStep ==
  ASSUME SystemInv, NEW n \in Node, NEW c \in Client,
         NodeServes(n, c) \/ LeaderAnswersCommand(n, c)
  PROVE  SystemInv'
<1>1. n \in Process /\ c \in Process /\ n # Root /\ c # Root /\ n \notin Client
  BY RankAssumption DEF Process
<1>2. /\ QueuesOf(link, led) /\ accepted \in Seq([node : Node, client : Client, cmd : Cmd])
      /\ \A i \in DOMAIN accepted : accepted[i].cmd \in Ordered(accepted[i].client)
  BY DEF SystemInv, StateTyped, CommandsOrdered
<1>3. Waiting(c, n) => /\ QueuesOf(Taken(c, n), led)
                       /\ NextFrom(c, n) \in Allowed(c, n, led)
  BY <1>1, <1>2, TakeKeepsLinks
<1>4. UNCHANGED <<lines, clientVars, clusterVars>>
  BY DEF NodeServes, NodeAnswersLeader, NodeTakesCommand, NodeDropsRequest,
         LeaderAnswersCommand
<1> SUFFICES /\ QueuesOf(link', led)
             /\ accepted' \in Seq([node : Node, client : Client, cmd : Cmd])
             /\ \A i \in DOMAIN accepted' : accepted'[i].cmd \in Ordered(accepted'[i].client)
  BY <1>4 DEF SystemInv, StateTyped, CommandsOrdered, LeadersLed, LeaderWasElected,
              clientVars, clusterVars
<1>5. CASE NodeAnswersLeader(n, c)
  <2>1. LeaderResponse(n) \in Allowed(n, c, led)
    BY <1>1 DEF SystemInv, LeadersLed, LeaderResponse, Allowed
  <2>2. <<LeaderResponse(n)>> \in Seq(Allowed(n, c, led))
    BY <2>1, OneTyped
  <2> QED BY <1>1, <1>2, <1>3, <1>5, <2>2, SendKeepsLinks DEF NodeAnswersLeader
<1>6. CASE NodeTakesCommand(n, c)
  <2> DEFINE e == [node |-> n, client |-> c, cmd |-> NextFrom(c, n).message]
  <2>1. NextFrom(c, n) \in {RequestLeader} \cup {RequestClient(cmd) : cmd \in Ordered(c)}
    BY <1>1, <1>3, <1>6 DEF NodeTakesCommand, Allowed
  <2>2. NextFrom(c, n).message \in Ordered(c) /\ NextFrom(c, n).message \in Cmd
    BY <1>6, <2>1, OrderedAreCommands DEF NodeTakesCommand, RequestLeader, RequestClient
  <2>3. /\ e \in [node : Node, client : Client, cmd : Cmd]
        /\ e.cmd \in Ordered(e.client) /\ accepted' = Append(accepted, e)
    BY <1>6, <2>2 DEF NodeTakesCommand
  <2> HIDE DEF e
  <2>4. accepted' \in Seq([node : Node, client : Client, cmd : Cmd])
    BY <1>2, <2>3, AppendTyped
  <2>5. \A i \in DOMAIN accepted' :
          (i \in DOMAIN accepted /\ accepted'[i] = accepted[i]) \/ accepted'[i] = e
    BY <1>2, <2>3
  <2>6. \A i \in DOMAIN accepted' : accepted'[i].cmd \in Ordered(accepted'[i].client)
    BY <1>2, <2>3, <2>5
  <2> QED BY <1>3, <1>6, <2>4, <2>6 DEF NodeTakesCommand
<1>7. CASE NodeDropsRequest(n, c)
  BY <1>2, <1>3, <1>7 DEF NodeDropsRequest
<1>8. CASE LeaderAnswersCommand(n, c)
  <2>1. RequestClientResponse(TRUE) \in Allowed(n, c, led)
    BY <1>1 DEF Allowed
  <2>2. <<RequestClientResponse(TRUE)>> \in Seq(Allowed(n, c, led))
    BY <2>1, OneTyped
  <2> QED BY <1>1, <1>2, <1>8, <2>2, SendKeepsLinks DEF LeaderAnswersCommand
<1> QED BY <1>5, <1>6, <1>7, <1>8 DEF NodeServes

-----------------------------------------------------------------------------
LEMMA SystemInvariant == SystemSpec => []SystemInv
<1>1. SystemInit => SystemInv
  <2> SUFFICES ASSUME SystemInit PROVE SystemInv
    OBVIOUS
  <2>1. StateTyped /\ LeadersLed
    BY DEF SystemInit, ClientInit, ClusterInit, StateTyped, LeadersLed,
           LeaderWasElected
  <2>3. CommandsOrdered
    BY DEF SystemInit, ClientInit, CommandsOrdered
  <2>2. QueuesOf(link, led)
    <3>1. \A s, d \in Process : link[s][d] = <<>>
      BY DEF SystemInit, LinkInit
    <3>2. link = [s \in Process |-> [d \in Process |-> link[s][d]]]
      BY DEF SystemInit, LinkInit
    <3>3. \A s, d \in Process : <<>> \in Seq(Allowed(s, d, led))
      OBVIOUS
    <3> QED BY <3>1, <3>2, <3>3 DEF QueuesOf
  <2> QED BY <2>1, <2>2, <2>3, LinesTyped DEF SystemInit, ControllerInit, SystemInv
<1>2. SystemInv /\ [SystemNext]_vars => SystemInv'
  <2> SUFFICES ASSUME SystemInv, [SystemNext]_vars PROVE SystemInv'
    OBVIOUS
  <2>1. CASE UNCHANGED vars
    BY <2>1 DEF vars, clientVars, clusterVars, SystemInv, StateTyped, CommandsOrdered,
                QueuesOf, LeadersLed, LeaderWasElected
  <2> QED BY <2>1, ReadLineStep, ClientStepKeepsInv, RoleChangeStep,
             NodeTakesOrderStep, NodeServesStep DEF SystemNext
<1> QED BY <1>1, <1>2, PTL DEF SystemSpec

(* SystemTypeOK: every variable keeps its type and every queue holds only  *)
(* what its sender may send: a command that a client is given, queues or   *)
(* sends and a node takes is one the operator typed for that client, and   *)
(* an answer under way names a node that has led (client.hh:48-70,         *)
(* controller.cc:52-219, client.cc:35-69, node.cc:28-39).                  *)
THEOREM SystemTyped == SystemSpec => []SystemTypeOK
<1>1. SystemInv => SystemTypeOK
  BY DEF SystemInv, StateTyped, CommandsOrdered, SystemTypeOK
<1> QED BY <1>1, SystemInvariant, PTL

(* LeaderWasElected: whatever is delayed or given up, and whoever crashes, *)
(* a client sends its commands only to nodes that have won an election     *)
(* (client.cc:50-57, node.cc:28-39).                                       *)
THEOREM CommandsGoToLeaders == SystemSpec => []LeaderWasElected
<1>1. SystemInv => LeaderWasElected
  BY DEF SystemInv, LeadersLed
<1> QED BY <1>1, SystemInvariant, PTL

(* OrdersUnderstood: whatever the operator types, a node or a client gets  *)
(* only requests its handler knows (controller.cc:52-219, client.cc:136,   *)
(* cycle.cc:113).                                                          *)
THEOREM OrdersReachHandlers == SystemSpec => []OrdersUnderstood
<1>1. ASSUME SystemInv PROVE OrdersUnderstood
  <2> SUFFICES ASSUME NEW p \in Node \cup Client, NEW i \in DOMAIN link[Root][p]
               PROVE  link[Root][p][i].request \in
                        {"STATUS", "CRASH", "SPEED", "RECOVERY"}
                          \cup (IF p \in Node THEN {"PRINT_LOG"} ELSE {"START", "ENTRY"})
    BY DEF OrdersUnderstood
  <2>1. Root \in Process /\ p \in Process
    BY DEF Process
  <2>2. link[Root][p] \in Seq(Allowed(Root, p, led))
    BY <1>1, <2>1 DEF SystemInv, QueuesOf
  <2>3. link[Root][p][i] \in Allowed(Root, p, led)
    BY <2>2
  <2>4. PICK line \in Typed :
          p \in Addressees(line) /\ link[Root][p][i] = ControllerRequest(line.name, line.arg)
    BY <2>3 DEF Allowed
  <2>5. link[Root][p][i].request = line.name
    BY <2>4 DEF ControllerRequest
  <2>6. line.name \in {"STATUS", "CRASH", "SPEED", "RECOVERY"}
          \cup (IF p \in Node THEN {"PRINT_LOG"} ELSE {"START", "ENTRY"})
    BY <2>4, RankAssumption DEF Addressees
  <2> QED BY <2>5, <2>6
<1> QED BY <1>1, SystemInvariant, PTL

-----------------------------------------------------------------------------
(* Sequences of commands, with Nil for what is none.                       *)

Place == Cmd \cup {Nil}

Commands(q) == {q[i] : i \in DOMAIN q} \ {Nil}

(* q is p, less some of its commands. *)
Thins(p, q) ==
  \E a, b, c \in Seq(Place) :
    p = (a \o b) \o c /\ (q = a \o c \/ q = (a \o <<Nil>>) \o c)

(* The positions of two sequences in a row. *)
LEMMA JoinPositions ==
  ASSUME NEW S, NEW s \in Seq(S), NEW t \in Seq(S)
  PROVE  /\ s \o t \in Seq(S) /\ DOMAIN (s \o t) = 1 .. Len(s) + Len(t)
         /\ Len(s) \in Nat /\ Len(t) \in Nat
         /\ DOMAIN s = 1 .. Len(s) /\ DOMAIN t = 1 .. Len(t)
         /\ \A i \in 1 .. Len(s) : (s \o t)[i] = s[i]
         /\ \A i \in 1 .. Len(t) : (s \o t)[Len(s) + i] = t[i]
<1>1. /\ s \o t \in Seq(S) /\ Len(s \o t) = Len(s) + Len(t)
      /\ Len(s) \in Nat /\ Len(t) \in Nat
      /\ DOMAIN s = 1 .. Len(s) /\ DOMAIN t = 1 .. Len(t)
  OBVIOUS
<1>2. DOMAIN (s \o t) = 1 .. Len(s) + Len(t)
  BY <1>1
<1>3. \A i \in 1 .. Len(s) : (s \o t)[i] = s[i]
  OBVIOUS
<1>4. \A i \in 1 .. Len(t) : (s \o t)[Len(s) + i] = t[i]
  OBVIOUS
<1> QED BY <1>1, <1>2, <1>3, <1>4

LEMMA JoinCommands ==
  ASSUME NEW s \in Seq(Place), NEW t \in Seq(Place)
  PROVE  Commands(s \o t) = Commands(s) \cup Commands(t)
<1> DEFINE st == s \o t
<1>1. /\ DOMAIN st = 1 .. Len(s) + Len(t)
      /\ Len(s) \in Nat /\ Len(t) \in Nat
      /\ DOMAIN s = 1 .. Len(s) /\ DOMAIN t = 1 .. Len(t)
      /\ \A i \in 1 .. Len(s) : st[i] = s[i]
      /\ \A i \in 1 .. Len(t) : st[Len(s) + i] = t[i]
  BY JoinPositions
<1> HIDE DEF st
<1>2. ASSUME NEW i \in DOMAIN st
      PROVE  st[i] \in {s[k] : k \in DOMAIN s} \cup {t[k] : k \in DOMAIN t}
  <2>1. CASE i \in 1 .. Len(s)
    BY <1>1, <2>1
  <2>2. CASE i \notin 1 .. Len(s)
    <3>1. i - Len(s) \in 1 .. Len(t) /\ Len(s) + (i - Len(s)) = i
      BY <1>1, <2>2
    <3> QED BY <1>1, <3>1
  <2> QED BY <2>1, <2>2
<1>3. ASSUME NEW k \in DOMAIN s PROVE s[k] \in {st[i] : i \in DOMAIN st}
  <2>1. k \in DOMAIN st /\ st[k] = s[k]
    BY <1>1
  <2> QED BY <2>1
<1>4. ASSUME NEW k \in DOMAIN t PROVE t[k] \in {st[i] : i \in DOMAIN st}
  <2>1. Len(s) + k \in DOMAIN st /\ st[Len(s) + k] = t[k]
    BY <1>1
  <2> QED BY <2>1
<1> QED BY <1>2, <1>3, <1>4 DEF Commands, st

LEMMA OneCommand ==
  ASSUME NEW h \in Place
  PROVE  <<h>> \in Seq(Place) /\ Commands(<<h>>) = {h} \ {Nil}
BY DEF Commands

LEMMA NoCommand == <<>> \in Seq(Place) /\ Commands(<<>>) = {} /\ Nil \in Place
BY DEF Commands, Place

(* Of two sequences that increase together the first has what is smaller.  *)
LEMMA JoinIncreasing ==
  ASSUME NEW s \in Seq(Place), NEW t \in Seq(Place)
  PROVE  Increasing(s \o t) <=>
           /\ Increasing(s) /\ Increasing(t)
           /\ \A x \in Commands(s), y \in Commands(t) : x < y
<1> DEFINE st == s \o t
<1>1. /\ DOMAIN st = 1 .. Len(s) + Len(t)
      /\ Len(s) \in Nat /\ Len(t) \in Nat
      /\ DOMAIN s = 1 .. Len(s) /\ DOMAIN t = 1 .. Len(t)
      /\ \A i \in 1 .. Len(s) : st[i] = s[i]
      /\ \A i \in 1 .. Len(t) : st[Len(s) + i] = t[i]
  BY JoinPositions
<1> HIDE DEF st
<1>2. ASSUME Increasing(st) PROVE Increasing(s)
  BY <1>1, <1>2 DEF Increasing
<1>3. ASSUME Increasing(st) PROVE Increasing(t)
  <2> SUFFICES ASSUME NEW i \in DOMAIN t, NEW j \in DOMAIN t, i < j, t[i] # Nil, t[j] # Nil
               PROVE  t[i] < t[j]
    BY DEF Increasing
  <2>1. /\ Len(s) + i \in DOMAIN st /\ Len(s) + j \in DOMAIN st /\ Len(s) + i < Len(s) + j
        /\ st[Len(s) + i] = t[i] /\ st[Len(s) + j] = t[j]
    BY <1>1
  <2> QED BY <1>3, <2>1 DEF Increasing
<1>4. ASSUME Increasing(st), NEW x \in Commands(s), NEW y \in Commands(t)
      PROVE  x < y
  <2>1. PICK i \in DOMAIN s : x = s[i] /\ x # Nil
    BY DEF Commands
  <2>2. PICK j \in DOMAIN t : y = t[j] /\ y # Nil
    BY DEF Commands
  <2>3. /\ i \in DOMAIN st /\ Len(s) + j \in DOMAIN st /\ i < Len(s) + j
        /\ st[i] = x /\ st[Len(s) + j] = y
    BY <1>1, <2>1, <2>2
  <2> QED BY <1>4, <2>1, <2>2, <2>3 DEF Increasing
<1>5. ASSUME Increasing(s), Increasing(t),
             \A x \in Commands(s), y \in Commands(t) : x < y,
             NEW i \in DOMAIN st, NEW j \in DOMAIN st, i < j, st[i] # Nil, st[j] # Nil
      PROVE  st[i] < st[j]
  <2>1. CASE j \in 1 .. Len(s)
    <3>1. i \in 1 .. Len(s)
      BY <1>1, <1>5, <2>1
    <3> QED BY <1>1, <1>5, <2>1, <3>1 DEF Increasing
  <2>2. CASE j \notin 1 .. Len(s) /\ i \in 1 .. Len(s)
    <3>1. j - Len(s) \in 1 .. Len(t) /\ Len(s) + (j - Len(s)) = j
      BY <1>1, <2>2
    <3>2. st[j] \in Commands(t)
      BY <1>1, <1>5, <3>1 DEF Commands
    <3>3. st[i] \in Commands(s)
      BY <1>1, <1>5, <2>2 DEF Commands
    <3> QED BY <1>5, <3>2, <3>3
  <2>3. CASE i \notin 1 .. Len(s)
    <3>1. /\ i - Len(s) \in 1 .. Len(t) /\ Len(s) + (i - Len(s)) = i
          /\ j - Len(s) \in 1 .. Len(t) /\ Len(s) + (j - Len(s)) = j
          /\ i - Len(s) < j - Len(s)
      <4>1. /\ i \in 1 .. Len(s) + Len(t) /\ j \in 1 .. Len(s) + Len(t)
            /\ i < j /\ Len(s) \in Nat /\ Len(t) \in Nat
        BY <1>1, <1>5
      <4> QED BY <2>3, <4>1
    <3>2. st[i] = t[i - Len(s)] /\ st[j] = t[j - Len(s)]
      BY <1>1, <3>1
    <3> QED BY <1>1, <1>5, <3>1, <3>2 DEF Increasing
  <2> QED BY <2>1, <2>2, <2>3
<1> QED BY <1>2, <1>3, <1>4, <1>5 DEF Increasing, st

LEMMA ThinsIncreasing ==
  ASSUME NEW p, NEW q, Thins(p, q), Increasing(p)
  PROVE  Increasing(q) /\ Commands(q) \subseteq Commands(p)
<1>1. PICK a, b, c \in Seq(Place) :
        p = (a \o b) \o c /\ (q = a \o c \/ q = (a \o <<Nil>>) \o c)
  BY DEF Thins
<1>2. a \o b \in Seq(Place)
  OBVIOUS
<1>3. /\ Increasing(a) /\ Increasing(c)
      /\ \A x \in Commands(a), y \in Commands(c) : x < y
      /\ Commands(p) = (Commands(a) \cup Commands(b)) \cup Commands(c)
  <2>1. /\ Increasing(a \o b) /\ Increasing(c)
        /\ \A x \in Commands(a \o b), y \in Commands(c) : x < y
    BY <1>1, <1>2, JoinIncreasing
  <2>2. Increasing(a) /\ Commands(a \o b) = Commands(a) \cup Commands(b)
    BY <2>1, JoinIncreasing, JoinCommands
  <2> QED BY <1>1, <1>2, <2>1, <2>2, JoinCommands
<1>4. CASE q = a \o c
  BY <1>3, <1>4, JoinIncreasing, JoinCommands
<1>5. CASE q = (a \o <<Nil>>) \o c
  <2>1. /\ <<Nil>> \in Seq(Place) /\ Commands(<<Nil>>) = {}
        /\ Increasing(<<Nil>>) /\ a \o <<Nil>> \in Seq(Place)
    BY OneCommand, NoCommand DEF Increasing
  <2>2. Commands(a \o <<Nil>>) = Commands(a)
    <3>1. Commands(a \o <<Nil>>) = Commands(a) \cup Commands(<<Nil>>)
      BY <2>1, JoinCommands
    <3> QED BY <2>1, <3>1
  <2>3. \A x \in Commands(a), y \in Commands(<<Nil>>) : x < y
    BY <2>1
  <2>4. Increasing(a \o <<Nil>>)
    BY <1>3, <2>1, <2>3, JoinIncreasing
  <2> QED BY <1>3, <1>5, <2>1, <2>2, <2>4, JoinIncreasing, JoinCommands
<1> QED BY <1>1, <1>4, <1>5

-----------------------------------------------------------------------------
(* The pipeline of a client and a node: what is taken, sent, queued, given *)
(* and typed, and how a command moves from one part to the next.           *)

Row == Seq(Place)

Join(a, b) == a \o b

Whole(t, s, r, g, y) == Join(Join(Join(Join(t, s), r), g), y)

LEMMA JoinType == \A a, b \in Row : Join(a, b) \in Row
BY DEF Row, Join

LEMMA JoinAssociative ==
  \A a, b, c \in Row : Join(Join(a, b), c) = Join(a, Join(b, c))
BY DEF Row, Join

LEMMA JoinEmpty == <<>> \in Row /\ \A a \in Row : Join(a, <<>>) = a /\ Join(<<>>, a) = a
BY DEF Row, Join

LEMMA ThinsByJoin ==
  ASSUME NEW a \in Row, NEW b \in Row, NEW c \in Row
  PROVE  /\ Thins(Join(Join(a, b), c), Join(a, c))
         /\ Thins(Join(Join(a, b), c), Join(Join(a, <<Nil>>), c))
BY DEF Row, Join, Thins

(* What is first in one part becomes last in the part before. *)
LEMMA JoinMoves ==
  ASSUME NEW a \in Row, NEW b \in Row, NEW c \in Row, NEW h \in Row
  PROVE  Join(Join(a, Join(b, h)), c) = Join(Join(a, b), Join(h, c))
BY JoinAssociative, JoinType

LEMMA MoveToTaken ==
  ASSUME NEW t \in Row, NEW s \in Row, NEW r \in Row, NEW g \in Row, NEW y \in Row,
         NEW h \in Row
  PROVE  Whole(Join(t, h), s, r, g, y) = Whole(t, Join(h, s), r, g, y)
<1>1. Join(Join(t, h), s) = Join(t, Join(h, s))
  BY JoinAssociative
<1> QED BY <1>1 DEF Whole

LEMMA MoveToSent ==
  ASSUME NEW t \in Row, NEW s \in Row, NEW r \in Row, NEW g \in Row, NEW y \in Row
  PROVE  Whole(t, Join(s, r), <<>>, g, y) = Whole(t, s, r, g, y)
<1>1. Join(Join(t, Join(s, r)), <<>>) = Join(Join(t, s), r)
  BY JoinAssociative, JoinEmpty, JoinType
<1> QED BY <1>1 DEF Whole

LEMMA MoveToQueued ==
  ASSUME NEW t \in Row, NEW s \in Row, NEW r \in Row, NEW g \in Row, NEW y \in Row,
         NEW h \in Row
  PROVE  Whole(t, s, Join(r, h), g, y) = Whole(t, s, r, Join(h, g), y)
<1>1. Join(t, s) \in Row
  BY JoinType
<1> QED BY <1>1, JoinMoves DEF Whole

LEMMA MoveToGiven ==
  ASSUME NEW t \in Row, NEW s \in Row, NEW r \in Row, NEW g \in Row, NEW y \in Row,
         NEW h \in Row
  PROVE  Whole(t, s, r, Join(g, h), y) = Whole(t, s, r, g, Join(h, y))
<1>1. Join(Join(t, s), r) \in Row
  BY JoinType
<1> QED BY <1>1, JoinMoves DEF Whole

(* What is first in a part is lost, or the whole queue. *)
LEMMA WholeLoses ==
  ASSUME NEW t \in Row, NEW s \in Row, NEW r \in Row, NEW g \in Row, NEW y \in Row,
         NEW h \in Row
  PROVE  /\ Thins(Whole(t, Join(h, s), r, g, y), Whole(t, s, r, g, y))
         /\ Thins(Whole(t, s, r, g, y), Whole(t, s, <<>>, g, y))
         /\ Thins(Whole(t, s, r, Join(h, g), y), Whole(t, s, r, g, y))
         /\ Thins(Whole(t, s, r, g, Join(h, y)), Whole(t, s, r, g, y))
<1> DEFINE ts == Join(t, s)
           tsr == Join(ts, r)
           tsrg == Join(tsr, g)
           gy == Join(g, y)
           rgy == Join(r, gy)
           srgy == Join(s, rgy)
<1>1. /\ ts \in Row /\ tsr \in Row /\ tsrg \in Row
      /\ gy \in Row /\ rgy \in Row /\ srgy \in Row
  BY JoinType
<1>2. ASSUME NEW a \in Row PROVE Join(Join(a, g), y) = Join(a, gy)
  BY JoinAssociative
<1>3. ASSUME NEW a \in Row PROVE Join(Join(Join(a, r), g), y) = Join(a, rgy)
  <2> HIDE DEF gy
  <2> QED BY <1>1, <1>2, JoinAssociative, JoinType
<1>4. ASSUME NEW a \in Row PROVE Join(Join(Join(Join(a, s), r), g), y) = Join(a, srgy)
  <2> HIDE DEF rgy
  <2> QED BY <1>1, <1>3, JoinAssociative, JoinType
<1>5. Join(t, Join(h, s)) = Join(Join(t, h), s) /\ Join(t, h) \in Row
  BY JoinAssociative, JoinType
<1>6. Whole(t, Join(h, s), r, g, y) = Join(Join(t, h), srgy) /\ Whole(t, s, r, g, y) = Join(t, srgy)
  <2> HIDE DEF srgy
  <2> QED BY <1>4, <1>5 DEF Whole
<1>7. Whole(t, s, <<>>, g, y) = Join(ts, gy) /\ Whole(t, s, r, g, y) = Join(Join(ts, r), gy)
  <2>1. Join(ts, <<>>) = ts
    BY <1>1, JoinEmpty
  <2> HIDE DEF gy
  <2> QED BY <1>1, <1>2, <2>1 DEF Whole
<1>8. Whole(t, s, r, Join(h, g), y) = Join(Join(tsr, h), gy) /\ Whole(t, s, r, g, y) = Join(tsr, gy)
  <2>1. Join(tsr, Join(h, g)) = Join(Join(tsr, h), g) /\ Join(tsr, h) \in Row
    <3> HIDE DEF tsr
    <3> QED BY <1>1, JoinAssociative, JoinType
  <2> HIDE DEF gy
  <2> QED BY <1>1, <1>2, <2>1 DEF Whole
<1>9. /\ Whole(t, s, r, g, Join(h, y)) = Join(Join(tsrg, h), y)
      /\ Whole(t, s, r, g, y) = Join(tsrg, y)
  <2>1. Join(tsrg, Join(h, y)) = Join(Join(tsrg, h), y)
    <3> HIDE DEF tsrg
    <3> QED BY <1>1, JoinAssociative
  <2> QED BY <2>1 DEF Whole
<1> HIDE DEF ts, tsr, tsrg, gy, rgy, srgy
<1> QED BY <1>1, <1>6, <1>7, <1>8, <1>9, ThinsByJoin

(* Something that is no command comes in. *)
LEMMA WholeGains ==
  ASSUME NEW t \in Row, NEW s \in Row, NEW r \in Row, NEW g \in Row, NEW y \in Row
  PROVE  /\ Thins(Whole(t, s, r, g, y), Whole(Join(t, <<Nil>>), s, r, g, y))
         /\ Thins(Whole(t, s, r, g, y), Whole(t, Join(s, <<Nil>>), r, g, y))
<1> DEFINE rgy == Join(r, Join(g, y))
           srgy == Join(s, rgy)
           ts == Join(t, s)
           hole == <<Nil>>
<1>1. /\ ts \in Row /\ rgy \in Row /\ srgy \in Row /\ <<>> \in Row
  BY JoinType, JoinEmpty
<1>2. hole \in Row
  BY NoCommand, OneCommand DEF Row
<1>3. ASSUME NEW a \in Row PROVE Join(Join(Join(a, r), g), y) = Join(a, rgy)
  BY JoinAssociative, JoinType
<1>4. ASSUME NEW a \in Row PROVE Join(Join(Join(Join(a, s), r), g), y) = Join(a, srgy)
  <2> HIDE DEF rgy
  <2> QED BY <1>1, <1>3, JoinAssociative, JoinType
<1>5. Join(ts, <<>>) = ts /\ Join(t, <<>>) = t
  BY <1>1, JoinEmpty
<1> HIDE DEF hole
<1>6. Join(t, hole) \in Row /\ Join(t, Join(s, hole)) = Join(ts, hole) /\ Join(ts, hole) \in Row
  BY <1>1, <1>2, JoinAssociative, JoinType
<1>7. /\ Whole(t, s, r, g, y) = Join(Join(t, <<>>), srgy)
      /\ Whole(Join(t, hole), s, r, g, y) = Join(Join(t, hole), srgy)
  <2> HIDE DEF srgy
  <2> QED BY <1>4, <1>5, <1>6 DEF Whole
<1>8. /\ Whole(t, s, r, g, y) = Join(Join(ts, <<>>), rgy)
      /\ Whole(t, Join(s, hole), r, g, y) = Join(Join(ts, hole), rgy)
  <2> HIDE DEF rgy
  <2> QED BY <1>1, <1>3, <1>5, <1>6 DEF Whole
<1> HIDE DEF ts, rgy, srgy
<1> QED BY <1>1, <1>7, <1>8, ThinsByJoin DEF hole

-----------------------------------------------------------------------------
(* What a step does to the parts of the pipelines.                         *)

Requests == {RequestLeader} \cup {RequestClient(cmd) : cmd \in Cmd}

Orders(c) ==
  {ControllerRequest(line.name, line.arg) : line \in {l \in Typed : c \in Addressees(l)}}

Acceptance == [node : Node, client : Client, cmd : Cmd]

(* The commands in a queue, when f says which command an element is.       *)
Read(f, q) == [i \in DOMAIN q |-> f[q[i]]]

TakenAs(n, c) == [a \in Acceptance |-> IF a.node = n /\ a.client = c THEN a.cmd ELSE Nil]

SentAs == [rpc \in Requests |-> IF rpc.type = "REQUEST_CLIENT" THEN rpc.message ELSE Nil]

GivenAs(c) ==
  [order \in Orders(c) |-> IF order.request = "ENTRY" THEN order.message ELSE Nil]

TypedAs(c) ==
  [line \in Typed |->
     IF line.name = "ENTRY" /\ c \in Addressees(line) THEN line.arg ELSE Nil]

LEMMA ReadType ==
  ASSUME NEW S, NEW f \in [S -> Place], NEW q \in Seq(S)
  PROVE  Read(f, q) \in Row /\ Len(Read(f, q)) = Len(q)
<1>1. DOMAIN q = 1 .. Len(q) /\ Len(q) \in Nat /\ \A i \in 1 .. Len(q) : q[i] \in S
  OBVIOUS
<1>2. Read(f, q) = [i \in 1 .. Len(q) |-> f[q[i]]]
  BY <1>1 DEF Read
<1>3. \A i \in 1 .. Len(q) : f[q[i]] \in Place
  BY <1>1
<1> QED BY <1>1, <1>2, <1>3 DEF Row

LEMMA ReadJoin ==
  ASSUME NEW S, NEW f \in [S -> Place], NEW q \in Seq(S), NEW r \in Seq(S)
  PROVE  Read(f, q \o r) = Join(Read(f, q), Read(f, r))
<1> DEFINE x == q \o r
           y == Read(f, q) \o Read(f, r)
<1>1. /\ Read(f, q) \in Seq(Place) /\ Len(Read(f, q)) = Len(q)
      /\ Read(f, r) \in Seq(Place) /\ Len(Read(f, r)) = Len(r)
  BY ReadType DEF Row
<1>2. /\ DOMAIN x = 1 .. Len(q) + Len(r) /\ Len(q) \in Nat /\ Len(r) \in Nat
      /\ DOMAIN q = 1 .. Len(q) /\ DOMAIN r = 1 .. Len(r)
      /\ \A i \in 1 .. Len(q) : x[i] = q[i]
      /\ \A i \in 1 .. Len(r) : x[Len(q) + i] = r[i]
  BY JoinPositions
<1>3. /\ y \in Seq(Place) /\ DOMAIN y = 1 .. Len(q) + Len(r)
      /\ \A i \in 1 .. Len(q) : y[i] = Read(f, q)[i]
      /\ \A i \in 1 .. Len(r) : y[Len(q) + i] = Read(f, r)[i]
  <2>1. ASSUME NEW a \in Seq(Place), NEW b \in Seq(Place), Len(a) = Len(q), Len(b) = Len(r)
        PROVE  /\ a \o b \in Seq(Place) /\ DOMAIN (a \o b) = 1 .. Len(q) + Len(r)
               /\ \A i \in 1 .. Len(q) : (a \o b)[i] = a[i]
               /\ \A i \in 1 .. Len(r) : (a \o b)[Len(q) + i] = b[i]
    <3>1. /\ a \o b \in Seq(Place) /\ DOMAIN (a \o b) = 1 .. Len(a) + Len(b)
          /\ \A i \in 1 .. Len(a) : (a \o b)[i] = a[i]
          /\ \A i \in 1 .. Len(b) : (a \o b)[Len(a) + i] = b[i]
      BY JoinPositions
    <3> QED BY <2>1, <3>1
  <2> QED BY <1>1, <2>1
<1>4. /\ \A i \in 1 .. Len(q) : Read(f, q)[i] = f[q[i]]
      /\ \A i \in 1 .. Len(r) : Read(f, r)[i] = f[r[i]]
  BY <1>2 DEF Read
<1>5. /\ DOMAIN Read(f, x) = 1 .. Len(q) + Len(r)
      /\ \A i \in 1 .. Len(q) + Len(r) : Read(f, x)[i] = f[x[i]]
  BY <1>2 DEF Read
<1> HIDE DEF x, y
<1>6. ASSUME NEW i \in 1 .. Len(q) + Len(r) PROVE Read(f, x)[i] = y[i]
  <2>1. CASE i \in 1 .. Len(q)
    BY <1>2, <1>3, <1>4, <1>5, <2>1
  <2>2. CASE i \notin 1 .. Len(q)
    <3>1. i - Len(q) \in 1 .. Len(r) /\ Len(q) + (i - Len(q)) = i
      BY <1>2, <2>2
    <3>2. x[i] = r[i - Len(q)]
      BY <1>2, <3>1
    <3>3. y[i] = Read(f, r)[i - Len(q)]
      BY <1>3, <3>1
    <3> QED BY <1>4, <1>5, <3>1, <3>2, <3>3
  <2> QED BY <2>1, <2>2
<1>7. Read(f, x) = y
  <2>1. Read(f, x) = [i \in DOMAIN x |-> Read(f, x)[i]]
    BY DEF Read
  <2>2. y = [i \in 1 .. Len(q) + Len(r) |-> y[i]]
    BY <1>3
  <2> QED BY <1>2, <1>6, <2>1, <2>2
<1> QED BY <1>7 DEF x, y, Join

LEMMA ReadOne ==
  ASSUME NEW S, NEW f \in [S -> Place], NEW e \in S
  PROVE  Read(f, <<e>>) = <<f[e]>> /\ f[e] \in Place
BY DEF Read

LEMMA HeadAndTail ==
  ASSUME NEW S, NEW q \in Seq(S), q # <<>>
  PROVE  Head(q) \in S /\ Tail(q) \in Seq(S) /\ q = <<Head(q)>> \o Tail(q)
OBVIOUS

LEMMA AppendIsJoin ==
  ASSUME NEW S, NEW q \in Seq(S), NEW e \in S
  PROVE  Append(q, e) = q \o <<e>> /\ <<e>> \in Seq(S)
OBVIOUS

(* Reading a queue that loses its head, and one that gets more. *)
LEMMA ReadHead ==
  ASSUME NEW S, NEW f \in [S -> Place], NEW q \in Seq(S), q # <<>>
  PROVE  /\ Head(q) \in S /\ f[Head(q)] \in Place
         /\ Read(f, q) = Join(<<f[Head(q)]>>, Read(f, Tail(q)))
<1>1. Head(q) \in S /\ Tail(q) \in Seq(S) /\ q = <<Head(q)>> \o Tail(q)
  BY HeadAndTail
<1>2. <<Head(q)>> \in Seq(S)
  BY <1>1
<1>3. Read(f, <<Head(q)>> \o Tail(q)) = Join(Read(f, <<Head(q)>>), Read(f, Tail(q)))
  BY <1>1, <1>2, ReadJoin
<1>4. Read(f, <<Head(q)>>) = <<f[Head(q)]>> /\ f[Head(q)] \in Place
  BY <1>1, ReadOne
<1> QED BY <1>1, <1>3, <1>4

LEMMA ReadMore ==
  ASSUME NEW S, NEW f \in [S -> Place], NEW q \in Seq(S), NEW e \in S
  PROVE  Read(f, Append(q, e)) = Join(Read(f, q), <<f[e]>>)
<1>1. Append(q, e) = q \o <<e>> /\ <<e>> \in Seq(S)
  BY AppendIsJoin
<1>2. Read(f, q \o <<e>>) = Join(Read(f, q), Read(f, <<e>>))
  BY <1>1, ReadJoin
<1> QED BY <1>1, <1>2, ReadOne

(* The four parts that are read off other queues. *)
LEMMA TakenIsRead ==
  ASSUME NEW n \in Node, NEW c \in Client, NEW q \in Seq(Acceptance)
  PROVE  /\ TakenAs(n, c) \in [Acceptance -> Place]
         /\ [i \in DOMAIN q |->
               IF q[i].node = n /\ q[i].client = c THEN q[i].cmd ELSE Nil]
              = Read(TakenAs(n, c), q)
<1>1. TakenAs(n, c) \in [Acceptance -> Place]
  BY DEF TakenAs, Acceptance, Place
<1>2. \A i \in DOMAIN q : q[i] \in Acceptance
  OBVIOUS
<1>3. \A i \in DOMAIN q :
        TakenAs(n, c)[q[i]] = IF q[i].node = n /\ q[i].client = c THEN q[i].cmd ELSE Nil
  BY <1>2 DEF TakenAs
<1> QED BY <1>1, <1>3 DEF Read

LEMMA SentIsRead ==
  ASSUME NEW q \in Seq(Requests)
  PROVE  /\ SentAs \in [Requests -> Place]
         /\ [i \in DOMAIN q |-> IF q[i].type = "REQUEST_CLIENT" THEN q[i].message ELSE Nil]
              = Read(SentAs, q)
<1>1. SentAs \in [Requests -> Place]
  BY DEF SentAs, Requests, RequestLeader, RequestClient, Place
<1>2. \A i \in DOMAIN q : q[i] \in Requests
  OBVIOUS
<1>3. \A i \in DOMAIN q :
        SentAs[q[i]] = IF q[i].type = "REQUEST_CLIENT" THEN q[i].message ELSE Nil
  BY <1>2 DEF SentAs
<1> QED BY <1>1, <1>3 DEF Read

(* An ENTRY line that has an addressee has a command. *)
LEMMA EntriesHaveCommands ==
  ASSUME NEW line \in Typed, NEW c \in Client, c \in Addressees(line), line.name = "ENTRY"
  PROVE  line.arg \in Cmd /\ Addressees(line) = {c}
<1>1. line.arg \in Cmd \cup {Nil}
  BY ScriptsAssumption DEF Typed
<1>2. line.arg # Nil /\ Addressees(line) = {line.rank} \cap Client
  BY DEF Addressees
<1> QED BY <1>1, <1>2

LEMMA GivenIsRead ==
  ASSUME NEW c \in Client, NEW q \in Seq(Orders(c))
  PROVE  /\ GivenAs(c) \in [Orders(c) -> Place]
         /\ [i \in DOMAIN q |-> IF q[i].request = "ENTRY" THEN q[i].message ELSE Nil]
              = Read(GivenAs(c), q)
<1>1. ASSUME NEW order \in Orders(c), order.request = "ENTRY" PROVE order.message \in Place
  <2>1. PICK line \in Typed :
          c \in Addressees(line) /\ order = ControllerRequest(line.name, line.arg)
    BY DEF Orders
  <2>2. line.name = "ENTRY" /\ order.message = line.arg
    BY <1>1, <2>1 DEF ControllerRequest
  <2> QED BY <2>1, <2>2, EntriesHaveCommands DEF Place
<1>2. GivenAs(c) \in [Orders(c) -> Place]
  BY <1>1 DEF GivenAs, Place
<1>3. \A i \in DOMAIN q : q[i] \in Orders(c)
  OBVIOUS
<1>4. \A i \in DOMAIN q :
        GivenAs(c)[q[i]] = IF q[i].request = "ENTRY" THEN q[i].message ELSE Nil
  BY <1>3 DEF GivenAs
<1> QED BY <1>2, <1>4 DEF Read

LEMMA TypedIsRead ==
  ASSUME NEW c \in Client, NEW q \in Seq(Typed)
  PROVE  /\ TypedAs(c) \in [Typed -> Place]
         /\ [i \in DOMAIN q |->
               IF q[i].name = "ENTRY" /\ c \in Addressees(q[i]) THEN q[i].arg ELSE Nil]
              = Read(TypedAs(c), q)
<1>1. TypedAs(c) \in [Typed -> Place]
  BY EntriesHaveCommands DEF TypedAs, Place
<1>2. \A i \in DOMAIN q : q[i] \in Typed
  OBVIOUS
<1>3. \A i \in DOMAIN q :
        TypedAs(c)[q[i]]
          = IF q[i].name = "ENTRY" /\ c \in Addressees(q[i]) THEN q[i].arg ELSE Nil
  BY <1>2 DEF TypedAs
<1> QED BY <1>1, <1>3 DEF Read

(* The queues that are read, and what they are. *)
LEMMA QueuesRead ==
  ASSUME NEW L, NEW net, QueuesOf(net, L), NEW c \in Client
  PROVE  /\ net[Root][c] \in Seq(Orders(c))
         /\ \A n \in Node : net[c][n] \in Seq(Requests)
<1>1. c \in Process /\ Node \subseteq Process /\ Root \in Process /\ c # Root
  BY RankAssumption DEF Process
<1>2. Allowed(Root, c, L) = Orders(c) /\ \A n \in Node : Allowed(c, n, L) \subseteq Requests
  BY <1>1, OrderedAreCommands DEF Allowed, Requests, Orders
<1> QED BY <1>1, <1>2, SeqMonotone DEF QueuesOf

(* The parts of a client alone, and of a client and a node. *)
LEMMA ClientParts ==
  ASSUME SystemInv, NEW c \in Client
  PROVE  /\ link[Root][c] \in Seq(Orders(c)) /\ lines \in Seq(Typed)
         /\ GivenAs(c) \in [Orders(c) -> Place] /\ TypedAs(c) \in [Typed -> Place]
         /\ CommandsGiven(c) = Read(GivenAs(c), link[Root][c])
         /\ CommandsTyped(c) = Read(TypedAs(c), lines)
         /\ request[c] \in Seq(Cmd) /\ request[c] \in Row
         /\ CommandsGiven(c) \in Row /\ CommandsTyped(c) \in Row
<1>1. lines \in Seq(Typed) /\ request[c] \in Seq(Cmd) /\ QueuesOf(link, led)
  BY DEF SystemInv, StateTyped
<1>2. link[Root][c] \in Seq(Orders(c))
  BY <1>1, QueuesRead
<1>3. /\ CommandsGiven(c) = Read(GivenAs(c), link[Root][c])
      /\ GivenAs(c) \in [Orders(c) -> Place]
  BY <1>2, GivenIsRead DEF CommandsGiven
<1>4. CommandsTyped(c) = Read(TypedAs(c), lines) /\ TypedAs(c) \in [Typed -> Place]
  BY <1>1, TypedIsRead DEF CommandsTyped
<1>5. request[c] \in Row
  <2>1. Cmd \subseteq Place
    BY DEF Place
  <2> QED BY <1>1, <2>1, SeqMonotone DEF Row
<1> QED BY <1>1, <1>2, <1>3, <1>4, <1>5, ReadType

LEMMA Parts ==
  ASSUME SystemInv, NEW n \in Node, NEW c \in Client
  PROVE  /\ accepted \in Seq(Acceptance) /\ link[c][n] \in Seq(Requests)
         /\ TakenAs(n, c) \in [Acceptance -> Place] /\ SentAs \in [Requests -> Place]
         /\ CommandsTaken(n, c) = Read(TakenAs(n, c), accepted)
         /\ CommandsSent(c, n) = Read(SentAs, link[c][n])
         /\ CommandsTaken(n, c) \in Row /\ CommandsSent(c, n) \in Row
         /\ Pipeline(n, c) = Whole(CommandsTaken(n, c), CommandsSent(c, n), request[c],
                                   CommandsGiven(c), CommandsTyped(c))
<1>1. accepted \in Seq(Acceptance) /\ QueuesOf(link, led)
  BY DEF SystemInv, StateTyped, Acceptance
<1>2. link[c][n] \in Seq(Requests)
  BY <1>1, QueuesRead
<1>3. /\ CommandsTaken(n, c) = Read(TakenAs(n, c), accepted)
      /\ TakenAs(n, c) \in [Acceptance -> Place]
  BY <1>1, TakenIsRead DEF CommandsTaken
<1>4. CommandsSent(c, n) = Read(SentAs, link[c][n]) /\ SentAs \in [Requests -> Place]
  BY <1>2, SentIsRead DEF CommandsSent
<1>5. Pipeline(n, c) = Whole(CommandsTaken(n, c), CommandsSent(c, n), request[c],
                             CommandsGiven(c), CommandsTyped(c))
  BY DEF Pipeline, Whole, Join
<1> QED BY <1>1, <1>2, <1>3, <1>4, <1>5, ReadType

(* The same of the parts after a step. *)
LEMMA ClientPartsNext ==
  ASSUME SystemInv', NEW c \in Client
  PROVE  /\ link'[Root][c] \in Seq(Orders(c)) /\ lines' \in Seq(Typed)
         /\ GivenAs(c) \in [Orders(c) -> Place] /\ TypedAs(c) \in [Typed -> Place]
         /\ CommandsGiven(c)' = Read(GivenAs(c), link'[Root][c])
         /\ CommandsTyped(c)' = Read(TypedAs(c), lines')
         /\ request'[c] \in Seq(Cmd) /\ request'[c] \in Row
         /\ CommandsGiven(c)' \in Row /\ CommandsTyped(c)' \in Row
<1>1. lines' \in Seq(Typed) /\ request'[c] \in Seq(Cmd) /\ QueuesOf(link', led')
  BY DEF SystemInv, StateTyped
<1>2. link'[Root][c] \in Seq(Orders(c))
  BY <1>1, QueuesRead
<1>3. /\ CommandsGiven(c)' = Read(GivenAs(c), link'[Root][c])
      /\ GivenAs(c) \in [Orders(c) -> Place]
  BY <1>2, GivenIsRead DEF CommandsGiven
<1>4. CommandsTyped(c)' = Read(TypedAs(c), lines') /\ TypedAs(c) \in [Typed -> Place]
  BY <1>1, TypedIsRead DEF CommandsTyped
<1>5. request'[c] \in Row
  <2>1. Cmd \subseteq Place
    BY DEF Place
  <2> QED BY <1>1, <2>1, SeqMonotone DEF Row
<1> QED BY <1>1, <1>2, <1>3, <1>4, <1>5, ReadType

LEMMA PartsNext ==
  ASSUME SystemInv', NEW n \in Node, NEW c \in Client
  PROVE  /\ accepted' \in Seq(Acceptance) /\ link'[c][n] \in Seq(Requests)
         /\ TakenAs(n, c) \in [Acceptance -> Place] /\ SentAs \in [Requests -> Place]
         /\ CommandsTaken(n, c)' = Read(TakenAs(n, c), accepted')
         /\ CommandsSent(c, n)' = Read(SentAs, link'[c][n])
         /\ CommandsTaken(n, c)' \in Row /\ CommandsSent(c, n)' \in Row
         /\ Pipeline(n, c)' = Whole(CommandsTaken(n, c)', CommandsSent(c, n)', request'[c],
                                   CommandsGiven(c)', CommandsTyped(c)')
<1>1. accepted' \in Seq(Acceptance) /\ QueuesOf(link', led')
  BY DEF SystemInv, StateTyped, Acceptance
<1>2. link'[c][n] \in Seq(Requests)
  BY <1>1, QueuesRead
<1>3. /\ CommandsTaken(n, c)' = Read(TakenAs(n, c), accepted')
      /\ TakenAs(n, c) \in [Acceptance -> Place]
  BY <1>1, TakenIsRead DEF CommandsTaken
<1>4. CommandsSent(c, n)' = Read(SentAs, link'[c][n]) /\ SentAs \in [Requests -> Place]
  BY <1>2, SentIsRead DEF CommandsSent
<1>5. Pipeline(n, c)' = Whole(CommandsTaken(n, c)', CommandsSent(c, n)', request'[c],
                             CommandsGiven(c)', CommandsTyped(c)')
  BY DEF Pipeline, Whole, Join
<1> QED BY <1>1, <1>2, <1>3, <1>4, <1>5, ReadType

-----------------------------------------------------------------------------
(* The moves of commands.  Each leaves the parts that it does not name as  *)
(* they are.                                                               *)

TakenStays == UNCHANGED accepted

SentStays(A) ==
  \A c \in Client, n \in Node : <<c, n>> \notin A => CommandsSent(c, n)' = CommandsSent(c, n)

QueuedStays(C) == \A c \in Client \ C : request'[c] = request[c]

GivenStays(C) == \A c \in Client \ C : CommandsGiven(c)' = CommandsGiven(c)

TypedStays == \A c \in Client : CommandsTyped(c)' = CommandsTyped(c)

(* The operator gives the next line: h says which command to whom. *)
GiveMove(h) ==
  /\ TakenStays /\ SentStays({}) /\ QueuedStays({})
  /\ h \in [Client -> Place]
  /\ \A c, d \in Client : h[c] # Nil /\ h[d] # Nil => c = d
  /\ \A c \in Client :
       /\ CommandsTyped(c) = Join(<<h[c]>>, CommandsTyped(c)')
       /\ \/ CommandsGiven(c)' = Join(CommandsGiven(c), <<h[c]>>)
          \/ CommandsGiven(c)' = CommandsGiven(c) /\ h[c] = Nil

(* A client queues what it is given. *)
QueueMove(c, h) ==
  /\ TakenStays /\ SentStays({}) /\ QueuedStays({c}) /\ GivenStays({c}) /\ TypedStays
  /\ CommandsGiven(c) = Join(<<h>>, CommandsGiven(c)')
  /\ \/ request'[c] = Join(request[c], <<h>>)
     \/ request'[c] = request[c] /\ h = Nil

(* It sends all that it has queued. *)
SendMove(c, n) ==
  /\ TakenStays /\ SentStays({<<c, n>>}) /\ QueuedStays({c}) /\ GivenStays({}) /\ TypedStays
  /\ CommandsSent(c, n)' = Join(CommandsSent(c, n), request[c])
  /\ request'[c] = <<>>

(* It asks who leads. *)
AskMove(c, n) ==
  /\ TakenStays /\ SentStays({<<c, n>>}) /\ QueuedStays({}) /\ GivenStays({}) /\ TypedStays
  /\ CommandsSent(c, n)' = Join(CommandsSent(c, n), <<Nil>>)

(* A node takes a command into its log. *)
TakeMove(n, c, h) ==
  /\ SentStays({<<c, n>>}) /\ QueuedStays({}) /\ GivenStays({}) /\ TypedStays
  /\ CommandsSent(c, n) = Join(<<h>>, CommandsSent(c, n)')
  /\ h \in Cmd
  /\ accepted' = Append(accepted, [node |-> n, client |-> c, cmd |-> h])

(* A node drops a request, or answers a question. *)
LoseMove(c, n, h) ==
  /\ TakenStays /\ SentStays({<<c, n>>}) /\ QueuedStays({}) /\ GivenStays({}) /\ TypedStays
  /\ CommandsSent(c, n) = Join(<<h>>, CommandsSent(c, n)')

NoMove ==
  TakenStays /\ SentStays({}) /\ QueuedStays({}) /\ GivenStays({}) /\ TypedStays

Move ==
  \/ \E h \in [Client -> Place] : GiveMove(h)
  \/ \E c \in Client, h \in Place : QueueMove(c, h)
  \/ \E c \in Client, n \in Node : SendMove(c, n) \/ AskMove(c, n)
  \/ \E c \in Client, n \in Node, h \in Place : TakeMove(n, c, h) \/ LoseMove(c, n, h)
  \/ NoMove

(* The queues after a message is taken, and after some are sent. *)
LEMMA TakenPoints ==
  ASSUME NEW L, QueuesOf(link, L), NEW s \in Process, NEW d \in Process
  PROVE  \A a, b \in Process :
           Taken(s, d)[a][b] = IF a = s /\ b = d THEN Tail(link[s][d]) ELSE link[a][b]
BY DEF QueuesOf, Taken

LEMMA SentPoints ==
  ASSUME NEW L, NEW net, QueuesOf(net, L), NEW s \in Process, NEW d \in Process, NEW rpcs
  PROVE  \A a, b \in Process :
           SendEach(net, s, d, rpcs)[a][b]
             = IF a = s /\ b = d THEN net[s][d] \o rpcs ELSE net[a][b]
BY DEF QueuesOf, SendEach

LEMMA Ranks ==
  /\ Root \in Process /\ \A n \in Node : n \in Process /\ n # Root
  /\ \A c \in Client : c \in Process /\ c # Root
  /\ \A n \in Node, c \in Client : n # c
BY RankAssumption DEF Process

(* Where the queues stay the parts that are read off them stay. *)
LEMMA QueuesStay ==
  ASSUME NEW A, NEW C,
         \A c \in Client, n \in Node : <<c, n>> \notin A => link'[c][n] = link[c][n],
         \A c \in Client \ C : link'[Root][c] = link[Root][c]
  PROVE  SentStays(A) /\ GivenStays(C)
BY DEF SentStays, GivenStays, CommandsSent, CommandsGiven

LEMMA LineGives ==
  ASSUME SystemInv, SystemInv', ReadLine, UNCHANGED <<clientVars, clusterVars, accepted>>
  PROVE  \E h \in [Client -> Place] : GiveMove(h)
<1> DEFINE line == Head(lines)
           order == ControllerRequest(line.name, line.arg)
           h == [c \in Client |-> TypedAs(c)[line]]
<1>1. /\ line \in Typed /\ Tail(lines) \in Seq(Typed) /\ lines # <<>> /\ lines' = Tail(lines)
      /\ lines \in Seq(Typed)
  BY DEF SystemInv, ReadLine
<1>2. \A s, d \in Process :
        link'[s][d] = IF s = Root /\ d \in Addressees(line)
                      THEN Append(link[s][d], order) ELSE link[s][d]
  BY DEF SystemInv, QueuesOf, ReadLine, Process
<1>3. \A c \in Client :
        h[c] = IF line.name = "ENTRY" /\ c \in Addressees(line) THEN line.arg ELSE Nil
  BY <1>1 DEF TypedAs
<1>4. h \in [Client -> Place]
  <2>1. \A c \in Client : h[c] \in Place
    BY <1>1, <1>3, EntriesHaveCommands DEF Place
  <2> QED BY <2>1
<1>5. \A c, d \in Client : h[c] # Nil /\ h[d] # Nil => c = d
  <2> SUFFICES ASSUME NEW c \in Client, NEW d \in Client, h[c] # Nil, h[d] # Nil
               PROVE  c = d
    OBVIOUS
  <2>1. line.name = "ENTRY" /\ c \in Addressees(line) /\ d \in Addressees(line)
    BY <1>3
  <2>2. Addressees(line) = {c}
    BY <1>1, <2>1, EntriesHaveCommands
  <2> QED BY <2>1, <2>2
<1> HIDE DEF h
<1>6. ASSUME NEW c \in Client
      PROVE  /\ CommandsTyped(c) = Join(<<h[c]>>, CommandsTyped(c)')
             /\ \/ CommandsGiven(c)' = Join(CommandsGiven(c), <<h[c]>>)
                \/ CommandsGiven(c)' = CommandsGiven(c) /\ h[c] = Nil
  <2>1. /\ CommandsTyped(c) = Read(TypedAs(c), lines)
        /\ CommandsTyped(c)' = Read(TypedAs(c), Tail(lines))
        /\ TypedAs(c) \in [Typed -> Place]
    BY <1>1, ClientParts, ClientPartsNext
  <2>2. CommandsTyped(c) = Join(<<h[c]>>, CommandsTyped(c)')
    <3>1. Read(TypedAs(c), lines) = Join(<<TypedAs(c)[line]>>, Read(TypedAs(c), Tail(lines)))
      BY <1>1, <2>1, ReadHead
    <3>2. h[c] = TypedAs(c)[line]
      BY DEF h
    <3> QED BY <2>1, <3>1, <3>2
  <2>3. CASE c \in Addressees(line)
    <3>1. link'[Root][c] = Append(link[Root][c], order)
      BY <1>2, <2>3, Ranks
    <3>2. order \in Orders(c)
      BY <1>1, <2>3 DEF Orders
    <3>3. /\ link[Root][c] \in Seq(Orders(c)) /\ GivenAs(c) \in [Orders(c) -> Place]
          /\ CommandsGiven(c) = Read(GivenAs(c), link[Root][c])
          /\ CommandsGiven(c)' = Read(GivenAs(c), Append(link[Root][c], order))
      BY <3>1, ClientParts, ClientPartsNext
    <3>4. GivenAs(c)[order] = h[c]
      <4>1. order.request = line.name /\ order.message = line.arg
        BY DEF ControllerRequest
      <4>2. GivenAs(c)[order] = IF order.request = "ENTRY" THEN order.message ELSE Nil
        BY <3>2 DEF GivenAs
      <4> QED BY <1>3, <2>3, <4>1, <4>2
    <3>5. Read(GivenAs(c), Append(link[Root][c], order))
            = Join(Read(GivenAs(c), link[Root][c]), <<GivenAs(c)[order]>>)
      BY <3>2, <3>3, ReadMore
    <3> QED BY <2>2, <3>3, <3>4, <3>5
  <2>4. CASE c \notin Addressees(line)
    <3>1. link'[Root][c] = link[Root][c] /\ h[c] = Nil
      BY <1>2, <1>3, <2>4, Ranks
    <3> QED BY <2>2, <3>1 DEF CommandsGiven
  <2> QED BY <2>3, <2>4
<1>7. SentStays({})
  <2>1. \A c \in Client, n \in Node : link'[c][n] = link[c][n]
    BY <1>2, Ranks
  <2> QED BY <2>1 DEF SentStays, CommandsSent
<1>8. TakenStays /\ QueuedStays({})
  BY DEF TakenStays, QueuedStays, clientVars
<1> QED BY <1>4, <1>5, <1>6, <1>7, <1>8 DEF GiveMove

LEMMA OrderQueues ==
  ASSUME SystemInv, SystemInv', NEW c \in Client, ClientTakesOrder(c),
         UNCHANGED <<lines, clusterVars, accepted>>
  PROVE  \E h \in Place : QueueMove(c, h)
<1> DEFINE q == link[Root][c]
           order == Head(q)
           h == GivenAs(c)[order]
<1>1. /\ q \in Seq(Orders(c)) /\ q # <<>> /\ GivenAs(c) \in [Orders(c) -> Place]
      /\ CommandsGiven(c) = Read(GivenAs(c), q)
  BY ClientParts DEF ClientTakesOrder, Waiting
<1>2. link'[Root][c] = Tail(q) /\ CommandsGiven(c)' = Read(GivenAs(c), link'[Root][c])
  <2>1. link'[Root][c] = Tail(q)
    BY TakenPoints, Ranks DEF SystemInv, ClientTakesOrder
  <2> QED BY <2>1, ClientPartsNext
<1>3. order \in Orders(c) /\ h \in Place /\ CommandsGiven(c) = Join(<<h>>, CommandsGiven(c)')
  <2>1. /\ order \in Orders(c) /\ GivenAs(c)[order] \in Place
        /\ Read(GivenAs(c), q) = Join(<<GivenAs(c)[order]>>, Read(GivenAs(c), Tail(q)))
    <3> HIDE DEF q
    <3> QED BY <1>1, ReadHead
  <2> QED BY <1>1, <1>2, <2>1
<1>4. \/ request'[c] = Join(request[c], <<h>>)
      \/ request'[c] = request[c] /\ h = Nil
  <2>1. request \in [Client -> Seq(Cmd)]
    BY DEF SystemInv, StateTyped
  <2>2. request'[c] = QueueAfter(request[c], order)
    BY <2>1 DEF ClientTakesOrder, NextFrom
  <2>3. h = IF order.request = "ENTRY" THEN order.message ELSE Nil
    BY <1>3 DEF GivenAs
  <2>4. order.request = "ENTRY" => order.message \in Cmd
    BY OrderTyped DEF ClientTakesOrder, NextFrom
  <2> HIDE DEF h, order
  <2>5. CASE order.request = "ENTRY"
    <3>1. request'[c] = Append(request[c], h) /\ h \in Cmd /\ request[c] \in Seq(Cmd)
      BY <2>1, <2>2, <2>3, <2>4, <2>5 DEF QueueAfter
    <3> QED BY <3>1, AppendIsJoin DEF Join
  <2>6. CASE order.request # "ENTRY"
    BY <2>2, <2>3, <2>6 DEF QueueAfter
  <2> QED BY <2>5, <2>6
<1>5. SentStays({}) /\ GivenStays({c})
  <2>1. \A a, b \in Process : ~(a = Root /\ b = c) => link'[a][b] = link[a][b]
    BY TakenPoints, Ranks DEF SystemInv, ClientTakesOrder
  <2>2. /\ \A k \in Client, n \in Node : <<k, n>> \notin {} => link'[k][n] = link[k][n]
        /\ \A k \in Client \ {c} : link'[Root][k] = link[Root][k]
    BY <2>1, Ranks
  <2> QED BY <2>2, QueuesStay
<1>6. TakenStays /\ QueuedStays({c}) /\ TypedStays
  BY DEF TakenStays, QueuedStays, TypedStays, CommandsTyped, ClientTakesOrder, SystemInv,
         StateTyped
<1> HIDE DEF h
<1> QED BY <1>3, <1>4, <1>5, <1>6 DEF QueueMove

(* An answer of a node that is taken moves no command. *)
LEMMA AnswerMovesNothing ==
  ASSUME NEW L, QueuesOf(link, L), NEW c \in Client, NEW n \in Node
  PROVE  /\ \A k \in Client, m \in Node : Taken(n, c)[k][m] = link[k][m]
         /\ \A k \in Client : Taken(n, c)[Root][k] = link[Root][k]
<1>1. n \in Process /\ c \in Process /\ Client \subseteq Process /\ Node \subseteq Process
      /\ Root \in Process /\ n \notin Client /\ n # Root
  BY RankAssumption DEF Process
<1> QED BY <1>1, TakenPoints

LEMMA AskMoves ==
  ASSUME SystemInv, SystemInv', NEW net, QueuesOf(net, led),
         \A k \in Client, m \in Node : net[k][m] = link[k][m],
         \A k \in Client : net[Root][k] = link[Root][k],
         NEW c \in Client, NEW n \in Node, Ask(net, c, n),
         UNCHANGED <<request, lines, accepted>>
  PROVE  AskMove(c, n) \/ NoMove
<1>1. /\ TakenStays /\ QueuedStays({}) /\ TypedStays
  BY DEF TakenStays, QueuedStays, TypedStays, CommandsTyped
<1>2. CASE link' = net
  BY <1>1, <1>2 DEF NoMove, SentStays, GivenStays, CommandsSent, CommandsGiven
<1>3. CASE link' = SendEach(net, c, n, <<RequestLeader>>)
  <2>1. \A a, b \in Process :
          link'[a][b] = IF a = c /\ b = n THEN net[c][n] \o <<RequestLeader>> ELSE net[a][b]
    BY <1>3, SentPoints, Ranks
  <2>2. /\ \A k \in Client, m \in Node : <<k, m>> \notin {<<c, n>>} => link'[k][m] = link[k][m]
        /\ \A k \in Client \ {} : link'[Root][k] = link[Root][k]
        /\ link'[c][n] = link[c][n] \o <<RequestLeader>>
    <3>1. ASSUME NEW k \in Client, NEW m \in Node, <<k, m>> \notin {<<c, n>>}
          PROVE  link'[k][m] = link[k][m]
      <4>1. ~(k = c /\ m = n) /\ k \in Process /\ m \in Process
        BY <3>1, Ranks
      <4> QED BY <2>1, <4>1
    <3>2. ASSUME NEW k \in Client PROVE link'[Root][k] = link[Root][k]
      BY <2>1, Ranks
    <3>3. link'[c][n] = link[c][n] \o <<RequestLeader>>
      BY <2>1, Ranks
    <3> QED BY <3>1, <3>2, <3>3
  <2>3. CommandsSent(c, n)' = Join(CommandsSent(c, n), <<Nil>>)
    <3>1. /\ link[c][n] \in Seq(Requests) /\ SentAs \in [Requests -> Place]
          /\ CommandsSent(c, n) = Read(SentAs, link[c][n])
          /\ CommandsSent(c, n)' = Read(SentAs, link[c][n] \o <<RequestLeader>>)
      BY <2>2, Parts, PartsNext
    <3>2. RequestLeader \in Requests /\ SentAs[RequestLeader] = Nil
      BY DEF Requests, SentAs, RequestLeader
    <3>3. <<RequestLeader>> \in Seq(Requests) /\ Read(SentAs, <<RequestLeader>>) = <<Nil>>
      BY <3>1, <3>2, ReadOne, OneTyped
    <3>4. Read(SentAs, link[c][n] \o <<RequestLeader>>)
            = Join(Read(SentAs, link[c][n]), Read(SentAs, <<RequestLeader>>))
      BY <3>1, <3>3, ReadJoin
    <3> QED BY <3>1, <3>3, <3>4
  <2>4. SentStays({<<c, n>>}) /\ GivenStays({})
    BY <2>2, QueuesStay
  <2> QED BY <1>1, <2>3, <2>4 DEF AskMove
<1> QED BY <1>2, <1>3 DEF Ask

(* Reading what was sent gives the commands that were queued. *)
LEMMA QueueIsSent ==
  ASSUME NEW q \in Seq(Cmd)
  PROVE  /\ [i \in DOMAIN q |-> RequestClient(q[i])] \in Seq(Requests)
         /\ Read(SentAs, [i \in DOMAIN q |-> RequestClient(q[i])]) = q
<1> DEFINE rpcs == [i \in DOMAIN q |-> RequestClient(q[i])]
<1>1. DOMAIN q = 1 .. Len(q) /\ Len(q) \in Nat /\ \A i \in DOMAIN q : q[i] \in Cmd
  OBVIOUS
<1>2. \A i \in DOMAIN q :
        RequestClient(q[i]) \in Requests /\ SentAs[RequestClient(q[i])] = q[i]
  BY <1>1 DEF Requests, SentAs, RequestClient
<1>3. rpcs \in Seq(Requests)
  BY <1>1, <1>2
<1>4. Read(SentAs, rpcs) = [i \in DOMAIN q |-> q[i]]
  BY <1>2 DEF Read
<1>5. q = [i \in DOMAIN q |-> q[i]]
  OBVIOUS
<1> QED BY <1>3, <1>4, <1>5

LEMMA AnswerSends ==
  ASSUME SystemInv, SystemInv', NEW c \in Client, AskAnswered(c),
         UNCHANGED <<lines, clusterVars, accepted>>
  PROVE  \E n \in Node : SendMove(c, n)
<1> DEFINE m == asked[c]
           net == Taken(m, c)
           rpcs == [i \in DOMAIN request[c] |-> RequestClient(request[c][i])]
<1>1. m \in Node /\ Waiting(m, c) /\ NamesLeader(NextFrom(m, c))
  BY DEF SystemInv, StateTyped, AskAnswered
<1>2. QueuesOf(net, led) /\ NextFrom(m, c).leaderId \in Node
  BY <1>1, AnswerNamesLed DEF SystemInv, StateTyped
<1> PICK leader \in Node : leader = NextFrom(m, c).leaderId
  BY <1>2
<1>3. /\ \A k \in Client, n \in Node : net[k][n] = link[k][n]
      /\ \A k \in Client : net[Root][k] = link[Root][k]
  BY <1>1, AnswerMovesNothing DEF SystemInv
<1>4. link' = SendEach(net, c, leader, rpcs)
  BY DEF AskAnswered
<1> HIDE DEF net, rpcs
<1>5. \A a, b \in Process :
        link'[a][b] = IF a = c /\ b = leader THEN net[c][leader] \o rpcs ELSE net[a][b]
  BY <1>2, <1>4, SentPoints, Ranks
<1>6. ASSUME NEW k \in Client, NEW n \in Node, <<k, n>> \notin {<<c, leader>>}
      PROVE  link'[k][n] = link[k][n]
  <2>1. ~(k = c /\ n = leader) /\ k \in Process /\ n \in Process
    BY <1>6, Ranks
  <2> QED BY <1>3, <1>5, <2>1
<1>7. ASSUME NEW k \in Client PROVE link'[Root][k] = link[Root][k]
  BY <1>3, <1>5, Ranks
<1>8. SentStays({<<c, leader>>}) /\ GivenStays({})
  BY <1>6, <1>7, QueuesStay
<1>9. CommandsSent(c, leader)' = Join(CommandsSent(c, leader), request[c])
  <2>1. link'[c][leader] = link[c][leader] \o rpcs
    BY <1>2, <1>3, <1>5, Ranks
  <2>2. rpcs \in Seq(Requests) /\ Read(SentAs, rpcs) = request[c]
    BY QueueIsSent DEF SystemInv, StateTyped, rpcs
  <2>3. /\ link[c][leader] \in Seq(Requests) /\ SentAs \in [Requests -> Place]
        /\ CommandsSent(c, leader) = Read(SentAs, link[c][leader])
        /\ CommandsSent(c, leader)' = Read(SentAs, link[c][leader] \o rpcs)
    BY <2>1, Parts, PartsNext
  <2>4. Read(SentAs, link[c][leader] \o rpcs)
          = Join(Read(SentAs, link[c][leader]), Read(SentAs, rpcs))
    BY <2>2, <2>3, ReadJoin
  <2> QED BY <2>2, <2>3, <2>4
<1>10. /\ TakenStays /\ QueuedStays({c}) /\ TypedStays /\ request'[c] = <<>>
  BY DEF TakenStays, QueuedStays, TypedStays, CommandsTyped, AskAnswered, QueueSent, SystemInv,
         StateTyped
<1> QED BY <1>8, <1>9, <1>10 DEF SendMove

LEMMA ClientMoves ==
  ASSUME SystemInv, SystemInv', NEW c \in Client, ClientStep(c),
         UNCHANGED <<lines, clusterVars, accepted>>
  PROVE  Move
<1>1. CASE ClientTakesOrder(c)
  BY <1>1, OrderQueues DEF Move
<1>2. CASE AskAnswered(c)
  BY <1>2, AnswerSends DEF Move
<1>3. ASSUME NEW n \in Node, ClientDropsAnswer(c, n)
      PROVE  NoMove
  <2>1. /\ \A k \in Client, m \in Node : link'[k][m] = link[k][m]
        /\ \A k \in Client : link'[Root][k] = link[Root][k]
    BY <1>3, AnswerMovesNothing DEF SystemInv, ClientDropsAnswer
  <2>2. UNCHANGED request
    BY <1>3 DEF ClientDropsAnswer, clientVars
  <2> QED BY <2>1, <2>2 DEF NoMove, TakenStays, SentStays, QueuedStays, GivenStays, TypedStays,
             CommandsSent, CommandsGiven, CommandsTyped
<1>4. ASSUME NEW n \in Node, AsksNode(c, n)
      PROVE  AskMove(c, n) \/ NoMove
  <2>1. QueuesOf(link, led)
    BY DEF SystemInv
  <2>2. CASE ClientAsks(c, n) \/ AskTimesOut(c, n)
    <3>1. Ask(link, c, n) /\ UNCHANGED <<request, lines, accepted>>
      BY <2>2 DEF ClientAsks, AskTimesOut
    <3> QED BY <2>1, <3>1, AskMoves
  <2>3. CASE AskRefused(c, n)
    <3> DEFINE m == asked[c]
    <3>1. m \in Node /\ Waiting(m, c)
      BY <2>3 DEF AskRefused, SystemInv, StateTyped
    <3>2. QueuesOf(Taken(m, c), led)
      BY <3>1, AnswerNamesLed
    <3>3. Ask(Taken(m, c), c, n) /\ UNCHANGED <<request, lines, accepted>>
      BY <2>3 DEF AskRefused
    <3>4. /\ \A k \in Client, j \in Node : Taken(m, c)[k][j] = link[k][j]
          /\ \A k \in Client : Taken(m, c)[Root][k] = link[Root][k]
      BY <2>1, <3>1, AnswerMovesNothing
    <3> HIDE DEF m
    <3> QED BY <3>2, <3>3, <3>4, AskMoves
  <2> QED BY <1>4, <2>2, <2>3 DEF AsksNode
<1> QED BY <1>1, <1>2, <1>3, <1>4 DEF ClientStep, Move

(* A request that a node takes off its queue. *)
LEMMA RequestTaken ==
  ASSUME SystemInv, SystemInv', NEW c \in Client, NEW n \in Node, Waiting(c, n),
         \A k \in Client, m \in Node : link'[k][m] = Taken(c, n)[k][m],
         \A k \in Client : link'[Root][k] = link[Root][k],
         UNCHANGED <<lines, request>>
  PROVE  /\ SentStays({<<c, n>>}) /\ QueuedStays({}) /\ GivenStays({}) /\ TypedStays
         /\ NextFrom(c, n) \in Requests /\ SentAs[NextFrom(c, n)] \in Place
         /\ CommandsSent(c, n) = Join(<<SentAs[NextFrom(c, n)]>>, CommandsSent(c, n)')
<1> DEFINE q == link[c][n]
<1>1. \A k \in Client, m \in Node :
        link'[k][m] = IF k = c /\ m = n THEN Tail(q) ELSE link[k][m]
  <2>1. \A a, b \in Process :
          Taken(c, n)[a][b] = IF a = c /\ b = n THEN Tail(q) ELSE link[a][b]
    BY TakenPoints, Ranks DEF SystemInv
  <2> QED BY <2>1, Ranks
<1>2. ASSUME NEW k \in Client, NEW m \in Node, <<k, m>> \notin {<<c, n>>}
      PROVE  link'[k][m] = link[k][m]
  <2>1. ~(k = c /\ m = n)
    BY <1>2
  <2> QED BY <1>1, <2>1
<1>3. SentStays({<<c, n>>}) /\ GivenStays({})
  BY <1>2, QueuesStay
<1>4. QueuedStays({}) /\ TypedStays
  BY DEF QueuedStays, TypedStays, CommandsTyped
<1>5. /\ q \in Seq(Requests) /\ q # <<>> /\ SentAs \in [Requests -> Place]
      /\ CommandsSent(c, n) = Read(SentAs, q)
  BY Parts DEF Waiting
<1>6. CommandsSent(c, n)' = Read(SentAs, Tail(q))
  BY <1>1, PartsNext
<1>7. /\ Head(q) \in Requests /\ SentAs[Head(q)] \in Place
      /\ Read(SentAs, q) = Join(<<SentAs[Head(q)]>>, Read(SentAs, Tail(q)))
  <2> HIDE DEF q
  <2> QED BY <1>5, ReadHead
<1>8. NextFrom(c, n) = Head(q)
  BY DEF NextFrom
<1> HIDE DEF q
<1> QED BY <1>3, <1>4, <1>5, <1>6, <1>7, <1>8

(* Sending an answer moves no command. *)
LEMMA AnswerSent ==
  ASSUME NEW L, NEW net, QueuesOf(net, L), NEW n \in Node, NEW c \in Client, NEW rpcs
  PROVE  /\ \A k \in Client, m \in Node : SendEach(net, n, c, rpcs)[k][m] = net[k][m]
         /\ \A k \in Client : SendEach(net, n, c, rpcs)[Root][k] = net[Root][k]
<1>1. n \in Process /\ c \in Process /\ n # Root /\ n \notin Client
  BY Ranks
<1> QED BY <1>1, SentPoints, Ranks

LEMMA NodeMoves ==
  ASSUME SystemInv, SystemInv', NEW n \in Node, NEW c \in Client, NodeServes(n, c)
  PROVE  Move
<1> DEFINE rpc == NextFrom(c, n)
<1>1. Waiting(c, n) /\ UNCHANGED <<lines, clientVars>>
  BY DEF NodeServes, NodeAnswersLeader, NodeTakesCommand, NodeDropsRequest
<1>2. c \in Process /\ n \in Process /\ c # Root /\ QueuesOf(link, led)
  BY Ranks DEF SystemInv
<1>3. QueuesOf(Taken(c, n), led)
  BY <1>1, <1>2, TakeKeepsLinks
<1>4. \A k \in Client : Taken(c, n)[Root][k] = link[Root][k]
  BY <1>2, TakenPoints, Ranks
<1>5. /\ \A k \in Client, m \in Node : link'[k][m] = Taken(c, n)[k][m]
      /\ \A k \in Client : link'[Root][k] = link[Root][k]
  <2>1. CASE link' = Taken(c, n)
    BY <1>4, <2>1
  <2>2. CASE link' = SendEach(Taken(c, n), n, c, <<LeaderResponse(n)>>)
    BY <1>3, <1>4, <2>2, AnswerSent
  <2> QED BY <2>1, <2>2 DEF NodeServes, NodeAnswersLeader, NodeTakesCommand, NodeDropsRequest
<1>6. /\ SentStays({<<c, n>>}) /\ QueuedStays({}) /\ GivenStays({}) /\ TypedStays
      /\ rpc \in Requests /\ SentAs[rpc] \in Place
      /\ CommandsSent(c, n) = Join(<<SentAs[rpc]>>, CommandsSent(c, n)')
  BY <1>1, <1>5, RequestTaken DEF clientVars
<1>7. CASE NodeTakesCommand(n, c)
  <2>1. /\ rpc.type = "REQUEST_CLIENT"
        /\ accepted' = Append(accepted, [node |-> n, client |-> c, cmd |-> rpc.message])
    BY <1>7 DEF NodeTakesCommand
  <2>2. SentAs[rpc] = rpc.message /\ rpc.message \in Cmd
    BY <1>6, <2>1 DEF SentAs, Requests, RequestLeader, RequestClient
  <2> HIDE DEF rpc
  <2>3. TakeMove(n, c, SentAs[rpc])
    BY <1>6, <2>1, <2>2 DEF TakeMove
  <2> QED BY <1>6, <2>3 DEF Move
<1>8. CASE NodeAnswersLeader(n, c) \/ NodeDropsRequest(n, c)
  <2>1. TakenStays
    BY <1>8 DEF NodeAnswersLeader, NodeDropsRequest, TakenStays
  <2> HIDE DEF rpc
  <2>2. LoseMove(c, n, SentAs[rpc])
    BY <1>6, <2>1 DEF LoseMove
  <2> QED BY <1>6, <2>2 DEF Move
<1> QED BY <1>7, <1>8 DEF NodeServes

(* Every step is one of the moves. *)
LEMMA StepsMove ==
  ASSUME SystemInv, SystemInv', [SystemNext]_vars
  PROVE  Move
<1>1. CASE ReadLine /\ UNCHANGED <<clientVars, clusterVars, accepted>>
  BY <1>1, LineGives DEF Move
<1>2. CASE \E c \in Client : ClientStep(c) /\ UNCHANGED <<lines, clusterVars, accepted>>
  BY <1>2, ClientMoves
<1>3. ASSUME UNCHANGED <<lines, request, accepted>>,
             \A k \in Client, m \in Node : link'[k][m] = link[k][m],
             \A k \in Client : link'[Root][k] = link[Root][k]
      PROVE  Move
  BY <1>3 DEF Move, NoMove, TakenStays, SentStays, QueuedStays, GivenStays, TypedStays,
     CommandsSent, CommandsGiven, CommandsTyped
<1>4. CASE UNCHANGED <<link, lines, request, accepted>>
  BY <1>3, <1>4
<1>5. ASSUME NEW n \in Node, NodeTakesOrder(n) PROVE Move
  <2>1. \A a, b \in Process : ~(a = Root /\ b = n) => link'[a][b] = link[a][b]
    BY <1>5, TakenPoints, Ranks DEF SystemInv, NodeTakesOrder
  <2>2. /\ \A k \in Client, m \in Node : link'[k][m] = link[k][m]
        /\ \A k \in Client : link'[Root][k] = link[Root][k]
    BY <2>1, Ranks
  <2>3. UNCHANGED <<lines, request, accepted>>
    BY <1>5 DEF NodeTakesOrder, clientVars
  <2> QED BY <1>3, <2>2, <2>3
<1>6. ASSUME NEW n \in Node, NEW c \in Client, LeaderAnswersCommand(n, c) PROVE Move
  <2>1. /\ link' = SendEach(link, n, c, <<RequestClientResponse(TRUE)>>)
        /\ UNCHANGED <<lines, request, accepted>>
    BY <1>6 DEF LeaderAnswersCommand, clientVars
  <2>2. QueuesOf(link, led)
    BY DEF SystemInv
  <2> QED BY <1>3, <2>1, <2>2, AnswerSent
<1> QED BY <1>1, <1>2, <1>4, <1>5, <1>6, NodeMoves DEF SystemNext, vars, clientVars

-----------------------------------------------------------------------------
(* In order.                                                               *)

LEMMA TakeExtends ==
  ASSUME SystemInv, SystemInv', NEW m \in Node, NEW d \in Client, NEW h, TakeMove(m, d, h),
         NEW n \in Node, NEW c \in Client
  PROVE  CommandsTaken(n, c)'
           = Join(CommandsTaken(n, c), <<IF m = n /\ d = c THEN h ELSE Nil>>)
<1> DEFINE e == [node |-> m, client |-> d, cmd |-> h]
<1>1. e \in Acceptance /\ accepted' = Append(accepted, e)
  BY DEF TakeMove, Acceptance
<1>2. TakenAs(n, c)[e] = IF m = n /\ d = c THEN h ELSE Nil
  BY <1>1 DEF TakenAs
<1> HIDE DEF e
<1>3. /\ accepted \in Seq(Acceptance) /\ TakenAs(n, c) \in [Acceptance -> Place]
      /\ CommandsTaken(n, c) = Read(TakenAs(n, c), accepted)
      /\ CommandsTaken(n, c)' = Read(TakenAs(n, c), accepted')
  BY Parts, PartsNext
<1>4. Read(TakenAs(n, c), Append(accepted, e))
        = Join(Read(TakenAs(n, c), accepted), <<TakenAs(n, c)[e]>>)
  BY <1>1, <1>3, ReadMore
<1> QED BY <1>1, <1>2, <1>3, <1>4

LEMMA TakenStaysTaken ==
  ASSUME TakenStays, NEW n \in Node, NEW c \in Client
  PROVE  CommandsTaken(n, c)' = CommandsTaken(n, c)
BY DEF TakenStays, CommandsTaken

(* A pipeline never gets a command from outside: what is in it moves on,   *)
(* is lost, or stays.                                                      *)
LEMMA PipelinesThin ==
  ASSUME SystemInv, SystemInv', Move, NEW n \in Node, NEW c \in Client
  PROVE  \/ Pipeline(n, c)' = Pipeline(n, c)
         \/ Thins(Pipeline(n, c), Pipeline(n, c)')
<1> DEFINE t == CommandsTaken(n, c)
           s == CommandsSent(c, n)
           r == request[c]
           g == CommandsGiven(c)
           y == CommandsTyped(c)
<1>1. /\ t \in Row /\ s \in Row /\ r \in Row /\ g \in Row /\ y \in Row
      /\ Pipeline(n, c) = Whole(t, s, r, g, y)
  BY Parts, ClientParts
<1>2. /\ t' \in Row /\ s' \in Row /\ r' \in Row /\ g' \in Row /\ y' \in Row
      /\ Pipeline(n, c)' = Whole(t', s', r', g', y')
  BY PartsNext, ClientPartsNext
<1>3. /\ TakenStays => t' = t
      /\ \A A : SentStays(A) /\ <<c, n>> \notin A => s' = s
      /\ \A C : QueuedStays(C) /\ c \notin C => r' = r
      /\ \A C : GivenStays(C) /\ c \notin C => g' = g
      /\ TypedStays => y' = y
  BY TakenStaysTaken DEF SentStays, QueuedStays, GivenStays, TypedStays
<1>4. ASSUME NEW h \in Place PROVE <<h>> \in Row
  BY OneCommand DEF Row
<1> HIDE DEF t, s, r, g, y
<1>5. ASSUME NEW h \in [Client -> Place], GiveMove(h)
      PROVE  Pipeline(n, c)' = Pipeline(n, c) \/ Thins(Pipeline(n, c), Pipeline(n, c)')
  <2>1. /\ t' = t /\ s' = s /\ r' = r /\ y = Join(<<h[c]>>, y')
        /\ g' = Join(g, <<h[c]>>) \/ g' = g
        /\ <<h[c]>> \in Row
    BY <1>3, <1>4, <1>5 DEF GiveMove, y, g
  <2>2. Whole(t, s, r, Join(g, <<h[c]>>), y') = Whole(t, s, r, g, Join(<<h[c]>>, y'))
    <3>1. t \in Row /\ s \in Row /\ r \in Row /\ g \in Row /\ y' \in Row /\ <<h[c]>> \in Row
      BY <1>1, <1>2, <2>1
    <3> QED BY <3>1, MoveToGiven
  <2>3. Thins(Whole(t, s, r, g, Join(<<h[c]>>, y')), Whole(t, s, r, g, y'))
    BY <1>1, <1>2, <2>1, WholeLoses
  <2> QED BY <1>1, <1>2, <2>1, <2>2, <2>3
<1>6. ASSUME NEW d \in Client, NEW h \in Place, QueueMove(d, h)
      PROVE  Pipeline(n, c)' = Pipeline(n, c) \/ Thins(Pipeline(n, c), Pipeline(n, c)')
  <2>1. t' = t /\ s' = s /\ y' = y
    BY <1>3, <1>6 DEF QueueMove
  <2>2. CASE d # c
    <3>1. r' = r /\ g' = g
      BY <1>3, <1>6, <2>2 DEF QueueMove
    <3> QED BY <1>1, <1>2, <2>1, <3>1
  <2>3. CASE d = c
    <3>1. g = Join(<<h>>, g') /\ (r' = Join(r, <<h>>) \/ r' = r) /\ <<h>> \in Row
      BY <1>4, <1>6, <2>3 DEF QueueMove, g, r
    <3>2. Whole(t, s, Join(r, <<h>>), g', y) = Whole(t, s, r, Join(<<h>>, g'), y)
      <4>1. t \in Row /\ s \in Row /\ r \in Row /\ g' \in Row /\ y \in Row /\ <<h>> \in Row
        BY <1>1, <1>2, <3>1
      <4> QED BY <4>1, MoveToQueued
    <3>3. Thins(Whole(t, s, r, Join(<<h>>, g'), y), Whole(t, s, r, g', y))
      BY <1>1, <1>2, <3>1, WholeLoses
    <3> QED BY <1>1, <1>2, <2>1, <3>1, <3>2, <3>3
  <2> QED BY <2>2, <2>3
<1>7. ASSUME NEW d \in Client, NEW m \in Node, SendMove(d, m)
      PROVE  Pipeline(n, c)' = Pipeline(n, c) \/ Thins(Pipeline(n, c), Pipeline(n, c)')
  <2>1. t' = t /\ g' = g /\ y' = y
    BY <1>3, <1>7 DEF SendMove
  <2>2. CASE d # c
    <3>1. s' = s /\ r' = r
      BY <1>3, <1>7, <2>2 DEF SendMove
    <3> QED BY <1>1, <1>2, <2>1, <3>1
  <2>3. CASE d = c /\ m = n
    <3>1. s' = Join(s, r) /\ r' = <<>>
      BY <1>7, <2>3 DEF SendMove, s, r
    <3>2. Whole(t, Join(s, r), <<>>, g, y) = Whole(t, s, r, g, y)
      BY <1>1, MoveToSent
    <3> QED BY <1>1, <1>2, <2>1, <3>1, <3>2
  <2>4. CASE d = c /\ m # n
    <3>1. <<c, n>> \notin {<<d, m>>}
      BY <2>4
    <3>2. s' = s /\ r' = <<>>
      BY <1>3, <1>7, <2>4, <3>1 DEF SendMove, r
    <3> QED BY <1>1, <1>2, <2>1, <3>2, WholeLoses
  <2> QED BY <2>2, <2>3, <2>4
<1>8. ASSUME NEW d \in Client, NEW m \in Node, AskMove(d, m)
      PROVE  Pipeline(n, c)' = Pipeline(n, c) \/ Thins(Pipeline(n, c), Pipeline(n, c)')
  <2>1. t' = t /\ r' = r /\ g' = g /\ y' = y
    BY <1>3, <1>8 DEF AskMove
  <2>2. CASE d = c /\ m = n
    <3>1. s' = Join(s, <<Nil>>)
      BY <1>8, <2>2 DEF AskMove, s
    <3> QED BY <1>1, <1>2, <2>1, <3>1, WholeGains
  <2>3. CASE ~(d = c /\ m = n)
    <3>1. <<c, n>> \notin {<<d, m>>}
      BY <2>3
    <3>2. s' = s
      BY <1>3, <1>8, <3>1 DEF AskMove
    <3> QED BY <1>1, <1>2, <2>1, <3>2
  <2> QED BY <2>2, <2>3
<1>9. ASSUME NEW d \in Client, NEW m \in Node, NEW h \in Place, TakeMove(m, d, h)
      PROVE  Pipeline(n, c)' = Pipeline(n, c) \/ Thins(Pipeline(n, c), Pipeline(n, c)')
  <2>1. r' = r /\ g' = g /\ y' = y
    BY <1>3, <1>9 DEF TakeMove
  <2>2. t' = Join(t, <<IF m = n /\ d = c THEN h ELSE Nil>>)
    BY <1>9, TakeExtends DEF t
  <2>3. CASE d = c /\ m = n
    <3>1. t' = Join(t, <<h>>) /\ s = Join(<<h>>, s') /\ <<h>> \in Row
      BY <1>4, <1>9, <2>2, <2>3 DEF TakeMove, s
    <3>2. Whole(Join(t, <<h>>), s', r, g, y) = Whole(t, Join(<<h>>, s'), r, g, y)
      <4>1. t \in Row /\ s' \in Row /\ r \in Row /\ g \in Row /\ y \in Row /\ <<h>> \in Row
        BY <1>1, <1>2, <3>1
      <4> QED BY <4>1, MoveToTaken
    <3> QED BY <1>1, <1>2, <2>1, <3>1, <3>2
  <2>4. CASE ~(d = c /\ m = n)
    <3>1. <<c, n>> \notin {<<d, m>>}
      BY <2>4
    <3>2. s' = s /\ t' = Join(t, <<Nil>>)
      BY <1>3, <1>9, <2>2, <2>4, <3>1 DEF TakeMove
    <3> QED BY <1>1, <1>2, <2>1, <3>2, WholeGains
  <2> QED BY <2>3, <2>4
<1>10. ASSUME NEW d \in Client, NEW m \in Node, NEW h \in Place, LoseMove(d, m, h)
       PROVE  Pipeline(n, c)' = Pipeline(n, c) \/ Thins(Pipeline(n, c), Pipeline(n, c)')
  <2>1. t' = t /\ r' = r /\ g' = g /\ y' = y
    BY <1>3, <1>10 DEF LoseMove
  <2>2. CASE d = c /\ m = n
    <3>1. s = Join(<<h>>, s') /\ <<h>> \in Row
      BY <1>4, <1>10, <2>2 DEF LoseMove, s
    <3>2. Thins(Whole(t, Join(<<h>>, s'), r, g, y), Whole(t, s', r, g, y))
      BY <1>1, <1>2, <3>1, WholeLoses
    <3> QED BY <1>1, <1>2, <2>1, <3>1, <3>2
  <2>3. CASE ~(d = c /\ m = n)
    <3>1. <<c, n>> \notin {<<d, m>>}
      BY <2>3
    <3>2. s' = s
      BY <1>3, <1>10, <3>1 DEF LoseMove
    <3> QED BY <1>1, <1>2, <2>1, <3>2
  <2> QED BY <2>2, <2>3
<1>11. CASE NoMove
  BY <1>1, <1>2, <1>3, <1>11 DEF NoMove
<1> QED BY <1>5, <1>6, <1>7, <1>8, <1>9, <1>10, <1>11 DEF Move

LEMMA TypedInit ==
  ASSUME SystemInit, NEW c \in Client
  PROVE  CommandsTyped(c) \in Row /\ Increasing(CommandsTyped(c))
<1>1. lines \in Scripts
  BY DEF SystemInit, ControllerInit
<1>2. lines \in Seq(Typed) /\ DOMAIN lines = 1 .. Len(lines)
  BY <1>1, LinesTyped
<1>3. CommandsTyped(c) \in Row
  <2>1. CommandsTyped(c) = Read(TypedAs(c), lines) /\ TypedAs(c) \in [Typed -> Place]
    BY <1>2, TypedIsRead DEF CommandsTyped
  <2> QED BY <1>2, <2>1, ReadType
<1>4. ASSUME NEW i \in DOMAIN lines, NEW j \in DOMAIN lines, i < j,
             CommandsTyped(c)[i] # Nil, CommandsTyped(c)[j] # Nil
      PROVE  CommandsTyped(c)[i] < CommandsTyped(c)[j]
  <2>1. \A k \in DOMAIN lines : CommandsTyped(c)[k] # Nil =>
          /\ lines[k].name = "ENTRY" /\ lines[k].arg # Nil
          /\ CommandsTyped(c)[k] = lines[k].arg
    BY DEF CommandsTyped
  <2> QED BY <1>1, <1>2, <1>4, <2>1, NumberingAssumption
<1>5. DOMAIN CommandsTyped(c) = DOMAIN lines
  BY DEF CommandsTyped
<1> QED BY <1>3, <1>4, <1>5 DEF Increasing

LEMMA OrderInit ==
  ASSUME SystemInit, NEW n \in Node, NEW c \in Client
  PROVE  Pipeline(n, c) = CommandsTyped(c) /\ Increasing(CommandsTyped(c))
<1>1. accepted = <<>>
  BY DEF SystemInit
<1>2. link[c][n] = <<>> /\ link[Root][c] = <<>> /\ request[c] = <<>>
  BY Ranks DEF SystemInit, LinkInit, ClientInit
<1>3. CommandsTaken(n, c) = <<>> /\ CommandsSent(c, n) = <<>> /\ CommandsGiven(c) = <<>>
  BY <1>1, <1>2 DEF CommandsTaken, CommandsSent, CommandsGiven
<1>4. CommandsTyped(c) \in Row /\ Increasing(CommandsTyped(c))
  BY TypedInit
<1>5. Pipeline(n, c) = CommandsTyped(c)
  BY <1>2, <1>3, <1>4 DEF Pipeline, Row
<1> QED BY <1>4, <1>5

(* A node takes the commands of one client in the order they were typed,   *)
(* each at most once, whatever crashes and is lost in between: queues that *)
(* are read from the front and filled at the end keep the order            *)
(* (client.cc:63-69).                                                      *)
THEOREM CommandsStayInOrder == SystemSpec => []InOrder
<1>1. SystemInit => InOrder
  BY OrderInit DEF InOrder
<1>2. SystemInv /\ SystemInv' /\ InOrder /\ [SystemNext]_vars => InOrder'
  <2> SUFFICES ASSUME SystemInv, SystemInv', InOrder, [SystemNext]_vars,
                      NEW n \in Node, NEW c \in Client
               PROVE  Increasing(Pipeline(n, c)')
    BY DEF InOrder, Increasing
  <2>1. Increasing(Pipeline(n, c))
    BY DEF InOrder
  <2>2. \/ Pipeline(n, c)' = Pipeline(n, c)
        \/ Thins(Pipeline(n, c), Pipeline(n, c)')
    BY StepsMove, PipelinesThin
  <2> QED BY <2>1, <2>2, ThinsIncreasing
<1> QED BY <1>1, <1>2, SystemInvariant, PTL DEF SystemSpec

-----------------------------------------------------------------------------
(* No command is in two places.                                            *)

LEMMA JoinHas == \A a, b \in Row : Commands(Join(a, b)) = Commands(a) \cup Commands(b)
BY JoinCommands DEF Row, Join

LEMMA RowNumbers == \A a \in Row : Commands(a) \subseteq Cmd /\ Commands(a) \subseteq Nat
<1> SUFFICES ASSUME NEW a \in Row PROVE Commands(a) \subseteq Cmd
  BY NumberingAssumption
<1>1. \A i \in DOMAIN a : a[i] \in Cmd \cup {Nil}
  BY DEF Row, Place
<1> QED BY <1>1 DEF Commands

LEMMA JoinApart ==
  ASSUME NEW a \in Row, NEW b \in Row, Increasing(Join(a, b))
  PROVE  Increasing(a) /\ Increasing(b) /\ Commands(a) \cap Commands(b) = {}
<1>1. /\ Increasing(a) /\ Increasing(b)
      /\ \A x \in Commands(a), z \in Commands(b) : x < z
  BY JoinIncreasing DEF Row, Join
<1>2. \A x \in Commands(a), z \in Commands(b) : x # z
  BY <1>1, RowNumbers
<1> QED BY <1>1, <1>2

LEMMA WholeHas ==
  ASSUME NEW t \in Row, NEW s \in Row, NEW r \in Row, NEW g \in Row, NEW y \in Row
  PROVE  Commands(Whole(t, s, r, g, y))
           = Commands(t) \cup Commands(s) \cup Commands(r) \cup Commands(g) \cup Commands(y)
<1>1. /\ Join(t, s) \in Row /\ Join(Join(t, s), r) \in Row
      /\ Join(Join(Join(t, s), r), g) \in Row
  BY JoinType
<1>2. Commands(Join(t, s)) = Commands(t) \cup Commands(s)
  BY JoinHas
<1>3. Commands(Join(Join(t, s), r)) = Commands(Join(t, s)) \cup Commands(r)
  BY <1>1, JoinHas
<1>4. Commands(Join(Join(Join(t, s), r), g)) = Commands(Join(Join(t, s), r)) \cup Commands(g)
  BY <1>1, JoinHas
<1>5. Commands(Join(Join(Join(Join(t, s), r), g), y))
        = Commands(Join(Join(Join(t, s), r), g)) \cup Commands(y)
  BY <1>1, JoinHas
<1> QED BY <1>2, <1>3, <1>4, <1>5 DEF Whole

(* The parts of a pipeline that is in order have nothing in common. *)
LEMMA WholeApart ==
  ASSUME NEW t \in Row, NEW s \in Row, NEW r \in Row, NEW g \in Row, NEW y \in Row,
         Increasing(Whole(t, s, r, g, y))
  PROVE  /\ Increasing(s)
         /\ Commands(t) \cap (Commands(s) \cup Commands(r) \cup Commands(g) \cup Commands(y)) = {}
         /\ Commands(s) \cap (Commands(r) \cup Commands(g)) = {}
<1> DEFINE ts == Join(t, s)
           tsr == Join(ts, r)
           tsrg == Join(tsr, g)
<1>1. ts \in Row /\ tsr \in Row /\ tsrg \in Row
  BY JoinType
<1>2. /\ Commands(ts) = Commands(t) \cup Commands(s)
      /\ Commands(tsr) = Commands(ts) \cup Commands(r)
      /\ Commands(tsrg) = Commands(tsr) \cup Commands(g)
  <2>1. Commands(ts) = Commands(t) \cup Commands(s)
    BY JoinHas
  <2> HIDE DEF ts
  <2>2. Commands(tsr) = Commands(ts) \cup Commands(r)
    BY <1>1, JoinHas
  <2> HIDE DEF tsr
  <2>3. Commands(tsrg) = Commands(tsr) \cup Commands(g)
    BY <1>1, JoinHas
  <2> QED BY <2>1, <2>2, <2>3
<1>3. Increasing(Join(tsrg, y))
  BY DEF Whole
<1> HIDE DEF tsrg
<1>4. Increasing(tsrg) /\ Commands(tsrg) \cap Commands(y) = {}
  BY <1>1, <1>3, JoinApart
<1>5. tsrg = Join(tsr, g)
  BY DEF tsrg
<1> HIDE DEF tsr
<1>6. Increasing(tsr) /\ Commands(tsr) \cap Commands(g) = {}
  BY <1>1, <1>4, <1>5, JoinApart
<1>7. tsr = Join(ts, r)
  BY DEF tsr
<1> HIDE DEF ts
<1>8. Increasing(ts) /\ Commands(ts) \cap Commands(r) = {}
  BY <1>1, <1>6, <1>7, JoinApart
<1>9. ts = Join(t, s)
  BY DEF ts
<1>10. Increasing(s) /\ Commands(t) \cap Commands(s) = {}
  BY <1>8, <1>9, JoinApart
<1> QED BY <1>2, <1>4, <1>6, <1>8, <1>10

(* The commands of c that n has, or is about to get. *)
OwnOf(n, c) == Commands(CommandsTaken(n, c)) \cup Commands(CommandsSent(c, n))

Apart ==
  /\ \A n, m \in Node, c, d \in Client :
       c # d => Commands(Pipeline(n, c)) \cap Commands(Pipeline(m, d)) = {}
  /\ \A n, m \in Node, c \in Client : n # m => OwnOf(n, c) \cap OwnOf(m, c) = {}
  /\ \A c, d \in Client :
       c # d => Commands(CommandsTyped(c)) \cap Commands(CommandsTyped(d)) = {}
  /\ \A c \in Client : Increasing(CommandsTyped(c))

LEMMA ApartInit ==
  ASSUME SystemInit
  PROVE  Apart
<1>1. lines \in Scripts
  BY DEF SystemInit, ControllerInit
<1>2. lines \in Seq(Typed) /\ DOMAIN lines = 1 .. Len(lines) /\ Len(lines) \in Nat
  BY <1>1, LinesTyped
<1>3. ASSUME NEW c \in Client, NEW x \in Commands(CommandsTyped(c))
      PROVE  \E i \in 1 .. Len(lines) :
               /\ lines[i].name = "ENTRY" /\ lines[i].arg # Nil
               /\ c \in Addressees(lines[i]) /\ x = lines[i].arg
  <2>1. PICK i \in DOMAIN lines : x = CommandsTyped(c)[i] /\ x # Nil
    BY <1>3 DEF Commands, CommandsTyped
  <2>2. lines[i].name = "ENTRY" /\ c \in Addressees(lines[i]) /\ x = lines[i].arg
    BY <2>1 DEF CommandsTyped
  <2> QED BY <1>2, <2>1, <2>2
<1>4. ASSUME NEW c \in Client, NEW d \in Client, c # d
      PROVE  Commands(CommandsTyped(c)) \cap Commands(CommandsTyped(d)) = {}
  <2> SUFFICES ASSUME NEW x \in Commands(CommandsTyped(c)), x \in Commands(CommandsTyped(d))
               PROVE  FALSE
    OBVIOUS
  <2>1. PICK i \in 1 .. Len(lines) :
          /\ lines[i].name = "ENTRY" /\ lines[i].arg # Nil
          /\ c \in Addressees(lines[i]) /\ x = lines[i].arg
    BY <1>3
  <2>2. PICK j \in 1 .. Len(lines) :
          /\ lines[j].name = "ENTRY" /\ lines[j].arg # Nil
          /\ d \in Addressees(lines[j]) /\ x = lines[j].arg
    BY <1>3
  <2>3. lines[i] \in Typed /\ x \in Cmd /\ Addressees(lines[i]) = {c}
    <3>1. lines[i] \in Typed
      BY <1>2
    <3> QED BY <2>1, <3>1, EntriesHaveCommands
  <2>4. i # j
    BY <1>4, <2>2, <2>3
  <2>5. x \in Nat
    BY <2>3, NumberingAssumption
  <2>6. i < j \/ j < i
    BY <1>2, <2>4
  <2>7. x < x
    BY <1>1, <2>1, <2>2, <2>6, NumberingAssumption
  <2> QED BY <2>5, <2>7
<1>5. ASSUME NEW n \in Node, NEW c \in Client
      PROVE  Pipeline(n, c) = CommandsTyped(c) /\ OwnOf(n, c) = {}
  <2>1. accepted = <<>> /\ link[c][n] = <<>>
    BY Ranks DEF SystemInit, LinkInit
  <2>2. CommandsTaken(n, c) = <<>> /\ CommandsSent(c, n) = <<>>
    BY <2>1 DEF CommandsTaken, CommandsSent
  <2> QED BY <2>2, OrderInit, NoCommand DEF OwnOf
<1>6. ASSUME NEW n \in Node, NEW m \in Node, NEW c \in Client, NEW d \in Client, c # d
      PROVE  Commands(Pipeline(n, c)) \cap Commands(Pipeline(m, d)) = {}
  BY <1>4, <1>5, <1>6
<1> QED BY <1>4, <1>5, <1>6, TypedInit DEF Apart

(* Only the queue of a client can make a node's own commands more. *)
LEMMA OwnStep ==
  ASSUME SystemInv, SystemInv', Move, NEW n \in Node, NEW c \in Client
  PROVE  \/ OwnOf(n, c)' \subseteq OwnOf(n, c)
         \/ /\ SendMove(c, n)
            /\ OwnOf(n, c)' \subseteq OwnOf(n, c) \cup Commands(request[c])
<1> DEFINE t == CommandsTaken(n, c)
           s == CommandsSent(c, n)
           r == request[c]
           Goal == \/ OwnOf(n, c)' \subseteq OwnOf(n, c)
                   \/ /\ SendMove(c, n)
                      /\ OwnOf(n, c)' \subseteq OwnOf(n, c) \cup Commands(request[c])
<1>1. /\ t \in Row /\ s \in Row /\ r \in Row /\ t' \in Row /\ s' \in Row
      /\ OwnOf(n, c) = Commands(t) \cup Commands(s)
      /\ OwnOf(n, c)' = Commands(t') \cup Commands(s')
  BY Parts, PartsNext, ClientParts DEF OwnOf, Commands
<1>2. /\ TakenStays => t' = t
      /\ \A A : SentStays(A) /\ <<c, n>> \notin A => s' = s
  BY TakenStaysTaken DEF SentStays
<1>3. ASSUME NEW h \in Place PROVE <<h>> \in Row /\ Commands(<<h>>) \subseteq {h} \ {Nil}
  BY OneCommand DEF Row
<1>4. <<Nil>> \in Row /\ Commands(<<Nil>>) = {}
  BY NoCommand, OneCommand DEF Row
<1> HIDE DEF t, s, r
<1>5. CASE t' = t /\ s' = s
  BY <1>1, <1>5
<1>6. ASSUME NEW d \in Client, NEW m \in Node, SendMove(d, m) PROVE Goal
  <2>1. t' = t
    BY <1>2, <1>6 DEF SendMove
  <2>2. CASE d = c /\ m = n
    <3>1. s' = Join(s, r) /\ SendMove(c, n)
      BY <1>6, <2>2 DEF SendMove, s, r
    <3>2. Commands(s') = Commands(s) \cup Commands(r)
      BY <1>1, <3>1, JoinHas
    <3> QED BY <1>1, <2>1, <3>1, <3>2 DEF r
  <2>3. CASE ~(d = c /\ m = n)
    <3>1. <<c, n>> \notin {<<d, m>>}
      BY <2>3
    <3>2. s' = s
      BY <1>2, <1>6, <3>1 DEF SendMove
    <3> QED BY <1>5, <2>1, <3>2
  <2> QED BY <2>2, <2>3
<1>7. ASSUME NEW d \in Client, NEW m \in Node, AskMove(d, m) PROVE Goal
  <2>1. t' = t
    BY <1>2, <1>7 DEF AskMove
  <2>2. CASE d = c /\ m = n
    <3>1. s' = Join(s, <<Nil>>)
      BY <1>7, <2>2 DEF AskMove, s
    <3>2. Commands(s') = Commands(s) \cup Commands(<<Nil>>)
      BY <1>1, <1>4, <3>1, JoinHas
    <3> QED BY <1>1, <1>4, <2>1, <3>2
  <2>3. CASE ~(d = c /\ m = n)
    <3>1. <<c, n>> \notin {<<d, m>>}
      BY <2>3
    <3>2. s' = s
      BY <1>2, <1>7, <3>1 DEF AskMove
    <3> QED BY <1>5, <2>1, <3>2
  <2> QED BY <2>2, <2>3
<1>8. ASSUME NEW d \in Client, NEW m \in Node, NEW h \in Place, TakeMove(m, d, h) PROVE Goal
  <2>1. t' = Join(t, <<IF m = n /\ d = c THEN h ELSE Nil>>)
    BY <1>8, TakeExtends DEF t
  <2>2. CASE d = c /\ m = n
    <3>1. t' = Join(t, <<h>>) /\ s = Join(<<h>>, s') /\ <<h>> \in Row
      BY <1>3, <1>8, <2>1, <2>2 DEF TakeMove, s
    <3>2. /\ Commands(t') = Commands(t) \cup Commands(<<h>>)
          /\ Commands(s) = Commands(<<h>>) \cup Commands(s')
      BY <1>1, <3>1, JoinHas
    <3> QED BY <1>1, <3>2
  <2>3. CASE ~(d = c /\ m = n)
    <3>1. <<c, n>> \notin {<<d, m>>}
      BY <2>3
    <3>2. s' = s /\ t' = Join(t, <<Nil>>)
      BY <1>2, <1>8, <2>1, <2>3, <3>1 DEF TakeMove
    <3>3. Commands(t') = Commands(t) \cup Commands(<<Nil>>)
      BY <1>1, <1>4, <3>2, JoinHas
    <3> QED BY <1>1, <1>4, <3>2, <3>3
  <2> QED BY <2>2, <2>3
<1>9. ASSUME NEW d \in Client, NEW m \in Node, NEW h \in Place, LoseMove(d, m, h) PROVE Goal
  <2>1. t' = t
    BY <1>2, <1>9 DEF LoseMove
  <2>2. CASE d = c /\ m = n
    <3>1. s = Join(<<h>>, s') /\ <<h>> \in Row
      BY <1>3, <1>9, <2>2 DEF LoseMove, s
    <3>2. Commands(s) = Commands(<<h>>) \cup Commands(s')
      BY <1>1, <3>1, JoinHas
    <3> QED BY <1>1, <2>1, <3>2
  <2>3. CASE ~(d = c /\ m = n)
    <3>1. <<c, n>> \notin {<<d, m>>}
      BY <2>3
    <3>2. s' = s
      BY <1>2, <1>9, <3>1 DEF LoseMove
    <3> QED BY <1>5, <2>1, <3>2
  <2> QED BY <2>2, <2>3
<1>10. CASE NoMove \/ (\E h \in [Client -> Place] : GiveMove(h))
            \/ (\E d \in Client, h \in Place : QueueMove(d, h))
  <2>1. TakenStays /\ SentStays({})
    BY <1>10 DEF NoMove, GiveMove, QueueMove
  <2> QED BY <1>2, <1>5, <2>1
<1> QED BY <1>6, <1>7, <1>8, <1>9, <1>10 DEF Move

(* What the operator has yet to give only gets less. *)
LEMMA TypedStep ==
  ASSUME SystemInv, SystemInv', Move, NEW c \in Client, Increasing(CommandsTyped(c))
  PROVE  /\ Commands(CommandsTyped(c)') \subseteq Commands(CommandsTyped(c))
         /\ Increasing(CommandsTyped(c)')
<1>1. CASE TypedStays
  <2>1. CommandsTyped(c)' = CommandsTyped(c)
    BY <1>1 DEF TypedStays
  <2> QED BY <2>1
<1>2. ASSUME NEW h \in [Client -> Place], GiveMove(h)
      PROVE  /\ Commands(CommandsTyped(c)') \subseteq Commands(CommandsTyped(c))
             /\ Increasing(CommandsTyped(c)')
  <2> DEFINE y == CommandsTyped(c)'
  <2>1. CommandsTyped(c) = Join(<<h[c]>>, y) /\ y \in Row /\ <<h[c]>> \in Row
    BY <1>2, ClientPartsNext, OneCommand DEF GiveMove, Row
  <2> HIDE DEF y
  <2>2. Commands(CommandsTyped(c)) = Commands(<<h[c]>>) \cup Commands(y) /\ Increasing(y)
    BY <2>1, JoinHas, JoinApart
  <2> QED BY <2>2 DEF y
<1> QED BY <1>1, <1>2 DEF Move, QueueMove, SendMove, AskMove, TakeMove, LoseMove, NoMove

LEMMA ApartStep ==
  ASSUME SystemInv, SystemInv', InOrder, Apart, Move
  PROVE  Apart'
<1>1. ASSUME NEW n \in Node, NEW c \in Client
      PROVE  Commands(Pipeline(n, c)') \subseteq Commands(Pipeline(n, c))
  <2>1. Increasing(Pipeline(n, c))
    BY DEF InOrder
  <2> QED BY <2>1, PipelinesThin, ThinsIncreasing
<1>2. ASSUME NEW n \in Node, NEW m \in Node, NEW c \in Client, NEW d \in Client, c # d
      PROVE  Commands(Pipeline(n, c)') \cap Commands(Pipeline(m, d)') = {}
  <2>1. Commands(Pipeline(n, c)) \cap Commands(Pipeline(m, d)) = {}
    BY <1>2 DEF Apart
  <2> QED BY <1>1, <2>1
<1>3. ASSUME NEW n \in Node, NEW m \in Node, NEW c \in Client, n # m, SendMove(c, n)
      PROVE  OwnOf(n, c)' \cap OwnOf(m, c)' = {}
  <2>1. OwnOf(n, c)' \subseteq OwnOf(n, c) \cup Commands(request[c])
    BY OwnStep
  <2>2. OwnOf(m, c)' = OwnOf(m, c)
    <3>1. <<c, m>> \notin {<<c, n>>}
      BY <1>3
    <3>2. CommandsSent(c, m)' = CommandsSent(c, m) /\ CommandsTaken(m, c)' = CommandsTaken(m, c)
      BY <1>3, <3>1, TakenStaysTaken DEF SendMove, SentStays
    <3> QED BY <3>2 DEF OwnOf, Commands
  <2>3. OwnOf(m, c) \cap Commands(request[c]) = {}
    <3> DEFINE t == CommandsTaken(m, c)
               s == CommandsSent(c, m)
               r == request[c]
               g == CommandsGiven(c)
               y == CommandsTyped(c)
    <3>1. /\ t \in Row /\ s \in Row /\ r \in Row /\ g \in Row /\ y \in Row
          /\ Increasing(Whole(t, s, r, g, y))
      BY Parts, ClientParts DEF InOrder
    <3>2. OwnOf(m, c) = Commands(t) \cup Commands(s)
      BY DEF OwnOf
    <3> HIDE DEF t, s, r, g, y
    <3>3. /\ Commands(t) \cap (Commands(s) \cup Commands(r) \cup Commands(g) \cup Commands(y)) = {}
          /\ Commands(s) \cap (Commands(r) \cup Commands(g)) = {}
      BY <3>1, WholeApart
    <3> QED BY <3>2, <3>3 DEF r
  <2>4. OwnOf(n, c) \cap OwnOf(m, c) = {}
    BY <1>3 DEF Apart
  <2> QED BY <2>1, <2>2, <2>3, <2>4
<1>4. ASSUME NEW n \in Node, NEW m \in Node, NEW c \in Client, n # m
      PROVE  OwnOf(n, c)' \cap OwnOf(m, c)' = {}
  <2>1. CASE SendMove(c, n)
    BY <1>3, <1>4, <2>1
  <2>2. CASE SendMove(c, m)
    <3>1. OwnOf(m, c)' \cap OwnOf(n, c)' = {}
      BY <1>3, <1>4, <2>2
    <3> QED BY <3>1
  <2>3. CASE ~SendMove(c, n) /\ ~SendMove(c, m)
    <3>1. OwnOf(n, c)' \subseteq OwnOf(n, c) /\ OwnOf(m, c)' \subseteq OwnOf(m, c)
      BY <2>3, OwnStep
    <3>2. OwnOf(n, c) \cap OwnOf(m, c) = {}
      BY <1>4 DEF Apart
    <3> QED BY <3>1, <3>2
  <2> QED BY <2>1, <2>2, <2>3
<1> QED
  <2>1. \A n, m \in Node, c, d \in Client :
          c # d => Commands(Pipeline(n, c)') \cap Commands(Pipeline(m, d)') = {}
    BY <1>2
  <2>2. \A n, m \in Node, c \in Client : n # m => OwnOf(n, c)' \cap OwnOf(m, c)' = {}
    BY <1>4
  <2>3. \A n \in Node, c \in Client : Commands(Pipeline(n, c))' = Commands(Pipeline(n, c)')
    BY DEF Commands
  <2>4. \A c \in Client : /\ Commands(CommandsTyped(c)') \subseteq Commands(CommandsTyped(c))
                          /\ Increasing(CommandsTyped(c)')
    BY TypedStep DEF Apart
  <2>5. \A c, d \in Client :
          c # d => Commands(CommandsTyped(c)') \cap Commands(CommandsTyped(d)') = {}
    BY <2>4 DEF Apart
  <2>6. \A c \in Client : /\ Commands(CommandsTyped(c))' = Commands(CommandsTyped(c)')
                          /\ Increasing(CommandsTyped(c))' = Increasing(CommandsTyped(c)')
    BY DEF Commands, Increasing
  <2> QED BY <2>1, <2>2, <2>3, <2>4, <2>5, <2>6 DEF Apart

-----------------------------------------------------------------------------
(* The fate of a command.                                                  *)

(* The commands between the operator and a log. *)
InFlight(c) ==
  Commands(CommandsGiven(c)) \cup Commands(request[c])
    \cup UNION {Commands(CommandsSent(c, n)) : n \in Node}

LEMMA GivenCommands ==
  ASSUME NEW c \in Client, NEW q \in Seq(Orders(c)), NEW cmd \in Cmd
  PROVE  (\E i \in DOMAIN q : q[i] = ControllerRequest("ENTRY", cmd))
           <=> cmd \in Commands([i \in DOMAIN q |->
                                   IF q[i].request = "ENTRY" THEN q[i].message ELSE Nil])
<1> DEFINE p == [i \in DOMAIN q |-> IF q[i].request = "ENTRY" THEN q[i].message ELSE Nil]
<1>1. cmd # Nil
  BY NumberingAssumption
<1>2. ASSUME NEW i \in DOMAIN q
      PROVE  q[i] = ControllerRequest("ENTRY", cmd) <=> p[i] = cmd
  <2>1. q[i] \in Orders(c)
    OBVIOUS
  <2>2. PICK name, arg : q[i] = ControllerRequest(name, arg)
    BY <2>1 DEF Orders
  <2>3. q[i].request = name /\ q[i].message = arg
    BY <2>2 DEF ControllerRequest
  <2>4. p[i] = IF name = "ENTRY" THEN arg ELSE Nil
    BY <2>3
  <2>5. ControllerRequest(name, arg) = ControllerRequest("ENTRY", cmd)
          <=> name = "ENTRY" /\ arg = cmd
    BY DEF ControllerRequest
  <2> QED BY <1>1, <2>2, <2>4, <2>5
<1>3. DOMAIN p = DOMAIN q
  OBVIOUS
<1> HIDE DEF p
<1>4. cmd \in Commands(p) <=> \E i \in DOMAIN q : p[i] = cmd
  BY <1>1, <1>3 DEF Commands
<1> QED BY <1>2, <1>4 DEF p

LEMMA SentCommands ==
  ASSUME NEW q \in Seq(Requests), NEW cmd \in Cmd
  PROVE  (\E i \in DOMAIN q : q[i] = RequestClient(cmd))
           <=> cmd \in Commands([i \in DOMAIN q |->
                                   IF q[i].type = "REQUEST_CLIENT" THEN q[i].message ELSE Nil])
<1> DEFINE p == [i \in DOMAIN q |-> IF q[i].type = "REQUEST_CLIENT" THEN q[i].message ELSE Nil]
<1>1. cmd # Nil
  BY NumberingAssumption
<1>2. ASSUME NEW i \in DOMAIN q
      PROVE  q[i] = RequestClient(cmd) <=> p[i] = cmd
  <2>1. q[i] = RequestLeader \/ \E k \in Cmd : q[i] = RequestClient(k)
    BY DEF Requests
  <2>2. CASE q[i] = RequestLeader
    BY <1>1, <2>2 DEF RequestLeader, RequestClient
  <2>3. ASSUME NEW k \in Cmd, q[i] = RequestClient(k) PROVE q[i] = RequestClient(cmd) <=> p[i] = cmd
    <3>1. q[i].type = "REQUEST_CLIENT" /\ q[i].message = k
      BY <2>3 DEF RequestClient
    <3>2. RequestClient(k) = RequestClient(cmd) <=> k = cmd
      BY DEF RequestClient
    <3> QED BY <2>3, <3>1, <3>2
  <2> QED BY <2>1, <2>2, <2>3
<1>3. DOMAIN p = DOMAIN q
  OBVIOUS
<1> HIDE DEF p
<1>4. cmd \in Commands(p) <=> \E i \in DOMAIN q : p[i] = cmd
  BY <1>1, <1>3 DEF Commands
<1> QED BY <1>2, <1>4 DEF p

LEMMA QueuedCommands ==
  ASSUME NEW q \in Seq(Cmd), NEW cmd \in Cmd
  PROVE  (\E i \in DOMAIN q : q[i] = cmd) <=> cmd \in Commands(q)
<1>1. cmd # Nil
  BY NumberingAssumption
<1> QED BY <1>1 DEF Commands

LEMMA PendingIsInFlight ==
  ASSUME SystemInv
  PROVE  Pending = UNION {InFlight(c) : c \in Client}
<1>1. ASSUME NEW c \in Client, NEW cmd \in Cmd
      PROVE  (\/ \E i \in DOMAIN link[Root][c] :
                   link[Root][c][i] = ControllerRequest("ENTRY", cmd)
              \/ \E i \in DOMAIN request[c] : request[c][i] = cmd
              \/ \E n \in Node : \E i \in DOMAIN link[c][n] :
                   link[c][n][i] = RequestClient(cmd))
             <=> cmd \in InFlight(c)
  <2>1. link[Root][c] \in Seq(Orders(c)) /\ request[c] \in Seq(Cmd)
    BY ClientParts
  <2>2. (\E i \in DOMAIN link[Root][c] : link[Root][c][i] = ControllerRequest("ENTRY", cmd))
          <=> cmd \in Commands(CommandsGiven(c))
    BY <2>1, GivenCommands DEF CommandsGiven
  <2>3. (\E i \in DOMAIN request[c] : request[c][i] = cmd) <=> cmd \in Commands(request[c])
    BY <2>1, QueuedCommands
  <2>4. ASSUME NEW n \in Node
        PROVE  (\E i \in DOMAIN link[c][n] : link[c][n][i] = RequestClient(cmd))
                 <=> cmd \in Commands(CommandsSent(c, n))
    BY Parts, SentCommands DEF CommandsSent
  <2> QED BY <2>2, <2>3, <2>4 DEF InFlight
<1>2. ASSUME NEW c \in Client PROVE InFlight(c) \subseteq Cmd
  <2>1. /\ Commands(CommandsGiven(c)) \subseteq Cmd /\ Commands(request[c]) \subseteq Cmd
        /\ \A n \in Node : Commands(CommandsSent(c, n)) \subseteq Cmd
    BY Parts, ClientParts, RowNumbers
  <2> QED BY <2>1 DEF InFlight
<1> QED BY <1>1, <1>2 DEF Pending

LEMMA PendingIsInFlightNext ==
  ASSUME SystemInv'
  PROVE  Pending' = UNION {InFlight(c)' : c \in Client}
<1>1. ASSUME NEW c \in Client, NEW cmd \in Cmd
      PROVE  (\/ \E i \in DOMAIN link'[Root][c] :
                   link'[Root][c][i] = ControllerRequest("ENTRY", cmd)
              \/ \E i \in DOMAIN request'[c] : request'[c][i] = cmd
              \/ \E n \in Node : \E i \in DOMAIN link'[c][n] :
                   link'[c][n][i] = RequestClient(cmd))
             <=> cmd \in InFlight(c)'
  <2>1. link'[Root][c] \in Seq(Orders(c)) /\ request'[c] \in Seq(Cmd)
    BY ClientPartsNext
  <2>2. (\E i \in DOMAIN link'[Root][c] : link'[Root][c][i] = ControllerRequest("ENTRY", cmd))
          <=> cmd \in Commands(CommandsGiven(c)')
    BY <2>1, GivenCommands DEF CommandsGiven
  <2>3. (\E i \in DOMAIN request'[c] : request'[c][i] = cmd) <=> cmd \in Commands(request'[c])
    BY <2>1, QueuedCommands
  <2>4. ASSUME NEW n \in Node
        PROVE  (\E i \in DOMAIN link'[c][n] : link'[c][n][i] = RequestClient(cmd))
                 <=> cmd \in Commands(CommandsSent(c, n)')
    BY PartsNext, SentCommands DEF CommandsSent
  <2>5. InFlight(c)' = Commands(CommandsGiven(c)') \cup Commands(request'[c])
                         \cup UNION {Commands(CommandsSent(c, n)') : n \in Node}
    BY DEF InFlight, Commands
  <2> QED BY <2>2, <2>3, <2>4, <2>5
<1>2. ASSUME NEW c \in Client PROVE InFlight(c)' \subseteq Cmd
  <2>1. /\ Commands(CommandsGiven(c)') \subseteq Cmd /\ Commands(request'[c]) \subseteq Cmd
        /\ \A n \in Node : Commands(CommandsSent(c, n)') \subseteq Cmd
    BY PartsNext, ClientPartsNext, RowNumbers
  <2>2. InFlight(c)' = Commands(CommandsGiven(c)') \cup Commands(request'[c])
                         \cup UNION {Commands(CommandsSent(c, n)') : n \in Node}
    BY DEF InFlight, Commands
  <2> QED BY <2>1, <2>2
<1> QED BY <1>1, <1>2 DEF Pending

(* A command that a client sends or a node takes is nowhere else. *)
LEMMA HeadIsAlone ==
  ASSUME SystemInv, InOrder, Apart, NEW c \in Client, NEW n \in Node, NEW h \in Cmd,
         NEW rest \in Row, CommandsSent(c, n) = Join(<<h>>, rest)
  PROVE  /\ h \in Commands(CommandsSent(c, n)) /\ h \notin Commands(rest)
         /\ h \notin Commands(request[c]) /\ h \notin Commands(CommandsGiven(c))
         /\ \A m \in Node \ {n} : h \notin Commands(CommandsSent(c, m))
         /\ \A d \in Client \ {c} : h \notin InFlight(d)
<1> DEFINE t == CommandsTaken(n, c)
           s == CommandsSent(c, n)
           r == request[c]
           g == CommandsGiven(c)
           y == CommandsTyped(c)
<1>1. /\ t \in Row /\ s \in Row /\ r \in Row /\ g \in Row /\ y \in Row
      /\ Increasing(Whole(t, s, r, g, y)) /\ Pipeline(n, c) = Whole(t, s, r, g, y)
  BY Parts, ClientParts DEF InOrder
<1>2. s = Join(<<h>>, rest)
  OBVIOUS
<1>3. OwnOf(n, c) = Commands(t) \cup Commands(s)
  BY DEF OwnOf
<1>4. h \in Place /\ h # Nil
  BY NumberingAssumption DEF Place
<1>5. <<h>> \in Row /\ Commands(<<h>>) = {h}
  BY <1>4, OneCommand DEF Row
<1> HIDE DEF t, s, r, g, y
<1>6. Increasing(s) /\ Commands(s) \cap (Commands(r) \cup Commands(g)) = {}
  BY <1>1, WholeApart
<1>7. h \in Commands(s) /\ h \notin Commands(rest)
  <2>1. Commands(Join(<<h>>, rest)) = Commands(<<h>>) \cup Commands(rest)
    BY <1>5, JoinHas
  <2>2. Commands(<<h>>) \cap Commands(rest) = {}
    BY <1>2, <1>5, <1>6, JoinApart
  <2> QED BY <1>2, <1>5, <2>1, <2>2
<1>8. ASSUME NEW m \in Node \ {n} PROVE h \notin Commands(CommandsSent(c, m))
  BY <1>3, <1>7 DEF Apart, OwnOf
<1>9. ASSUME NEW d \in Client \ {c} PROVE h \notin InFlight(d)
  <2>1. h \in Commands(Pipeline(n, c))
    BY <1>1, <1>7, WholeHas
  <2>2. ASSUME NEW m \in Node PROVE h \notin Commands(Pipeline(m, d))
    BY <2>1 DEF Apart
  <2>3. ASSUME NEW m \in Node
        PROVE  /\ Commands(CommandsSent(d, m)) \subseteq Commands(Pipeline(m, d))
               /\ Commands(request[d]) \subseteq Commands(Pipeline(m, d))
               /\ Commands(CommandsGiven(d)) \subseteq Commands(Pipeline(m, d))
    <3> DEFINE t1 == CommandsTaken(m, d)
               s1 == CommandsSent(d, m)
               r1 == request[d]
               g1 == CommandsGiven(d)
               y1 == CommandsTyped(d)
    <3>1. /\ t1 \in Row /\ s1 \in Row /\ r1 \in Row /\ g1 \in Row /\ y1 \in Row
          /\ Pipeline(m, d) = Whole(t1, s1, r1, g1, y1)
      BY Parts, ClientParts
    <3> HIDE DEF t1, s1, r1, g1, y1
    <3>2. Commands(Pipeline(m, d)) = Commands(t1) \cup Commands(s1) \cup Commands(r1)
                                       \cup Commands(g1) \cup Commands(y1)
      BY <3>1, WholeHas
    <3> QED BY <3>2 DEF s1, r1, g1
  <2> QED BY <2>2, <2>3 DEF InFlight
<1> QED BY <1>6, <1>7, <1>8, <1>9 DEF s, r, g

LEMMA InFlightNext ==
  ASSUME NEW c \in Client
  PROVE  InFlight(c)' = Commands(CommandsGiven(c)') \cup Commands(request'[c])
                          \cup UNION {Commands(CommandsSent(c, n)') : n \in Node}
BY DEF InFlight, Commands

(* What leaves the queue to a node leaves what is pending. *)
LEMMA HeadLeaves ==
  ASSUME SystemInv, SystemInv', InOrder, Apart, NEW c \in Client, NEW n \in Node, NEW h \in Place,
         SentStays({<<c, n>>}), QueuedStays({}), GivenStays({}),
         CommandsSent(c, n) = Join(<<h>>, CommandsSent(c, n)')
  PROVE  /\ h = Nil => Pending' = Pending
         /\ h # Nil => h \in Pending /\ Pending' = Pending \ {h}
<1>1. /\ Pending = UNION {InFlight(d) : d \in Client}
      /\ Pending' = UNION {InFlight(d)' : d \in Client}
  BY PendingIsInFlight, PendingIsInFlightNext
<1>2. CommandsSent(c, n)' \in Row /\ <<h>> \in Row /\ Commands(<<h>>) = {h} \ {Nil}
  BY PartsNext, OneCommand DEF Row
<1>3. Commands(CommandsSent(c, n)) = ({h} \ {Nil}) \cup Commands(CommandsSent(c, n)')
  BY <1>2, JoinHas
<1>4. ASSUME NEW m \in Node, m # n
      PROVE  Commands(CommandsSent(c, m)') = Commands(CommandsSent(c, m))
  <2>1. <<c, m>> \notin {<<c, n>>}
    BY <1>4
  <2>2. CommandsSent(c, m)' = CommandsSent(c, m)
    BY <2>1 DEF SentStays
  <2> QED BY <2>2
<1>5. /\ Commands(CommandsGiven(c)') = Commands(CommandsGiven(c))
      /\ Commands(request'[c]) = Commands(request[c])
  BY DEF GivenStays, QueuedStays
<1>6. ASSUME NEW d \in Client, d # c PROVE InFlight(d)' = InFlight(d)
  <2>1. \A m \in Node : <<d, m>> \notin {<<c, n>>}
    BY <1>6
  <2>2. \A m \in Node : CommandsSent(d, m)' = CommandsSent(d, m)
    BY <2>1 DEF SentStays
  <2>3. CommandsGiven(d)' = CommandsGiven(d) /\ request'[d] = request[d]
    BY DEF GivenStays, QueuedStays
  <2> QED BY <2>2, <2>3, InFlightNext DEF InFlight
<1>7. InFlight(c) = InFlight(c)' \cup ({h} \ {Nil})
  BY <1>3, <1>4, <1>5, InFlightNext DEF InFlight
<1>8. CASE h = Nil
  <2>1. \A d \in Client : InFlight(d)' = InFlight(d)
    BY <1>6, <1>7, <1>8
  <2> QED BY <1>1, <1>8, <2>1
<1>9. CASE h # Nil
  <2>1. h \in Cmd
    BY <1>9 DEF Place
  <2>2. /\ h \in Commands(CommandsSent(c, n)) /\ h \notin Commands(CommandsSent(c, n)')
        /\ h \notin Commands(request[c]) /\ h \notin Commands(CommandsGiven(c))
        /\ \A m \in Node \ {n} : h \notin Commands(CommandsSent(c, m))
        /\ \A d \in Client \ {c} : h \notin InFlight(d)
    BY <1>2, <2>1, HeadIsAlone
  <2>3. h \notin InFlight(c)'
    BY <1>4, <1>5, <2>2, InFlightNext
  <2>4. InFlight(c)' = InFlight(c) \ {h} /\ h \in InFlight(c)
    BY <1>7, <1>9, <2>3
  <2>5. \A d \in Client : InFlight(d)' = InFlight(d) \ {h}
    BY <1>6, <2>2, <2>4
  <2> QED BY <1>1, <1>9, <2>4, <2>5
<1> QED BY <1>8, <1>9

(* What the operator has yet to give, read off the lines. *)
LEMMA UngivenIsTyped ==
  ASSUME SystemInv
  PROVE  Ungiven = UNION {Commands(CommandsTyped(c)) : c \in Client}
<1>1. ASSUME NEW c \in Client
      PROVE  /\ Commands(CommandsTyped(c)) \subseteq Cmd
             /\ \A cmd \in Cmd : cmd \in Commands(CommandsTyped(c))
                   <=> \E i \in DOMAIN lines : CommandsTyped(c)[i] = cmd
  <2>1. Commands(CommandsTyped(c)) \subseteq Cmd
    BY ClientParts, RowNumbers
  <2>2. DOMAIN CommandsTyped(c) = DOMAIN lines /\ Nil \notin Cmd
    BY NumberingAssumption DEF CommandsTyped
  <2> QED BY <2>1, <2>2 DEF Commands
<1> QED BY <1>1 DEF Ungiven

LEMMA UngivenIsTypedNext ==
  ASSUME SystemInv'
  PROVE  Ungiven' = UNION {Commands(CommandsTyped(c)') : c \in Client}
<1>1. ASSUME NEW c \in Client
      PROVE  /\ Commands(CommandsTyped(c)') \subseteq Cmd
             /\ \A cmd \in Cmd : cmd \in Commands(CommandsTyped(c)')
                   <=> \E i \in DOMAIN lines' : CommandsTyped(c)'[i] = cmd
  <2>1. Commands(CommandsTyped(c)') \subseteq Cmd
    BY ClientPartsNext, RowNumbers
  <2>2. DOMAIN CommandsTyped(c)' = DOMAIN lines' /\ Nil \notin Cmd
    BY NumberingAssumption DEF CommandsTyped
  <2> QED BY <2>1, <2>2 DEF Commands
<1>2. Ungiven' = {cmd \in Cmd : \E c \in Client : \E i \in DOMAIN lines' :
                                   CommandsTyped(c)'[i] = cmd}
  BY DEF Ungiven
<1> QED BY <1>1, <1>2

LEMMA TypedStaysUngiven ==
  ASSUME TypedStays, SystemInv, SystemInv'
  PROVE  UNCHANGED Ungiven
<1>1. \A c \in Client : Commands(CommandsTyped(c)') = Commands(CommandsTyped(c))
  BY DEF TypedStays
<1> QED BY <1>1, UngivenIsTyped, UngivenIsTypedNext

(* A line of the operator. *)
LEMMA GiveStep ==
  ASSUME SystemInv, SystemInv', Apart, NEW h \in [Client -> Place], GiveMove(h)
  PROVE  \/ UNCHANGED <<Ungiven, Pending>>
         \/ \E cmd \in Cmd : /\ cmd \in Ungiven
                             /\ Ungiven' = Ungiven \ {cmd}
                             /\ Pending' = Pending \cup {cmd}
<1>1. /\ Pending = UNION {InFlight(d) : d \in Client}
      /\ Pending' = UNION {InFlight(d)' : d \in Client}
  BY PendingIsInFlight, PendingIsInFlightNext
<1>2. ASSUME NEW d \in Client
      PROVE  InFlight(d)' = InFlight(d) \cup ({h[d]} \ {Nil})
  <2>1. \A m \in Node : CommandsSent(d, m)' = CommandsSent(d, m)
    BY DEF GiveMove, SentStays
  <2>2. request'[d] = request[d]
    BY DEF GiveMove, QueuedStays
  <2>3. Commands(CommandsGiven(d)') = Commands(CommandsGiven(d)) \cup ({h[d]} \ {Nil})
    <3>1. CASE CommandsGiven(d)' = Join(CommandsGiven(d), <<h[d]>>)
      <4>1. CommandsGiven(d) \in Row /\ <<h[d]>> \in Row /\ Commands(<<h[d]>>) = {h[d]} \ {Nil}
        BY ClientParts, OneCommand DEF Row
      <4>2. Commands(Join(CommandsGiven(d), <<h[d]>>))
              = Commands(CommandsGiven(d)) \cup Commands(<<h[d]>>)
        BY <4>1, JoinHas
      <4> QED BY <3>1, <4>1, <4>2
    <3>2. CASE CommandsGiven(d)' = CommandsGiven(d) /\ h[d] = Nil
      BY <3>2
    <3> QED BY <3>1, <3>2 DEF GiveMove
  <2> QED BY <2>1, <2>2, <2>3, InFlightNext DEF InFlight
<1>3. ASSUME NEW d \in Client
      PROVE  /\ Commands(CommandsTyped(d)) = Commands(CommandsTyped(d)') \cup ({h[d]} \ {Nil})
             /\ h[d] \in Commands(CommandsTyped(d)') => h[d] = Nil
  <2> DEFINE y == CommandsTyped(d)'
  <2>1. /\ CommandsTyped(d) = Join(<<h[d]>>, y) /\ y \in Row
        /\ <<h[d]>> \in Row /\ Commands(<<h[d]>>) = {h[d]} \ {Nil}
    BY ClientPartsNext, OneCommand DEF GiveMove, Row
  <2> HIDE DEF y
  <2>2. Commands(CommandsTyped(d)) = Commands(<<h[d]>>) \cup Commands(y)
    BY <2>1, JoinHas
  <2>3. Commands(<<h[d]>>) \cap Commands(y) = {}
    BY <2>1, JoinApart DEF Apart
  <2> QED BY <2>1, <2>2, <2>3 DEF y
<1>4. /\ Ungiven = UNION {Commands(CommandsTyped(d)) : d \in Client}
      /\ Ungiven' = UNION {Commands(CommandsTyped(d)') : d \in Client}
  BY UngivenIsTyped, UngivenIsTypedNext
<1>5. CASE \A d \in Client : h[d] = Nil
  <2>1. \A d \in Client : /\ InFlight(d)' = InFlight(d)
                          /\ Commands(CommandsTyped(d)') = Commands(CommandsTyped(d))
    BY <1>2, <1>3, <1>5
  <2> QED BY <1>1, <1>4, <2>1
<1>6. ASSUME NEW c \in Client, h[c] # Nil
      PROVE  /\ h[c] \in Cmd /\ h[c] \in Ungiven
             /\ Ungiven' = Ungiven \ {h[c]}
             /\ Pending' = Pending \cup {h[c]}
  <2>1. h[c] \in Cmd /\ \A d \in Client : d # c => h[d] = Nil
    BY <1>6 DEF GiveMove, Place
  <2>2. Pending' = Pending \cup {h[c]}
    <3>1. \A d \in Client : d # c => InFlight(d)' = InFlight(d)
      BY <1>2, <2>1
    <3>2. InFlight(c)' = InFlight(c) \cup {h[c]}
      BY <1>2, <1>6
    <3> QED BY <1>1, <3>1, <3>2
  <2>3. /\ Commands(CommandsTyped(c)') = Commands(CommandsTyped(c)) \ {h[c]}
        /\ h[c] \in Commands(CommandsTyped(c))
    BY <1>3, <1>6
  <2>4. ASSUME NEW d \in Client, d # c
        PROVE  Commands(CommandsTyped(d)') = Commands(CommandsTyped(d)) \ {h[c]}
    <3>1. Commands(CommandsTyped(d)') = Commands(CommandsTyped(d))
      BY <1>3, <2>1, <2>4
    <3>2. h[c] \notin Commands(CommandsTyped(d))
      BY <2>3, <2>4 DEF Apart
    <3> QED BY <3>1, <3>2
  <2>5. \A d \in Client : Commands(CommandsTyped(d)') = Commands(CommandsTyped(d)) \ {h[c]}
    BY <2>3, <2>4
  <2> QED BY <1>4, <2>1, <2>2, <2>3, <2>5
<1> QED BY <1>5, <1>6

(* What a client does leaves what is pending as it is. *)
LEMMA ClientKeepsPending ==
  ASSUME SystemInv, SystemInv',
         \/ \E c \in Client, h \in Place : QueueMove(c, h)
         \/ \E c \in Client, n \in Node : SendMove(c, n) \/ AskMove(c, n)
         \/ NoMove
  PROVE  UNCHANGED Pending
<1>1. /\ Pending = UNION {InFlight(d) : d \in Client}
      /\ Pending' = UNION {InFlight(d)' : d \in Client}
  BY PendingIsInFlight, PendingIsInFlightNext
<1>2. SUFFICES \A d \in Client : InFlight(d)' = InFlight(d)
  BY <1>1
<1>3. ASSUME NEW d \in Client, \A m \in Node : CommandsSent(d, m)' = CommandsSent(d, m),
             CommandsGiven(d)' = CommandsGiven(d), request'[d] = request[d]
      PROVE  InFlight(d)' = InFlight(d)
  BY <1>3, InFlightNext DEF InFlight
<1>4. CASE NoMove
  BY <1>3, <1>4 DEF NoMove, SentStays, GivenStays, QueuedStays
<1>5. ASSUME NEW c \in Client, NEW h \in Place, QueueMove(c, h), NEW d \in Client
      PROVE  InFlight(d)' = InFlight(d)
  <2>1. \A m \in Node : CommandsSent(d, m)' = CommandsSent(d, m)
    BY <1>5 DEF QueueMove, SentStays
  <2>2. CASE d # c
    BY <1>3, <1>5, <2>1, <2>2 DEF QueueMove, GivenStays, QueuedStays
  <2>3. CASE d = c
    <3>1. /\ CommandsGiven(c) = Join(<<h>>, CommandsGiven(c)')
          /\ \/ request'[c] = Join(request[c], <<h>>)
             \/ request'[c] = request[c] /\ h = Nil
      BY <1>5 DEF QueueMove
    <3>2. /\ <<h>> \in Row /\ Commands(<<h>>) = {h} \ {Nil}
          /\ CommandsGiven(c)' \in Row /\ request[c] \in Row
      BY ClientParts, ClientPartsNext, OneCommand DEF Row
    <3>3. Commands(CommandsGiven(c)) = ({h} \ {Nil}) \cup Commands(CommandsGiven(c)')
      BY <3>1, <3>2, JoinHas
    <3>4. Commands(request'[c]) = Commands(request[c]) \cup ({h} \ {Nil})
      BY <3>1, <3>2, JoinHas
    <3> QED BY <2>1, <2>3, <3>3, <3>4, InFlightNext DEF InFlight
  <2> QED BY <2>2, <2>3
<1>6. ASSUME NEW c \in Client, NEW n \in Node, SendMove(c, n) \/ AskMove(c, n), NEW d \in Client
      PROVE  InFlight(d)' = InFlight(d)
  <2>1. SentStays({<<c, n>>}) /\ CommandsGiven(d)' = CommandsGiven(d)
    BY <1>6 DEF SendMove, AskMove, GivenStays
  <2>2. ASSUME NEW m \in Node, ~(d = c /\ m = n)
        PROVE  CommandsSent(d, m)' = CommandsSent(d, m)
    <3>1. <<d, m>> \notin {<<c, n>>}
      BY <2>2
    <3> QED BY <2>1, <3>1 DEF SentStays
  <2>3. CASE d # c
    <3>1. request'[d] = request[d]
      BY <1>6, <2>3 DEF SendMove, AskMove, QueuedStays
    <3> QED BY <1>3, <2>1, <2>2, <2>3, <3>1
  <2>4. CommandsSent(c, n) \in Row /\ request[c] \in Row
    BY Parts, ClientParts
  <2>5. CASE d = c /\ SendMove(c, n)
    <3>1. CommandsSent(c, n)' = Join(CommandsSent(c, n), request[c]) /\ request'[c] = <<>>
      BY <2>5 DEF SendMove
    <3>2. /\ Commands(CommandsSent(c, n)') = Commands(CommandsSent(c, n)) \cup Commands(request[c])
          /\ Commands(request'[c]) = {}
      BY <2>4, <3>1, JoinHas, NoCommand
    <3> QED BY <2>1, <2>2, <2>5, <3>2, InFlightNext DEF InFlight
  <2>6. CASE d = c /\ AskMove(c, n)
    <3>1. CommandsSent(c, n)' = Join(CommandsSent(c, n), <<Nil>>) /\ request'[c] = request[c]
      BY <2>6 DEF AskMove, QueuedStays
    <3>2. <<Nil>> \in Row /\ Commands(<<Nil>>) = {}
      BY NoCommand, OneCommand DEF Row
    <3>3. Commands(CommandsSent(c, n)') = Commands(CommandsSent(c, n))
      <4>1. Commands(Join(CommandsSent(c, n), <<Nil>>))
              = Commands(CommandsSent(c, n)) \cup Commands(<<Nil>>)
        BY <2>4, <3>2, JoinHas
      <4> QED BY <3>1, <3>2, <4>1
    <3> QED BY <2>1, <2>2, <2>6, <3>1, <3>3, InFlightNext DEF InFlight
  <2> QED BY <1>6, <2>3, <2>5, <2>6
<1> QED BY <1>4, <1>5, <1>6

(* A command is given to the system once, and then taken by one leader or  *)
(* lost, never both and never twice, and what was lost does not come back: *)
(* System implements Delivery.  The order of the commands is what makes it *)
(* true: a command that is first in a queue is behind it no more           *)
(* (controller.cc:181-198, client.cc:63-69, followerCycle.cc:117-120).     *)
THEOREM CommandsAreTakenOnce == SystemSpec => DeliversAtMostOnce
<1> DEFINE logged == [i \in DOMAIN accepted |-> accepted[i].cmd]
           Step == \/ \E cmd \in Cmd : Fate!Give(cmd) \/ Fate!Take(cmd) \/ Fate!Lose(cmd)
                   \/ UNCHANGED <<Ungiven, Pending, logged>>
<1>1. SystemInit => Fate!DeliveryInit
  <2> SUFFICES ASSUME SystemInit PROVE Ungiven \subseteq Cmd /\ Pending = {} /\ logged = <<>>
    BY DEF Fate!DeliveryInit
  <2>1. accepted = <<>> /\ request = [c \in Client |-> <<>>]
    BY DEF SystemInit, ClientInit
  <2>2. \A c \in Client : link[Root][c] = <<>> /\ \A n \in Node : link[c][n] = <<>>
    BY Ranks DEF SystemInit, LinkInit
  <2>3. logged = <<>>
    BY <2>1
  <2>4. Pending = {}
    BY <2>1, <2>2 DEF Pending
  <2> QED BY <2>3, <2>4 DEF Ungiven
<1>2. SystemInit => Apart
  BY ApartInit
<1>3. SystemInv /\ SystemInv' /\ InOrder /\ Apart /\ [SystemNext]_vars => Apart'
  BY StepsMove, ApartStep
<1>4. SystemInv /\ SystemInv' /\ InOrder /\ Apart /\ [SystemNext]_vars
        => [Fate!DeliveryNext]_(Fate!deliveryVars)
  <2> SUFFICES ASSUME SystemInv, SystemInv', InOrder, Apart, [SystemNext]_vars
               PROVE  Step
    BY DEF Fate!DeliveryNext, Fate!deliveryVars
  <2>1. ASSUME TakenStays PROVE UNCHANGED logged
    BY <2>1 DEF TakenStays
  <2>2. ASSUME NEW h \in [Client -> Place], GiveMove(h) PROVE Step
    <3>1. UNCHANGED logged
      BY <2>1, <2>2 DEF GiveMove
    <3>2. CASE UNCHANGED <<Ungiven, Pending>>
      BY <3>1, <3>2
    <3>3. ASSUME NEW cmd \in Cmd, cmd \in Ungiven, Ungiven' = Ungiven \ {cmd},
                 Pending' = Pending \cup {cmd}
          PROVE  Step
      <4>1. Fate!Give(cmd)
        BY <3>1, <3>3 DEF Fate!Give
      <4> QED BY <4>1
    <3> QED BY <2>2, <3>2, <3>3, GiveStep
  <2>3. CASE \/ \E c \in Client, h \in Place : QueueMove(c, h)
             \/ \E c \in Client, n \in Node : SendMove(c, n) \/ AskMove(c, n)
             \/ NoMove
    <3>1. UNCHANGED Pending
      BY <2>3, ClientKeepsPending
    <3>2. UNCHANGED logged
      BY <2>1, <2>3 DEF QueueMove, SendMove, AskMove, NoMove
    <3>3. UNCHANGED Ungiven
      BY <2>3, TypedStaysUngiven DEF QueueMove, SendMove, AskMove, NoMove
    <3> QED BY <3>1, <3>2, <3>3
  <2>4. ASSUME NEW c \in Client, NEW n \in Node, NEW h \in Place, LoseMove(c, n, h) PROVE Step
    <3>1. /\ h = Nil => Pending' = Pending
          /\ h # Nil => h \in Pending /\ Pending' = Pending \ {h}
      BY <2>4, HeadLeaves DEF LoseMove
    <3>2. UNCHANGED logged /\ UNCHANGED Ungiven
      BY <2>1, <2>4, TypedStaysUngiven DEF LoseMove
    <3>3. CASE h = Nil
      BY <3>1, <3>2, <3>3
    <3>4. CASE h # Nil
      <4>1. h \in Cmd /\ Fate!Lose(h)
        BY <3>1, <3>2, <3>4 DEF Fate!Lose, Place
      <4> QED BY <4>1
    <3> QED BY <3>3, <3>4
  <2>5. ASSUME NEW c \in Client, NEW n \in Node, NEW h \in Place, TakeMove(n, c, h) PROVE Step
    <3>1. h \in Cmd /\ h # Nil
      BY <2>5, NumberingAssumption DEF TakeMove
    <3>2. h \in Pending /\ Pending' = Pending \ {h}
      BY <2>5, <3>1, HeadLeaves DEF TakeMove
    <3>3. logged' = Append(logged, h)
      <4> DEFINE e == [node |-> n, client |-> c, cmd |-> h]
      <4>1. accepted \in Seq(Acceptance) /\ accepted' = Append(accepted, e) /\ e.cmd = h
        BY <2>5 DEF TakeMove, SystemInv, StateTyped, Acceptance
      <4> HIDE DEF e
      <4>2. logged' = [i \in DOMAIN accepted' |-> accepted'[i].cmd]
        OBVIOUS
      <4>3. /\ DOMAIN accepted = 1 .. Len(accepted) /\ Len(accepted) \in Nat
            /\ DOMAIN accepted' = 1 .. Len(accepted) + 1
            /\ \A i \in 1 .. Len(accepted) : accepted'[i] = accepted[i]
            /\ accepted'[Len(accepted) + 1] = e
        BY <4>1
      <4>4. /\ logged = [i \in 1 .. Len(accepted) |-> accepted[i].cmd]
            /\ Len(logged) = Len(accepted)
        BY <4>3
      <4> QED BY <4>1, <4>2, <4>3, <4>4
    <3>4. UNCHANGED Ungiven
      BY <2>5, TypedStaysUngiven DEF TakeMove
    <3>5. Fate!Take(h)
      BY <3>2, <3>3, <3>4 DEF Fate!Take
    <3> QED BY <3>1, <3>5
  <2> QED BY <2>2, <2>3, <2>4, <2>5, StepsMove DEF Move
<1> QED BY <1>1, <1>2, <1>3, <1>4, SystemInvariant, CommandsStayInOrder, PTL
       DEF SystemSpec, DeliversAtMostOnce, Fate!DeliverySpec
==============================================================================
