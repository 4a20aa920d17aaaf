---------------------------- MODULE MailboxProofs -----------------------------
(***************************************************************************)
(* The operations of the mailbox keep it well-typed: what is sent, taken   *)
(* and reinjected is always a message of src/rpc.  RaftProofs cites these  *)
(* lemmas for every handler.                                               *)
(***************************************************************************)
EXTENDS Mailbox, TLAPS

-----------------------------------------------------------------------------
(* Messages.                                                               *)

(* The constructors build messages of NodeRpc (src/rpc). *)
LEMMA RequestVoteType ==
  ASSUME NEW t \in Nat, NEW i \in Index, NEW lt \in Index
  PROVE  RequestVote(t, i, lt) \in NodeRpc
BY DEF RequestVote, NodeRpc

LEMMA RequestVoteResponseType ==
  ASSUME NEW t \in Nat, NEW g \in BOOLEAN
  PROVE  RequestVoteResponse(t, g) \in NodeRpc
BY DEF RequestVoteResponse, NodeRpc

LEMMA AppendEntriesType ==
  ASSUME NEW t \in Nat, NEW pt \in Nat, NEW pi \in Int, NEW c \in Index,
         NEW es \in Seq(Entry)
  PROVE  AppendEntries(t, pt, pi, c, es) \in NodeRpc
BY DEF AppendEntries, NodeRpc

LEMMA AppendEntriesResponseType ==
  ASSUME NEW t \in Nat, NEW s \in BOOLEAN, NEW i \in Nat
  PROVE  AppendEntriesResponse(t, s, i) \in NodeRpc
BY DEF AppendEntriesResponse, NodeRpc

(* What the fields of a message are, once its type is known. *)
LEMMA NodeRpcFields ==
  ASSUME NEW rpc \in NodeRpc
  PROVE  /\ rpc.term \in Nat
         /\ rpc.type = "REQUEST_VOTE" =>
              rpc.lastLogIndex \in Index /\ rpc.lastLogTerm \in Index
         /\ rpc.type = "REQUEST_VOTE_RESPONSE" => rpc.voteGranted \in BOOLEAN
         /\ rpc.type = "APPEND_ENTRIES" =>
              /\ rpc.prevLogTerm \in Nat /\ rpc.prevLogIndex \in Int
              /\ rpc.leaderCommit \in Index /\ rpc.entries \in Seq(Entry)
         /\ rpc.type = "APPEND_ENTRIES_RESPONSE" =>
              rpc.success \in BOOLEAN /\ rpc.newIndex \in Nat
BY DEF NodeRpc

-----------------------------------------------------------------------------
(* The channels and the cache.                                             *)

(* Replacing all the channels of one sender. *)
LEMMA RowType ==
  ASSUME NEW net, ChanOK(net), NEW s \in Node,
         NEW row \in [Node \cup Client -> Seq(NodeRpc \cup ClientRpc)],
         \A d \in Node : row[d] \in Seq(NodeRpc)
  PROVE  ChanOK([net EXCEPT ![s] = row])
<1> DEFINE S == [Node \cup Client -> Seq(NodeRpc \cup ClientRpc)]
<1>1. net \in [Node -> S]  BY DEF ChanOK
<1>2. [net EXCEPT ![s] = row] \in [Node -> S] BY <1>1
<1>3. ASSUME NEW m \in Node, NEW n \in Node PROVE [net EXCEPT ![s] = row][m][n] \in Seq(NodeRpc)
  <2>1. CASE m = s  BY <2>1, <1>1
  <2>2. CASE m # s BY <2>2, <1>1 DEF ChanOK
  <2> QED BY <2>1, <2>2
<1> QED BY <1>2, <1>3 DEF ChanOK

(* Replacing one channel between two nodes. *)
LEMMA CellType ==
  ASSUME NEW net, ChanOK(net), NEW s \in Node, NEW d \in Node, NEW q \in Seq(NodeRpc)
  PROVE  ChanOK([net EXCEPT ![s][d] = q])
<1> DEFINE row == [net[s] EXCEPT ![d] = q]
<1>1. q \in Seq(NodeRpc \cup ClientRpc)
  OBVIOUS
<1>2. net[s] \in [Node \cup Client -> Seq(NodeRpc \cup ClientRpc)]
  BY DEF ChanOK
<1>3. row \in [Node \cup Client -> Seq(NodeRpc \cup ClientRpc)]
  BY <1>1, <1>2
<1>4. \A e \in Node : row[e] \in Seq(NodeRpc)
  BY <1>2 DEF ChanOK
<1>5. ChanOK([net EXCEPT ![s] = row])
  <2> HIDE DEF row
  <2> QED BY <1>3, <1>4, RowType
<1> QED BY <1>5

(* Send_Rpc to a node (mpi_include.cc:15-23). *)
LEMMA SendType ==
  ASSUME NEW net, ChanOK(net), NEW s \in Node, NEW d \in Node, NEW rpc \in NodeRpc
  PROVE  ChanOK(Send(net, s, d, rpc))
<1> DEFINE q == Append(net[s][d], rpc)
<1>1. q \in Seq(NodeRpc)
  BY DEF ChanOK
<1>2. Send(net, s, d, rpc) = [net EXCEPT ![s][d] = q]
  BY DEF Send
<1>3. ChanOK([net EXCEPT ![s][d] = q])
  <2> HIDE DEF q
  <2> QED BY <1>1, CellType
<1> QED BY <1>2, <1>3

(* After a message is taken, the cache of the receiver is empty. *)
LEMMA ReinjectedAfterType ==
  ASSUME ReinjectedOK(reinjected), NEW n \in Node
  PROVE  ReinjectedOK(ReinjectedAfter(n)) /\ ReinjectedAfter(n)[n] = <<>>
<1> DEFINE E == [rpc : NodeRpc, senderId : Node]
<1>1. reinjected[n] \in Seq(E) /\ Len(reinjected[n]) <= 1
  BY DEF ReinjectedOK
<1>2. CASE reinjected[n] # <<>>
  <2>1. Tail(reinjected[n]) = <<>> /\ Len(<<>>) <= 1 /\ <<>> \in Seq(E)
    <3> HIDE DEF E
    <3> QED BY <1>1, <1>2
  <2>2. ReinjectedAfter(n) = [reinjected EXCEPT ![n] = <<>>]
    BY <1>2, <2>1 DEF ReinjectedAfter
  <2> QED BY <2>1, <2>2 DEF ReinjectedOK
<1>3. CASE reinjected[n] = <<>>
  BY <1>3 DEF ReinjectedAfter
<1> QED BY <1>2, <1>3

(* What get_rpc_timeout returns is a message of a node. *)
LEMMA NextRpcType ==
  ASSUME ChanOK(chan), ReinjectedOK(reinjected),
         NEW n \in Node, NEW m \in Node, CanReceive(n, m)
  PROVE  NextRpc(n, m) \in NodeRpc
<1> DEFINE E == [rpc : NodeRpc, senderId : Node]
<1>1. CASE reinjected[n] # <<>>
  <2>1. reinjected[n] \in Seq(E)
    BY DEF ReinjectedOK
  <2>2. Head(reinjected[n]) \in E
    <3> HIDE DEF E
    <3> QED BY <1>1, <2>1
  <2> QED BY <1>1, <2>2 DEF NextRpc
<1>2. CASE reinjected[n] = <<>>
  <2>1. chan[m][n] # <<>> /\ chan[m][n] \in Seq(NodeRpc)
    BY <1>2 DEF CanReceive, ChanOK
  <2> QED BY <1>2, <2>1 DEF NextRpc
<1> QED BY <1>1, <1>2

(* Taking a message leaves the channels well-typed. *)
LEMMA ChanAfterType ==
  ASSUME ChanOK(chan), NEW n \in Node, NEW m \in Node, CanReceive(n, m)
  PROVE  ChanOK(ChanAfter(n, m))
<1>1. CASE reinjected[n] # <<>>
  BY <1>1 DEF ChanAfter
<1>2. CASE reinjected[n] = <<>>
  <2>1. chan[m][n] # <<>> /\ chan[m][n] \in Seq(NodeRpc)
    BY <1>2 DEF CanReceive, ChanOK
  <2> DEFINE q == Tail(chan[m][n])
  <2>2. q \in Seq(NodeRpc)
    BY <2>1
  <2>3. ChanAfter(n, m) = [chan EXCEPT ![m][n] = q]
    BY <1>2 DEF ChanAfter
  <2>4. ChanOK([chan EXCEPT ![m][n] = q])
    <3> HIDE DEF q
    <3> QED BY <2>2, CellType
  <2> QED BY <2>3, <2>4
<1> QED BY <1>1, <1>2

(* Reinjecting the message just taken. *)
LEMMA ReinjectType ==
  ASSUME ChanOK(chan), ReinjectedOK(reinjected),
         NEW n \in Node, NEW m \in Node, CanReceive(n, m)
  PROVE  ReinjectedOK(Reinject(n, m))
<1> DEFINE E == [rpc : NodeRpc, senderId : Node]
           e == [rpc |-> NextRpc(n, m), senderId |-> m]
<1>1. e \in E
  BY NextRpcType
<1>2. ReinjectedOK(ReinjectedAfter(n)) /\ ReinjectedAfter(n)[n] = <<>>
  BY ReinjectedAfterType
<1> DEFINE q == Append(<<>>, e)
<1>3. q \in Seq(E) /\ Len(q) <= 1
  <2> HIDE DEF e, E
  <2> QED BY <1>1
<1>4. Reinject(n, m) = [ReinjectedAfter(n) EXCEPT ![n] = q]
  BY <1>2 DEF Reinject
<1>5. ReinjectedOK([ReinjectedAfter(n) EXCEPT ![n] = q])
  <2> HIDE DEF q
  <2> QED BY <1>2, <1>3 DEF ReinjectedOK
<1> QED BY <1>4, <1>5

(* A loop of Send_Rpc over the other nodes. *)
LEMMA BroadcastType ==
  ASSUME NEW net, ChanOK(net), NEW s \in Node,
         NEW rpcs, \A d \in Node : rpcs[d] \in NodeRpc
  PROVE  ChanOK(Broadcast(net, s, rpcs))
<1> DEFINE row == [d \in Node \cup Client |->
                     IF d \in Node \ {s} THEN Append(net[s][d], rpcs[d])
                     ELSE net[s][d]]
<1>1. ASSUME NEW d \in Node PROVE row[d] \in Seq(NodeRpc)
  <2>1. net[s][d] \in Seq(NodeRpc) /\ rpcs[d] \in NodeRpc BY DEF ChanOK
  <2>2. Append(net[s][d], rpcs[d]) \in Seq(NodeRpc) BY <2>1
  <2> QED BY <2>1, <2>2
<1>2. ASSUME NEW d \in Node \cup Client PROVE row[d] \in Seq(NodeRpc \cup ClientRpc)
  <2>1. CASE d \in Node BY <1>1, <2>1
  <2>2. CASE d \notin Node 
    <3>1. row[d] = net[s][d] BY <2>2
    <3> QED BY <3>1 DEF ChanOK
  <2> QED BY <2>1, <2>2
<1>3. row \in [Node \cup Client -> Seq(NodeRpc \cup ClientRpc)]
  BY <1>2
<1>4. Broadcast(net, s, rpcs) = [net EXCEPT ![s] = row]
  BY DEF Broadcast
<1>5. ChanOK([net EXCEPT ![s] = row])
  <2> HIDE DEF row
  <2> QED BY <1>1, <1>3, RowType
<1> QED BY <1>4, <1>5

-----------------------------------------------------------------------------
(* Sequences.                                                              *)

LEMMA ConcatenatedElements ==
  ASSUME NEW S, NEW s \in Seq(S), NEW t \in Seq(S)
  PROVE  /\ \A i \in DOMAIN (s \o t) :
              \/ i \in DOMAIN s /\ (s \o t)[i] = s[i]
              \/ i - Len(s) \in DOMAIN t /\ (s \o t)[i] = t[i - Len(s)]
         /\ \A i \in DOMAIN s : i \in DOMAIN (s \o t) /\ (s \o t)[i] = s[i]
         /\ \A i \in DOMAIN t :
              i + Len(s) \in DOMAIN (s \o t) /\ (s \o t)[i + Len(s)] = t[i]
<1> DEFINE st == s \o t
<1>1. /\ st \in Seq(S) /\ Len(st) = Len(s) + Len(t)
      /\ Len(s) \in Nat /\ Len(t) \in Nat
      /\ \A i \in 1 .. Len(s) + Len(t) :
           st[i] = IF i <= Len(s) THEN s[i] ELSE t[i - Len(s)]
  OBVIOUS
<1>2. DOMAIN s = 1 .. Len(s) /\ DOMAIN t = 1 .. Len(t)
  OBVIOUS
<1> HIDE DEF st
<1>3. DOMAIN st = 1 .. Len(s) + Len(t)
  BY <1>1
<1>4. ASSUME NEW i \in DOMAIN st
      PROVE  \/ i \in DOMAIN s /\ st[i] = s[i]
             \/ i - Len(s) \in DOMAIN t /\ st[i] = t[i - Len(s)]
  BY <1>1, <1>2, <1>3
<1>5. ASSUME NEW i \in DOMAIN s
      PROVE  i \in DOMAIN st /\ st[i] = s[i]
  BY <1>1, <1>2, <1>3
<1>6. ASSUME NEW i \in DOMAIN t
      PROVE  i + Len(s) \in DOMAIN st /\ st[i + Len(s)] = t[i]
  <2>1. /\ i + Len(s) \in 1 .. Len(s) + Len(t) /\ ~(i + Len(s) <= Len(s))
        /\ i + Len(s) - Len(s) = i
    BY <1>1, <1>2
  <2> QED BY <1>1, <1>3, <2>1
<1> QED BY <1>4, <1>5, <1>6 DEF st

LEMMA AppendConcatenated ==
  ASSUME NEW S, NEW s \in Seq(S), NEW t \in Seq(S), NEW e \in S
  PROVE  s \o Append(t, e) = Append(s \o t, e)
OBVIOUS

(* The elements of a queue with one more, and with one less. *)
LEMMA AppendElement ==
  ASSUME NEW S, NEW q \in Seq(S), NEW e \in S, NEW i \in DOMAIN Append(q, e)
  PROVE  \/ Append(q, e)[i] = e
         \/ i \in DOMAIN q /\ Append(q, e)[i] = q[i]
<1>1. Append(q, e) \in Seq(S) /\ Len(Append(q, e)) = Len(q) + 1 /\ Len(q) \in Nat
  OBVIOUS
<1>2. i \in 1 .. Len(q) + 1
  BY <1>1
<1>3. DOMAIN q = 1 .. Len(q)
  OBVIOUS
<1> QED BY <1>1, <1>2, <1>3

(* The same for the queue after its head is taken. *)
LEMMA TailElement ==
  ASSUME NEW S, NEW q \in Seq(S), q # <<>>, NEW i \in DOMAIN Tail(q)
  PROVE  i + 1 \in DOMAIN q /\ Tail(q)[i] = q[i + 1]
<1>1. Tail(q) \in Seq(S) /\ Len(Tail(q)) = Len(q) - 1 /\ Len(q) \in Nat
  OBVIOUS
<1>2. i \in 1 .. Len(q) - 1
  BY <1>1
<1>3. DOMAIN q = 1 .. Len(q)
  OBVIOUS
<1> QED BY <1>1, <1>2, <1>3

-----------------------------------------------------------------------------
(* What is under way from one node to another is a queue: the message the  *)
(* receiver handed back, if it came from that sender, and then the channel.*)

Cached(cache, m, n) ==
  IF cache[n] # <<>> /\ Head(cache[n]).senderId = m
  THEN <<Head(cache[n]).rpc>>
  ELSE <<>>

Queue(net, cache, m, n) == Cached(cache, m, n) \o net[m][n]

(* The queue holds messages of nodes. *)
LEMMA QueueType ==
  ASSUME NEW net, ChanOK(net), NEW cache, ReinjectedOK(cache),
         NEW m \in Node, NEW n \in Node
  PROVE  /\ Cached(cache, m, n) \in Seq(NodeRpc) /\ net[m][n] \in Seq(NodeRpc)
         /\ Queue(net, cache, m, n) \in Seq(NodeRpc)
<1> DEFINE E == [rpc : NodeRpc, senderId : Node]
<1>1. net[m][n] \in Seq(NodeRpc)
  BY DEF ChanOK
<1>2. cache[n] \in Seq(E)
  BY DEF ReinjectedOK
<1>3. cache[n] # <<>> => Head(cache[n]) \in E
  <2> HIDE DEF E
  <2> QED BY <1>2
<1>4. Cached(cache, m, n) \in Seq(NodeRpc)
  BY <1>3 DEF Cached
<1> QED BY <1>1, <1>4 DEF Queue

(* The queue holds what is under way, and nothing else. *)
LEMMA QueueUnderWay ==
  ASSUME NEW net, ChanOK(net), NEW cache, ReinjectedOK(cache),
         NEW m \in Node, NEW n \in Node
  PROVE  \A x : x \in UnderWay(net, cache, m, n) <=>
                \E i \in DOMAIN Queue(net, cache, m, n) : x = Queue(net, cache, m, n)[i]
<1> DEFINE c == Cached(cache, m, n)
           q == net[m][n]
<1>1. c \in Seq(NodeRpc) /\ q \in Seq(NodeRpc)
  BY QueueType
<1>2. UnderWay(net, cache, m, n) = {q[i] : i \in DOMAIN q} \cup {c[i] : i \in DOMAIN c}
  <2> DEFINE mine == {i \in DOMAIN cache[n] : cache[n][i].senderId = m}
  <2>1. {cache[n][i].rpc : i \in mine} = {c[i] : i \in DOMAIN c}
    <3>1. cache[n] \in Seq([rpc : NodeRpc, senderId : Node]) /\ Len(cache[n]) <= 1
      BY DEF ReinjectedOK
    <3>2. CASE cache[n] = <<>>
      BY <3>2 DEF Cached
    <3>3. CASE cache[n] # <<>>
      <4>1. DOMAIN cache[n] = {1} /\ Head(cache[n]) = cache[n][1]
        <5>1. Len(cache[n]) = 1
          <6> DEFINE w == cache[n]
                     E == [rpc : NodeRpc, senderId : Node]
          <6>1. w \in Seq(E) /\ Len(w) <= 1 /\ w # <<>>
            BY <3>1, <3>3
          <6> HIDE DEF w, E
          <6>2. Len(w) = 1
            BY <6>1
          <6> QED BY <6>2 DEF w
        <5> QED BY <3>1, <5>1
      <4>2. CASE cache[n][1].senderId = m
        <5>1. mine = {1}
          BY <4>1, <4>2
        <5>2. c = <<cache[n][1].rpc>>
          BY <3>3, <4>1, <4>2 DEF Cached
        <5> HIDE DEF c, mine
        <5>3. DOMAIN c = {1} /\ c[1] = cache[n][1].rpc
          BY <5>2
        <5> QED BY <5>1, <5>3
      <4>3. CASE cache[n][1].senderId # m
        <5>1. mine = {}
          BY <4>1, <4>3
        <5>2. c = <<>>
          BY <4>1, <4>3 DEF Cached
        <5> HIDE DEF c, mine
        <5> QED BY <5>1, <5>2
      <4> QED BY <4>2, <4>3
    <3> QED BY <3>2, <3>3
  <2> HIDE DEF c
  <2> QED BY <2>1 DEF UnderWay
<1> HIDE DEF c, q
<1> DEFINE all == c \o q
<1>3. /\ \A i \in DOMAIN all : \/ i \in DOMAIN c /\ all[i] = c[i]
                               \/ i - Len(c) \in DOMAIN q /\ all[i] = q[i - Len(c)]
      /\ \A i \in DOMAIN c : i \in DOMAIN all /\ all[i] = c[i]
      /\ \A i \in DOMAIN q : i + Len(c) \in DOMAIN all /\ all[i + Len(c)] = q[i]
  BY <1>1, ConcatenatedElements
<1>4. Queue(net, cache, m, n) = all
  BY DEF Queue, c, q
<1> HIDE DEF all
<1>5. \A x : x \in UnderWay(net, cache, m, n) <=> \E i \in DOMAIN all : x = all[i]
  BY <1>2, <1>3
<1> QED BY <1>4, <1>5

(* What is under way between two nodes is a message of a node. *)
LEMMA UnderWayType ==
  ASSUME NEW net, ChanOK(net), NEW cache, ReinjectedOK(cache),
         NEW m \in Node, NEW n \in Node, NEW rpc \in UnderWay(net, cache, m, n)
  PROVE  rpc \in NodeRpc
<1> DEFINE q == Queue(net, cache, m, n)
<1>1. q \in Seq(NodeRpc)
  BY QueueType
<1>2. PICK i \in DOMAIN q : rpc = q[i]
  BY QueueUnderWay
<1> HIDE DEF q
<1> QED BY <1>1, <1>2

(* Send_Rpc puts a message at the end of one queue. *)
LEMMA SendQueue ==
  ASSUME NEW net, ChanOK(net), NEW cache, ReinjectedOK(cache),
         NEW s \in Node, NEW d \in Node, NEW rpc \in NodeRpc, NEW m \in Node, NEW n \in Node
  PROVE  Queue(Send(net, s, d, rpc), cache, m, n) =
           IF m = s /\ n = d THEN Append(Queue(net, cache, m, n), rpc)
           ELSE Queue(net, cache, m, n)
<1>1. net \in [Node -> [Node \cup Client -> Seq(NodeRpc \cup ClientRpc)]]
  BY DEF ChanOK
<1>2. Send(net, s, d, rpc)[m][n] =
        IF m = s /\ n = d THEN Append(net[m][n], rpc) ELSE net[m][n]
  BY <1>1 DEF Send
<1> DEFINE c == Cached(cache, m, n)
           q == net[m][n]
<1>3. c \in Seq(NodeRpc) /\ q \in Seq(NodeRpc)
  BY QueueType
<1>4. c \o Append(q, rpc) = Append(c \o q, rpc)
  <2> HIDE DEF c, q
  <2> QED BY <1>3, AppendConcatenated
<1> QED BY <1>2, <1>4 DEF Queue

(* A loop of Send_Rpc puts one at the end of every queue of the sender. *)
LEMMA BroadcastQueue ==
  ASSUME NEW net, ChanOK(net), NEW cache, ReinjectedOK(cache), NEW s \in Node,
         NEW rpcs, NEW m \in Node, NEW n \in Node, rpcs[n] \in NodeRpc
  PROVE  Queue(Broadcast(net, s, rpcs), cache, m, n) =
           IF m = s /\ n # s THEN Append(Queue(net, cache, m, n), rpcs[n])
           ELSE Queue(net, cache, m, n)
<1>1. net \in [Node -> [Node \cup Client -> Seq(NodeRpc \cup ClientRpc)]]
  BY DEF ChanOK
<1>2. Broadcast(net, s, rpcs)[m][n] =
        IF m = s /\ n # s THEN Append(net[m][n], rpcs[n]) ELSE net[m][n]
  BY <1>1 DEF Broadcast
<1> DEFINE c == Cached(cache, m, n)
           q == net[m][n]
           rpc == rpcs[n]
<1>3. c \in Seq(NodeRpc) /\ q \in Seq(NodeRpc) /\ rpc \in NodeRpc
  BY QueueType
<1>4. c \o Append(q, rpc) = Append(c \o q, rpc)
  <2> HIDE DEF c, q, rpc
  <2> QED BY <1>3, AppendConcatenated
<1> QED BY <1>2, <1>4 DEF Queue

(* get_rpc_timeout takes the head of the queue, wherever it was. *)
LEMMA TakeQueue ==
  ASSUME ChanOK(chan), ReinjectedOK(reinjected),
         NEW n \in Node, NEW m \in Node, CanReceive(n, m), NEW a \in Node, NEW b \in Node
  PROVE  /\ Queue(chan, reinjected, m, n) # <<>>
         /\ NextRpc(n, m) = Head(Queue(chan, reinjected, m, n))
         /\ Queue(ChanAfter(n, m), ReinjectedAfter(n), a, b) =
              IF a = m /\ b = n THEN Tail(Queue(chan, reinjected, a, b))
              ELSE Queue(chan, reinjected, a, b)
<1>1. /\ chan \in [Node -> [Node \cup Client -> Seq(NodeRpc \cup ClientRpc)]]
      /\ reinjected \in [Node -> Seq([rpc : NodeRpc, senderId : Node])]
      /\ chan[m][n] \in Seq(NodeRpc) /\ chan[a][b] \in Seq(NodeRpc)
  BY DEF ChanOK, ReinjectedOK
<1>2. CASE reinjected[n] # <<>>
  <2> DEFINE e == Head(reinjected[n]).rpc
  <2>1. ChanAfter(n, m) = chan /\ Head(reinjected[n]).senderId = m /\ NextRpc(n, m) = e
    BY <1>2 DEF ChanAfter, CanReceive, NextRpc
  <2>2. ReinjectedAfter(n)[b] = IF b = n THEN <<>> ELSE reinjected[b]
    <3>1. CASE b = n
      BY <3>1, ReinjectedAfterType
    <3>2. CASE b # n
      BY <1>1, <3>2 DEF ReinjectedAfter
    <3> QED BY <3>1, <3>2
  <2>3. Cached(reinjected, m, n) = <<e>>
    BY <1>2, <2>1 DEF Cached
  <2>4. /\ <<e>> \o chan[m][n] # <<>> /\ Head(<<e>> \o chan[m][n]) = e
        /\ Tail(<<e>> \o chan[m][n]) = chan[m][n] /\ <<>> \o chan[m][n] = chan[m][n]
    <3> DEFINE q == chan[m][n]
    <3>1. q \in Seq(NodeRpc) /\ e \in NodeRpc
      BY <1>1, <2>1, NextRpcType
    <3> HIDE DEF e, q
    <3>2. <<e>> \in Seq(NodeRpc) /\ Len(<<e>>) = 1 /\ <<e>>[1] = e
      BY <3>1
    <3>3. <<e>> \o q # <<>> /\ Head(<<e>> \o q) = e /\ Tail(<<e>> \o q) = q
      BY <3>1, <3>2
    <3>4. <<>> \o q = q
      BY <3>1
    <3> QED BY <3>3, <3>4 DEF q
  <2>5. /\ Queue(chan, reinjected, m, n) # <<>>
        /\ NextRpc(n, m) = Head(Queue(chan, reinjected, m, n))
    BY <2>1, <2>3, <2>4 DEF Queue
  <2>6. CASE b = n /\ a = m
    BY <2>1, <2>2, <2>3, <2>4, <2>5, <2>6 DEF Queue, Cached
  <2>7. CASE b = n /\ a # m
    BY <2>1, <2>2, <2>5, <2>7 DEF Queue, Cached
  <2>8. CASE b # n
    BY <2>1, <2>2, <2>5, <2>8 DEF Queue, Cached
  <2> QED BY <2>6, <2>7, <2>8
<1>3. CASE reinjected[n] = <<>>
  <2>1. /\ ReinjectedAfter(n) = reinjected /\ chan[m][n] # <<>>
        /\ NextRpc(n, m) = Head(chan[m][n])
        /\ ChanAfter(n, m)[a][b] = IF a = m /\ b = n THEN Tail(chan[a][b]) ELSE chan[a][b]
    BY <1>1, <1>3 DEF ReinjectedAfter, CanReceive, ChanAfter, NextRpc
  <2>2. Cached(reinjected, m, n) = <<>>
    BY <1>3 DEF Cached
  <2>3. <<>> \o chan[m][n] = chan[m][n] /\ <<>> \o Tail(chan[m][n]) = Tail(chan[m][n])
    BY <1>1, <2>1
  <2>4. Queue(chan, reinjected, m, n) = chan[m][n]
    BY <2>2, <2>3 DEF Queue
  <2>5. CASE a = m /\ b = n
    BY <2>1, <2>2, <2>3, <2>4, <2>5 DEF Queue
  <2>6. CASE ~(a = m /\ b = n)
    BY <2>1, <2>4, <2>6 DEF Queue
  <2> QED BY <2>5, <2>6
<1> QED BY <1>2, <1>3

(* reinject_rpc leaves every queue as it was. *)
LEMMA ReinjectQueue ==
  ASSUME ChanOK(chan), ReinjectedOK(reinjected),
         NEW n \in Node, NEW m \in Node, CanReceive(n, m), NEW a \in Node, NEW b \in Node
  PROVE  Queue(ChanAfter(n, m), Reinject(n, m), a, b) = Queue(chan, reinjected, a, b)
<1> DEFINE e == [rpc |-> NextRpc(n, m), senderId |-> m]
           q == Queue(chan, reinjected, m, n)
<1>1. ReinjectedOK(ReinjectedAfter(n)) /\ ReinjectedAfter(n)[n] = <<>>
  BY ReinjectedAfterType
<1>2. Reinject(n, m)[b] = IF b = n THEN <<e>> ELSE ReinjectedAfter(n)[b]
  BY <1>1 DEF Reinject, ReinjectedOK
<1>3. /\ q # <<>> /\ NextRpc(n, m) = Head(q)
      /\ Queue(ChanAfter(n, m), ReinjectedAfter(n), a, b) =
           IF a = m /\ b = n THEN Tail(Queue(chan, reinjected, a, b))
           ELSE Queue(chan, reinjected, a, b)
  BY TakeQueue
<1>4. Head(<<e>>) = e /\ <<e>> # <<>>
  <2> HIDE DEF e
  <2> QED OBVIOUS
<1>5. CASE b = n /\ a = m
  <2>1. Cached(Reinject(n, m), a, b) = <<Head(q)>> /\ Cached(ReinjectedAfter(n), a, b) = <<>>
    BY <1>1, <1>2, <1>3, <1>4, <1>5 DEF Cached
  <2>2. /\ q \in Seq(NodeRpc) /\ ChanOK(ChanAfter(n, m))
    BY QueueType, ChanAfterType
  <2>3. ChanAfter(n, m)[a][b] \in Seq(NodeRpc)
    BY <2>2 DEF ChanOK
  <2>4. ChanAfter(n, m)[a][b] = Tail(q)
    <3>1. <<>> \o ChanAfter(n, m)[a][b] = ChanAfter(n, m)[a][b]
      BY <2>3
    <3> QED BY <1>3, <1>5, <2>1, <3>1 DEF Queue
  <2>5. <<Head(q)>> \o Tail(q) = q
    <3> HIDE DEF q
    <3> QED BY <1>3, <2>2
  <2> QED BY <1>5, <2>1, <2>4, <2>5 DEF Queue
<1>6. CASE b = n /\ a # m
  <2>1. Cached(Reinject(n, m), a, b) = <<>> /\ Cached(ReinjectedAfter(n), a, b) = <<>>
    BY <1>1, <1>2, <1>4, <1>6 DEF Cached
  <2> QED BY <1>3, <1>6, <2>1 DEF Queue
<1>7. CASE b # n
  <2>1. Cached(Reinject(n, m), a, b) = Cached(ReinjectedAfter(n), a, b)
    BY <1>2, <1>7 DEF Cached
  <2> QED BY <1>3, <1>7, <2>1 DEF Queue
<1> QED BY <1>5, <1>6, <1>7

(* The message get_rpc_timeout returns was under way. *)
LEMMA NextRpcUnderWay ==
  ASSUME ChanOK(chan), ReinjectedOK(reinjected),
         NEW n \in Node, NEW m \in Node, CanReceive(n, m)
  PROVE  NextRpc(n, m) \in UnderWay(chan, reinjected, m, n)
<1> DEFINE q == Queue(chan, reinjected, m, n)
<1>1. q \in Seq(NodeRpc) /\ q # <<>> /\ NextRpc(n, m) = Head(q)
  BY QueueType, TakeQueue
<1> HIDE DEF q
<1>2. 1 \in DOMAIN q /\ Head(q) = q[1]
  BY <1>1
<1> QED BY <1>1, <1>2, QueueUnderWay DEF q
==============================================================================
