------------------------------- MODULE Mailbox -------------------------------
(***************************************************************************)
(* How a process sends and receives (src/wrappers/mpi_include.cc and       *)
(* src/wrappers/mpi/rpcRecieverReinjecter.cc).                             *)
(*                                                                         *)
(* Send_Rpc posts a standard-mode MPI_Isend with one tag and one           *)
(* communicator, so MPI delivers the messages of one ordered pair of       *)
(* processes reliably and in the order they were sent, while nothing       *)
(* orders messages of different senders: chan[s][d] is a FIFO queue for    *)
(* every pair.  How long a message stays in its queue is arbitrary.        *)
(*                                                                         *)
(* A receiver asks with MPI_ANY_SOURCE, and a message it handed back with  *)
(* reinject_rpc is returned before anything is taken from MPI.             *)
(***************************************************************************)
EXTENDS Rpc

VARIABLES chan,        \* chan[s][d]: messages from s that d has not taken
          reinjected   \* reinjected[n]: the cache reinjected_messages_ of n

mailboxVars == <<chan, reinjected>>

MailboxInit ==
  /\ chan = [s \in Node |-> [d \in Node \cup Client |-> <<>>]]
  /\ reinjected = [n \in Node |-> <<>>]

(* Send_Rpc(rpc, d) by s; net is chan, or chan after an earlier operation. *)
Send(net, s, d, rpc) == [net EXCEPT ![s][d] = Append(@, rpc)]

(* Not part of the specification: a Broadcast that overtakes what is under *)
(* way, to see that the properties depend on the order of messages.        *)
BroadcastOvertakes(net, s, rpcs) ==
  [net EXCEPT ![s] = [d \in Node \cup Client |->
     IF d \in Node \ {s} THEN <<rpcs[d]>> \o net[s][d] ELSE net[s][d]]]

(* A loop of Send_Rpc over every other node: rpcs[d] goes to d. *)
Broadcast(net, s, rpcs) ==
  [net EXCEPT ![s] = [d \in Node \cup Client |->
     IF d \in Node \ {s} THEN Append(net[s][d], rpcs[d]) ELSE net[s][d]]]

(* get_rpc_timeout at n may return a message that m sent. *)
CanReceive(n, m) ==
  IF reinjected[n] # <<>>
  THEN Head(reinjected[n]).senderId = m
  ELSE chan[m][n] # <<>>

(* The message it returns, and the two queues once it has. *)
NextRpc(n, m) ==
  IF reinjected[n] # <<>> THEN Head(reinjected[n]).rpc ELSE Head(chan[m][n])

ChanAfter(n, m) ==
  IF reinjected[n] # <<>> THEN chan ELSE [chan EXCEPT ![m][n] = Tail(@)]

ReinjectedAfter(n) ==
  IF reinjected[n] # <<>> THEN [reinjected EXCEPT ![n] = Tail(@)]
                          ELSE reinjected

(* reinject_rpc: the message just taken goes to the back of the cache. *)
Reinject(n, m) ==
  [ReinjectedAfter(n) EXCEPT
     ![n] = Append(@, [rpc |-> NextRpc(n, m), senderId |-> m])]

(* get_rpc_timeout returns nullptr: it can do so whenever the cache is     *)
(* empty, since the messages of chan may not have arrived yet.             *)
CanTimeOut(n) == reinjected[n] = <<>>

(* The messages of m that n has not handled yet, in the channels net and   *)
(* the caches cache.                                                       *)
UnderWay(net, cache, m, n) ==
  {net[m][n][i] : i \in DOMAIN net[m][n]}
    \cup {cache[n][i].rpc :
            i \in {k \in DOMAIN cache[n] : cache[n][k].senderId = m}}

-----------------------------------------------------------------------------
(* The types.  A node never holds more than one reinjected message: it     *)
(* reinjects only what it has just taken, and takes that back next.        *)
ChanOK(net) ==
  /\ net \in [Node -> [Node \cup Client -> Seq(NodeRpc \cup ClientRpc)]]
  /\ \A m, n \in Node : net[m][n] \in Seq(NodeRpc)

ReinjectedOK(cache) ==
  /\ cache \in [Node -> Seq([rpc : NodeRpc, senderId : Node])]
  /\ \A n \in Node : Len(cache[n]) <= 1
==============================================================================
