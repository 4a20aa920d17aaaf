-------------------------------- MODULE Links ---------------------------------
(***************************************************************************)
(* The processes of the program (GlobalConfig, main.cc) and the messages   *)
(* between them, as the controller and the clients see them.  As in        *)
(* Mailbox, every ordered pair has a FIFO queue of its own and a message   *)
(* stays in it as long as it likes; what nodes send each other is left to  *)
(* Mailbox.                                                                *)
(***************************************************************************)
EXTENDS Rpc

CONSTANT Root    \* rank 0, the controller

VARIABLE link    \* link[s][d]: messages from s that d has not taken

Process == {Root} \cup Node \cup Client

ASSUME RankAssumption ==
  /\ Root \notin Node \cup Client
  /\ Node \cap Client = {}
  /\ Nil \notin Process

LinkInit == link = [s \in Process |-> [d \in Process |-> <<>>]]

Waiting(s, d) == link[s][d] # <<>>

(* The message d receives from s next, and the queues once it has. *)
NextFrom(s, d) == Head(link[s][d])

Taken(s, d) == [link EXCEPT ![s][d] = Tail(@)]

(* Send_Rpc in a loop: the messages rpcs go from s to d. *)
SendEach(net, s, d, rpcs) == [net EXCEPT ![s][d] = @ \o rpcs]
==============================================================================
