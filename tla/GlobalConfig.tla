----------------------------- MODULE GlobalConfig -----------------------------
(***************************************************************************)
(* Who is who (src/config/globalConfig.cc and main.cc): the ranks of the   *)
(* job are shared out between the controller, the nodes and the clients.   *)
(* nb_node and nb_client come from the command line or from the first two  *)
(* numbers of a command file.                                              *)
(***************************************************************************)
EXTENDS Integers, TLAPS

initConfig(nb_node, nb_client) ==
  LET node_min == 1
      node_max == node_min + nb_node - 1
      client_min == node_max + 1
  IN  [nb_node_min |-> node_min, nb_node_max |-> node_max,
       nb_client_min |-> client_min, nb_client_max |-> client_min + nb_client - 1]

is_controller(rank) == rank = 0

is_node(config, rank) == config.nb_node_min <= rank /\ rank <= config.nb_node_max

is_client(config, rank) == config.nb_client_min <= rank /\ rank <= config.nb_client_max

NodeRanks(config) == config.nb_node_min .. config.nb_node_max

ClientRanks(config) == config.nb_client_min .. config.nb_client_max

(* main goes on with that many processes. *)
Starts(size, nb_node, nb_client) == size = nb_node + nb_client + 1 /\ size >= 2

(* What main makes of a process: a client is whatever is nothing else. *)
Runner(config, rank) ==
  IF is_controller(rank) THEN "CONTROLLER"
  ELSE IF is_node(config, rank) THEN "NODE" ELSE "CLIENT"

-----------------------------------------------------------------------------
(* Every process of a job that starts has one role, and main makes of it   *)
(* what all the others take it for by its rank, provided neither number is *)
(* negative (std::atoi and the check of main.cc:32 let -1 pass).           *)
THEOREM OneRoleEach ==
  ASSUME NEW nb_node \in Nat, NEW nb_client \in Nat, NEW size \in Int,
         Starts(size, nb_node, nb_client),
         NEW rank \in 0 .. size - 1
  PROVE  LET config == initConfig(nb_node, nb_client)
         IN  /\ Runner(config, rank) = "CONTROLLER" <=> is_controller(rank)
             /\ Runner(config, rank) = "NODE" <=> is_node(config, rank)
             /\ Runner(config, rank) = "CLIENT" <=> is_client(config, rank)
BY DEF initConfig, is_controller, is_node, is_client, Starts, Runner

(* What the other modules assume of Root, Node and Client holds of the     *)
(* ranks: they are apart, and together they are the job.                   *)
THEOREM RanksApart ==
  ASSUME NEW nb_node \in Nat, NEW nb_client \in Nat, NEW size \in Int,
         Starts(size, nb_node, nb_client)
  PROVE  LET config == initConfig(nb_node, nb_client)
         IN  /\ 0 \notin NodeRanks(config) \cup ClientRanks(config)
             /\ NodeRanks(config) \cap ClientRanks(config) = {}
             /\ {0} \cup NodeRanks(config) \cup ClientRanks(config) = 0 .. size - 1
BY DEF initConfig, NodeRanks, ClientRanks, Starts
==============================================================================
