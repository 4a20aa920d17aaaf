------------------------------- MODULE MCSystem -------------------------------
(***************************************************************************)
(* A small instance of System for TLC: a job of four processes, what the   *)
(* operator types, and who leads.                                          *)
(***************************************************************************)
EXTENDS SystemProperties, GlobalConfig

Job == initConfig(2, 1)

MCNode == NodeRanks(Job)

MCClient == ClientRanks(Job)

(* First node 1 is elected, then node 2. *)
InTurn ==
  [L \in SUBSET Node |->
     CASE L = {} -> {1} [] L = {1} -> {2} [] OTHER -> {}]

Line(name, rank, arg) == [name |-> name, rank |-> rank, arg |-> arg]

(* Commands before the start (tests/multiple_cmd_begining.cmd), and the    *)
(* first leader goes down.                                                 *)
LeaderDown ==
  <<Line("ENTRY", 3, 1), Line("ENTRY", 3, 2), Line("START", Nil, Nil),
    Line("CRASH", 1, Nil)>>

(* Commands for a client that is stopped, and started again.               *)
StoppedAndStarted ==
  <<Line("START", 3, Nil), Line("CRASH", 3, Nil), Line("ENTRY", 3, 1),
    Line("ENTRY", 3, 2), Line("RECOVERY", 3, Nil)>>

(* Lines for everybody, lines that are refused or ignored, and a node that *)
(* goes down and comes back.                                               *)
Everybody ==
  <<Line("STATUS", Nil, Nil), Line("PRINT_LOG", 3, Nil), Line("START", 1, Nil),
    Line("ENTRY", 1, 1), Line("ENTRY", 3, Nil), Line("SPEED", 2, "low"),
    Line("SPEED", 3, "fast"), Line("CRASH", 2, Nil), Line("RECOVERY", 2, Nil),
    Line("CRASH", 0, Nil), Line("START", 3, Nil)>>

Scenarios == {LeaderDown, StoppedAndStarted, Everybody}
==============================================================================
