-------------------------------- MODULE MCRaft --------------------------------
(***************************************************************************)
(* Small instances of Raft for TLC.  Standing is the bound that says who   *)
(* may stand for election when, and MaxLog who may take commands: the      *)
(* instances with many terms are only tractable when few nodes do.         *)
(***************************************************************************)
EXTENDS RaftProperties, TLC

CONSTANTS n1, n2, n3, n4

AnyoneStands == [t \in 1 .. MaxTerm |-> Node]

FirstThenBoth == <<{n1}, {n1, n2}>>

BackAndForth == <<{n1}, {n2}, {n1}>>

FirstThenSecond == <<{n1}, {n2}>>

TakingTurns == <<{n3}, {n1}, {n3}, {n1}>>

NoEntries == [n \in Node |-> 0]

OneEntry == [n \in Node |-> 1]

TwoEntries == [n \in Node |-> 2]

OneEntryOfFirst == [n \in Node |-> IF n = n1 THEN 1 ELSE 0]

TwoEntriesThenOne ==
  [n \in Node |-> CASE n = n1 -> 2 [] n = n2 -> 1 [] OTHER -> 0]

OneEntryThenTwo ==
  [n \in Node |-> CASE n = n1 -> 1 [] n = n2 -> 2 [] OTHER -> 0]

NodeSymmetry == Permutations(Node)

VoterSymmetry == Permutations({n3, n4})
==============================================================================
