\* One of four nodes stands in term 1, two in term 2; the first crashes and
\* recovers.
\* The system may stop: mpirun kills the job after a fault, and the bounds
\* end what the timers would go on with.
SPECIFICATION HistorySpec
CONSTANTS
  n1 = n1
  n2 = n2
  n3 = n3
  n4 = n4
  Node = {n1, n2, n3, n4}
  Client = {c1}
  Cmd = {x}
  Nil = Nil
  MaxTerm = 2
  Standing <- FirstThenBoth
  MaxLog <- NoEntries
  MaxSaved = 0
  MaxInFlight = 1
  CrashTargets = {n1}
SYMMETRY VoterSymmetry
INVARIANTS
  GrantBinding
  VotesUnique
  CountedVotesWereCast
  ElectedByMajority
  BackedElectionsAgree
PROPERTIES
  OneVotePerTerm
CHECK_DEADLOCK FALSE
