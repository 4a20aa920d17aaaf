\* Three terms, two leaders in turn, two entries of the first and one of the second.
\* The system may stop: mpirun kills the job after a fault, and the bounds
\* end what the timers would go on with.
SPECIFICATION CommitSpec
CONSTANTS
  n1 = n1
  n2 = n2
  n3 = n3
  n4 = n4
  Node = {n1, n2, n3}
  Client = {c1}
  Cmd = {x}
  Nil = Nil
  MaxTerm = 3
  Standing <- BackAndForth
  MaxLog <- TwoEntriesThenOne
  MaxSaved = 2
  MaxInFlight = 1
  CrashTargets = {}
INVARIANTS
  EntriesIndexed
  LogTermsInOrder
  LogMatching
  LeadersHoldCommits
  SavedEntriesAgree
CHECK_DEADLOCK FALSE
