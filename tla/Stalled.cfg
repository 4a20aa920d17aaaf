\* n1 stands for election in term 1, n2 in term 2.
\* The system may stop: mpirun kills the job after a fault, and the bounds
\* end what the timers would go on with.
SPECIFICATION FairSpec
CONSTANTS
  n1 = n1
  n2 = n2
  n3 = n3
  n4 = n4
  Node = {n1, n2, n3}
  Client = {c1}
  Cmd = {x}
  Nil = Nil
  MaxTerm = 2
  Standing <- FirstThenSecond
  MaxLog <- OneEntryOfFirst
  MaxSaved = 3
  MaxInFlight = 1
  CrashTargets = {}
PROPERTIES
  AllEntriesReachFiles
CHECK_DEADLOCK FALSE
