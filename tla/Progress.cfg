\* n1 stands for election in term 1, n2 in term 2.  The log of n2 may hold two
\* entries: what n1 left it and one of its own, or two of its own.
\* The system may stop: mpirun kills the job after a fault, and the bounds
\* end what the timers would go on with.
SPECIFICATION FairSpec
CONSTANTS
  n1 = n1
  n2 = n2
  n3 = n3
  n4 = n4
  Node = {n1, n2, n3}
  Client = {c1}
  Cmd = {x}
  Nil = Nil
  MaxTerm = 2
  Standing <- FirstThenSecond
  MaxLog <- OneEntryThenTwo
  MaxSaved = 6
  MaxInFlight = 1
  CrashTargets = {n3}
PROPERTIES
  EntriesReachFiles
CHECK_DEADLOCK FALSE
