\* An acknowledgement of term 2 counted in term 4.
\* The system may stop: mpirun kills the job after a fault, and the bounds
\* end what the timers would go on with.
SPECIFICATION Spec
CONSTANTS
  n1 = n1
  n2 = n2
  n3 = n3
  n4 = n4
  Node = {n1, n2, n3}
  Client = {c1}
  Cmd = {x}
  Nil = Nil
  MaxTerm = 4
  Standing <- TakingTurns
  MaxLog <- OneEntryOfFirst
  MaxSaved = 1
  MaxInFlight = 1
  CrashTargets = {}
INVARIANTS
  CommitsWithinLog
CHECK_DEADLOCK FALSE
