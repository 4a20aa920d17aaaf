\* Two updates of the leader of term 2 may be refused before it hears of
\* either, while it crashes and recovers.
\* The system may stop: mpirun kills the job after a fault, and the bounds
\* end what the timers would go on with.
SPECIFICATION Spec
CONSTANTS
  n1 = n1
  n2 = n2
  n3 = n3
  n4 = n4
  Node = {n1, n2, n3}
  Client = {c1}
  Cmd = {x}
  Nil = Nil
  MaxTerm = 2
  Standing <- FirstThenBoth
  MaxLog <- OneEntryOfFirst
  MaxSaved = 1
  MaxInFlight = 2
  CrashTargets = {n2}
INVARIANTS
  TypeOK
CHECK_DEADLOCK FALSE
