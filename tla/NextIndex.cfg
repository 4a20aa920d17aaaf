\* Two refused updates under way at once.
\* The system may stop: mpirun kills the job after a fault, and the bounds
\* end what the timers would go on with.
SPECIFICATION Spec
CONSTANTS
  n1 = n1
  n2 = n2
  n3 = n3
  n4 = n4
  Node = {n1, n2, n3}
  Client = {c1}
  Cmd = {x}
  Nil = Nil
  MaxTerm = 2
  Standing <- AnyoneStands
  MaxLog <- OneEntry
  MaxSaved = 1
  MaxInFlight = 2
  CrashTargets = {}
SYMMETRY NodeSymmetry
INVARIANTS
  NextIndexIsAnIndex
CHECK_DEADLOCK FALSE
