\* Several updates under way at once, while the first leader may crash.
\* The system may stop: mpirun kills the job after a fault, and the bounds
\* end what the timers would go on with.
SPECIFICATION HistorySpec
CONSTANTS
  n1 = n1
  n2 = n2
  n3 = n3
  n4 = n4
  Node = {n1, n2, n3}
  Client = {c1}
  Cmd = {x}
  Nil = Nil
  MaxTerm = 2
  Standing <- FirstThenBoth
  MaxLog <- OneEntryOfFirst
  MaxSaved = 1
  MaxInFlight = 2
  CrashTargets = {n1}
INVARIANTS
  AcknowledgedEntriesStay
PROPERTIES
  RefinesCluster
CHECK_DEADLOCK FALSE
