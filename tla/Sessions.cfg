\* Two nodes that lead in turn, one client, two commands, three scripts.
\* The system may stop: the controller reads on from its terminal for ever,
\* but a script ends.
SPECIFICATION FairSystem
CONSTANTS
  Node <- MCNode
  Client <- MCClient
  Root = 0
  Cmd = {1, 2}
  Nil = Nil
  Scripts <- Scenarios
  MayStand <- InTurn
  MaxAsked = 1
  MaxAnswers = 1
INVARIANTS
  SystemTypeOK
  LeaderWasElected
  OrdersUnderstood
  InOrder
PROPERTIES
  DeliversAtMostOnce
  QueueDrains
  OrdersObeyed
CHECK_DEADLOCK FALSE
