CONSTANTS
  q1 = q1
  q2 = q2
  t1 = t1
  t2 = t2
  Queues <- TwoQueues
  Clients <- TwoClients
  Streams <- Shared
  IsHip = FALSE
  Operations = {"await", "finish", "terminate", "userEvent"}
  EarlyRelease = TRUE
  MaxCommands = 2
  None = None

SPECIFICATION Spec
SYMMETRY Everybody
INVARIANTS
  FinishMeansDone
  Lifetimes
PROPERTY InOrder
CHECK_DEADLOCK FALSE
