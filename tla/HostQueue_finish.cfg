CONSTANTS
  q1 = q1
  q2 = q2
  t1 = t1
  t2 = t2
  Queues <- TwoQueues
  Clients <- TwoClients
  Streams <- Shared
  IsHip = TRUE
  Operations = {"finish"}
  EarlyRelease = FALSE
  MaxCommands = 3
  None = None

SPECIFICATION Spec
SYMMETRY Everybody
INVARIANT FinishMeansDone
CHECK_DEADLOCK FALSE
