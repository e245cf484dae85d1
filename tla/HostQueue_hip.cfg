CONSTANTS
  q1 = q1
  q2 = q2
  t1 = t1
  t2 = t2
  Queues <- TwoQueues
  Clients <- TwoClients
  Streams <- Private
  IsHip = TRUE
  Operations = {"await", "finish"}
  EarlyRelease = FALSE
  MaxCommands = 2
  None = None

SPECIFICATION Spec
SYMMETRY Pairs
INVARIANTS
  TypeOK
  FinishMeansDone
  Lifetimes
  ActiveWhenPending
  NoMissedWakeup
PROPERTY InOrder
CHECK_DEADLOCK FALSE
