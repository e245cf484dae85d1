CONSTANTS
  q1 = q1
  q2 = q2
  t1 = t1
  t2 = t2
  Queues <- TwoQueues
  Clients <- OneClient
  Streams <- Shared
  IsHip = TRUE
  Operations = {"await", "finish", "terminate"}
  EarlyRelease = FALSE
  MaxCommands = 2
  None = None

SPECIFICATION FairSpec
PROPERTY CallsReturn
CHECK_DEADLOCK FALSE
