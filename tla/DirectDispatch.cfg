CONSTANTS
  q1 = q1
  q2 = q2
  t1 = t1
  t2 = t2
  Queues <- TwoQueues
  Clients <- TwoClients
  Streams <- Shared
  Operations = {"launch", "copy", "record", "streamWait", "waitStream", "finish", "terminate"}
  Handler = Handler
  MaxBatch = 1
  MaxCommands = 3
  None = None

SPECIFICATION Spec
SYMMETRY Everybody
INVARIANTS
  TypeOK
  FinishMeansExecuted
  ExecutionOrder
  OneBatch
  Lifetimes
  NoDeadlock
CHECK_DEADLOCK FALSE
