CONSTANTS
  t1 = t1
  t2 = t2
  t3 = t3
  Threads <- MCThreads2
  Semaphores <- MCSemaphores
  Recursive = TRUE
  SpuriousCAS = FALSE
  Operations <- AllCalls
  MaxDepth = 2
  MaxDrift = 2
  None = None
  Mark = Mark

SPECIFICATION FairSpec
INVARIANTS
  TypeOK
  CountIsNesting
  IInv
PROPERTIES
  ImplementsMonitor
  Progress
CHECK_DEADLOCK FALSE
