CONSTANTS
  t1 = t1
  t2 = t2
  t3 = t3
  Threads <- MCThreads
  Semaphores <- MCSemaphores
  Recursive = FALSE
  SpuriousCAS = FALSE
  Operations <- WaitNotify
  MaxDepth = 1
  MaxDrift = 0
  None = None
  Mark = Mark

SPECIFICATION Spec
INVARIANTS
  OnDeckIsStable
  NodesAreLive
  NoLostWakeup
CHECK_DEADLOCK FALSE
