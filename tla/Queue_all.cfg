CONSTANTS
  p1 = p1
  p2 = p2
  c1 = c1
  o1 = o1
  Nodes = {n1, n2, n3, n4}
  Producers <- TwoProducers
  Consumers <- Worker
  Observers <- Watcher
  Setups <- AllSetups
  TagCount = 3
  MaxElements = 4
  Null = Null

SPECIFICATION FairSpec
INVARIANTS
  TypeOK
  PairIsSafe
PROPERTIES
  ImplementsFifo
  EmptyIsTrue
  EveryElementDelivered
CHECK_DEADLOCK FALSE
