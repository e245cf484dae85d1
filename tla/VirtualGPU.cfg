CONSTANTS
  v1 = v1
  v2 = v2
  h1 = h1
  h2 = h2
  VGPUs <- TwoVGPUs
  HwQueues <- TwoRings
  Setups <- AllSetups
  Operations = {"kernel", "timed", "marker", "nop", "copy", "flush"}
  RingSize = 4
  ListSize = 3
  MaxSignals = 12
  NumChunks = 2
  ChunkSize = 1
  MaxCommands = 4
  None = None

SPECIFICATION Spec
INVARIANTS
  TypeOK
  StreamOrder
  SignalsFresh
  NoOverwrite
  ArgsIntact
  NeverStuck
CHECK_DEADLOCK FALSE
