CONSTANTS
  v1 = v1
  v2 = v2
  h1 = h1
  h2 = h2
  VGPUs <- TwoVGPUs
  HwQueues <- TwoRings
  Setups <- Filling
  Operations = {"kernel", "fill"}
  RingSize = 8
  ListSize = 3
  MaxSignals = 12
  NumChunks = 4
  ChunkSize = 1
  MaxCommands = 4
  None = None

SPECIFICATION Spec
INVARIANT ArgsIntact
CHECK_DEADLOCK FALSE
