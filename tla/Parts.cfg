\* Two setters and two callbacks; a pool of chunks of two objects, three of
\* them in the ring; a device with three streams and two blocks; graphs on
\* two streams.
CONSTANTS
    runtime = runtime
    other = other
    first = first
    second = second
    Setters = {runtime, other}
    Registrars = {first, second}
    Histories <- MCHistories
    Users = {s1, s2, s3}
    ChunkSize = 2
    ActiveSize = 3
    MaxAlloc = 7
    NoChunk = NoChunk
    Streams = {s1, s2, s3}
    Blocks <- MCBlocks
    Size <- MCSize
    Events = {e1}
    MaxWork = 4
    MaxWaiting = 1
    Graphs <- Regular
    NumStreams = 2
    App = App
SPECIFICATION Spec
SYMMETRY Alike
INVARIANTS TypeOK CallbacksRun SlotsAreSafe LaunchFollowsGraph
PROPERTY ReuseIsSafe
\* Every part stops when its calls or its bounds are used up.
CHECK_DEADLOCK FALSE
