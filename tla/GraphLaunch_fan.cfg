\* A node with more edges than there are streams; streams as in the code.
CONSTANTS
    NumStreams = 4
    App = App
    Graphs <- Fan
SPECIFICATION Spec
INVARIANT LaunchFollowsGraph
CHECK_DEADLOCK FALSE
