---------------------------- MODULE MCGraphLaunch ----------------------------
EXTENDS GraphLaunch, MCGraphs
=============================================================================
