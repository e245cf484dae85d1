-------------------------------- MODULE Parts --------------------------------
(***************************************************************************)
(* Four small parts that share no state and no lock: the callbacks of an   *)
(* event, the pool the commands are allocated from, the memory pool of a   *)
(* HIP device and the launch of a graph.  One of them, chosen at the       *)
(* start, takes all the steps.                                             *)
(***************************************************************************)
EXTENDS Integers

CONSTANTS
    Setters, Registrars, Histories,                        \* EventCallbacks
    Users, ChunkSize, ActiveSize, MaxAlloc, NoChunk,       \* SysmemPool
    Streams, Blocks, Size, Events, MaxWork, MaxWaiting,    \* MemPool
    Graphs, NumStreams, App                                \* GraphLaunch

VARIABLES
    part,
    setup, status, callbacks, callback, called, passed, todo, current, walk, pc,
    currentAlloc, maxChunk, active, busy, free, existing, live, slot, object,
    step, holder, stalled,
    opportunistic, pending, done, sees, heap, safe, event, mark, waiting, user, used,
    excused,
    graph, idle, phase, calls, next, stream, roots, launch, leafs, knows, after

eventVars == <<setup, status, callbacks, callback, called, passed, todo, current,
               walk, pc>>
objectVars == <<currentAlloc, maxChunk, active, busy, free, existing, live, slot,
                object, step, holder, stalled>>
memoryVars == <<opportunistic, pending, done, sees, heap, safe, event, mark, waiting, user,
                used, excused>>
graphVars == <<graph, idle, phase, calls, next, stream, roots, launch, leafs, knows, after>>

Callbacks == INSTANCE EventCallbacks
Objects == INSTANCE SysmemPool
Memory == INSTANCE MemPool
Launches == INSTANCE GraphLaunch WITH todo <- calls

(* What is not about the part of this behavior is the same in all. *)
OnlyIn(p, S, x) == IF part = p THEN S ELSE {x}

Init ==
  /\ part \in {"callbacks", "objects", "memory", "graph"}
  /\ setup \in OnlyIn("callbacks", Histories, CHOOSE h \in Histories : TRUE)
  /\ opportunistic = TRUE   \* the default
  /\ graph \in OnlyIn("graph", Graphs, CHOOSE g \in Graphs : TRUE)
  /\ idle \in OnlyIn("graph", BOOLEAN, TRUE)
  /\ Callbacks!Init /\ Objects!Init /\ Memory!Init /\ Launches!Init

Next ==
  \/ /\ part = "callbacks" /\ Callbacks!Next
     /\ UNCHANGED <<part, objectVars, memoryVars, graphVars>>
  \/ /\ part = "objects" /\ Objects!Next
     /\ UNCHANGED <<part, eventVars, memoryVars, graphVars>>
  \/ /\ part = "memory" /\ Memory!Next
     /\ UNCHANGED <<part, eventVars, objectVars, graphVars>>
  \/ /\ part = "graph" /\ Launches!Next
     /\ UNCHANGED <<part, eventVars, objectVars, memoryVars>>

Spec == Init /\ [][Next]_<<part, eventVars, objectVars, memoryVars, graphVars>>

(* The variables of every part have their types. *)
TypeOK ==
  /\ part = "callbacks" => Callbacks!TypeOK
  /\ part = "objects" => Objects!TypeOK
  /\ part = "memory" => Memory!TypeOK
  /\ part = "graph" => Launches!TypeOK

(* Every callback of an event runs once and when it should (command.cpp,
   setStatus(), setCallback() and processCallbacks()). *)
CallbacksRun == part = "callbacks" => Callbacks!CallbacksRun

(* The commands' pool hands every object out once, never from a deleted
   chunk, and deletes each chunk once (object.hpp, Alloc() and Free()). *)
SlotsAreSafe == part = "objects" => Objects!SlotsAreSafe

(* A device's memory pool reuses and releases a block only after its
   earlier uses, but for a stream that allocated the block and another
   freed it, or that waits for an event older than the free
   (hip_mempool_impl.cpp, AllocateMemory() and FreeMemory()). *)
ReuseIsSafe == Memory!ReuseIsSafe

(* A launched graph keeps every edge and its place in the launch stream, and
   a graph with a cycle is refused, where nodes have no more edges than
   there are streams and child graphs are in line with what is around them
   (hip_graph_internal.cpp, ScheduleNodes() and RunNodes()). *)
LaunchFollowsGraph == part = "graph" => Launches!LaunchFollowsGraph
=============================================================================
