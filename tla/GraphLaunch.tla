----------------------------- MODULE GraphLaunch -----------------------------
(***************************************************************************)
(* How HIP runs a graph on several streams (hipamd/src/hip_graph_internal.*,*)
(* Graph and GraphExec).  hipGraphInstantiate() orders the nodes and gives  *)
(* each a stream: a node and its first edge share one, further edges take   *)
(* the next.  hipGraphLaunch() walks the edges, enqueues every node on its  *)
(* stream once its dependencies are enqueued, and adds a wait for the       *)
(* latest dependency on each other stream; a single stream needs no waits.  *)
(*                                                                         *)
(* A graph is built and launched by one thread.  What may go wrong is the   *)
(* order on the GPU, where streams run side by side: after and knows are    *)
(* what a node, or the next command of a stream, is ordered after.          *)
(***************************************************************************)
EXTENDS Integers, SequencesExt

CONSTANTS Graphs,       \* the graphs to check, one of which each behavior is about
          NumStreams,   \* DEBUG_HIP_FORCE_GRAPH_QUEUES
          App           \* what the application did on the launch stream before

VARIABLES
  graph,   \* size: the nodes are 1..size, in the order of vertices_;
           \* owner: the child graph node whose graph a node is in, or 0;
           \* edges: edges_ of each node
  idle,    \* the launch stream has no last command: all it had is finished
  phase,   \* where instantiation and launch are
  todo,    \* the calls that the recursion has yet to make, the next one first
  next,    \* per graph: the local stream_id of ScheduleNodes()
  stream,  \* stream_id_ of each node
  roots,   \* per graph and stream: roots_
  launch,  \* launch_id_ of each node
  leafs,   \* per graph and stream: leafs_
  knows,   \* per stream: what its next command follows (history)
  after    \* what each node follows; NotRun if it is not enqueued (history)

plan == <<next, stream, roots>>
gpu  == <<knows, after>>
vars == <<graph, idle, phase, todo, plan, launch, leafs, gpu>>

Nodes       == 1..graph.size
StreamIds   == 0..NumStreams - 1
Edges(v)    == graph.edges[v]
Deps(v)     == {u \in Nodes : v \in Range(Edges(u))}
Members(g)  == {v \in Nodes : graph.owner[v] = g}     \* vertices_ of graph g, 0 the outer one
IsChild(v)  == Members(v) # {}
Unset       == -1
NotRun      == {-1}

Vertices(g) == SetToSortSeq(Members(g), <)

(* A call of ScheduleOneNode(node, stream) or RunOneNode(node, wait), a turn
   of a loop over vertices_, or the end of RunNodes(stream) for graph node. *)
Call(op, v, s, wait) == [op |-> op, node |-> v, stream |-> s, wait |-> wait]
Turns(op, list) == [i \in DOMAIN list |-> Call(op, list[i], 0, TRUE)]

TypeOK ==
  /\ graph \in Graphs /\ idle \in BOOLEAN
  /\ phase \in {"new", "rejected", "schedule", "list", "run", "done"}
  /\ \A i \in DOMAIN todo :
        todo[i] \in [op : {"vertex", "schedule", "list", "run", "end"},
                    node : Nodes \cup {0}, stream : StreamIds, wait : BOOLEAN]
  /\ next \in [0..graph.size -> StreamIds]
  /\ stream \in [Nodes -> StreamIds \cup {Unset}]
  /\ roots \in [0..graph.size -> [StreamIds -> Nodes \cup {0}]]
  /\ launch \in [Nodes -> Nat \cup {Unset}]
  /\ leafs \in [0..graph.size -> [StreamIds -> Nodes \cup {0}]]
  /\ knows \in [StreamIds -> SUBSET (Nodes \cup {App})]
  /\ after \in [Nodes -> SUBSET (Nodes \cup {App}) \cup {NotRun}]

Init ==
  /\ graph \in Graphs /\ idle \in BOOLEAN
  /\ phase = "new" /\ todo = <<>>
  /\ next = [g \in 0..graph.size |-> 0]
  /\ stream = [v \in Nodes |-> Unset] /\ launch = [v \in Nodes |-> Unset]
  /\ roots = [g \in 0..graph.size |-> [s \in StreamIds |-> 0]]
  /\ leafs = [g \in 0..graph.size |-> [s \in StreamIds |-> 0]]
  /\ knows = [s \in StreamIds |-> IF s = 0 /\ ~idle THEN {App} ELSE {}]
  /\ after = [v \in Nodes |-> NotRun]

----------------------------------------
(* hipGraphInstantiate() *)

(* TopologicalOrder(): the nodes without dependencies, then each node when
   the last of its dependencies has been taken from the queue. *)
TopologicalOrder(g) ==
  LET ready(order, list) == SelectSeq(list, LAMBDA v : Deps(v) \subseteq Range(order))
      turn[n \in 0..Cardinality(Members(g))] ==
        IF n = 0 THEN [order |-> <<>>, queue |-> ready(<<>>, Vertices(g))]
        ELSE LET before == turn[n - 1]
                 order  == Append(before.order, Head(before.queue))
             IN IF before.queue = <<>> THEN before
                ELSE [order |-> order,
                      queue |-> Tail(before.queue) \o ready(order, Edges(Head(before.queue)))]
  IN turn[Cardinality(Members(g))].order

(* A graph whose nodes cannot all be ordered is refused. *)
Instantiate ==
  /\ phase = "new"
  /\ IF Len(TopologicalOrder(0)) = Cardinality(Members(0))
       THEN phase' = "schedule" /\ todo' = Turns("vertex", Vertices(0))
       ELSE phase' = "rejected" /\ todo' = todo
  /\ UNCHANGED <<graph, idle, plan, launch, leafs, gpu>>

Do(op) == todo # <<>> /\ Head(todo).op = op
Then(calls) == todo' = calls \o Tail(todo)

(* ScheduleNodes(), one turn: a node that no edge has led to yet gets the
   next stream; the first root of each stream but 0 is remembered. *)
ScheduleVertex ==
  /\ Do("vertex")
  /\ LET v == Head(todo).node
         g == graph.owner[v]
         s == next[g]
     IN IF stream[v] # Unset THEN Then(<<>>) /\ UNCHANGED plan
        ELSE /\ Then(<<Call("schedule", v, s, TRUE)>>)
             /\ next' = [next EXCEPT ![g] = (s + 1) % NumStreams]
             /\ roots' = IF Deps(v) = {} /\ s # 0 /\ roots[g][s] = 0
                           THEN [roots EXCEPT ![g][s] = v] ELSE roots
             /\ UNCHANGED stream
  /\ UNCHANGED <<graph, idle, phase, launch, leafs, gpu>>

(* ScheduleOneNode(): the node, the graph of a child graph node, the edges. *)
ScheduleNode ==
  /\ Do("schedule")
  /\ LET v == Head(todo).node
         s == Head(todo).stream
     IN IF stream[v] # Unset THEN Then(<<>>) /\ UNCHANGED stream
        ELSE /\ stream' = [stream EXCEPT ![v] = s]
             /\ Then(Turns("vertex", Vertices(v)) \o
                     [i \in DOMAIN Edges(v) |->
                        Call("schedule", Edges(v)[i], (s + i - 1) % NumStreams, TRUE)])
  /\ UNCHANGED <<graph, idle, phase, next, roots, launch, leafs, gpu>>

----------------------------------------
(* hipGraphLaunch() *)

(* What is done once the work of W is done. *)
Upto(W) == W \cup UNION {after[w] : w \in W}

(* Work of node v goes to stream s with a wait list W. *)
Enqueued(v, s, W) ==
  /\ after' = [after EXCEPT ![v] = knows[s] \cup Upto(W)]
  /\ knows' = [knows EXCEPT ![s] = @ \cup Upto(W) \cup {v}]

(* RunNodes() on stream base, up to the loop over the nodes: a marker for
   what the child graph node waits for, and one on each stream with a root
   for the last command of the base stream. *)
Started(g, base, W) ==
  LET base2 == knows[base] \cup Upto(W)
  IN knows' = [s \in StreamIds |->
       IF s = base THEN base2
       ELSE IF roots[g][s] # 0 /\ (g # 0 \/ ~idle) THEN knows[s] \cup base2 ELSE knows[s]]

RunNodes(g, base) == Turns("run", Vertices(g)) \o <<Call("end", g, base, TRUE)>>

(* Run(): a graph of one stream is a list, any other is walked. *)
Run ==
  /\ phase = "schedule" /\ todo = <<>>
  /\ IF \A v \in Nodes : stream[v] = 0
       THEN /\ phase' = "list" /\ todo' = Turns("list", TopologicalOrder(0))
            /\ UNCHANGED knows
       ELSE /\ phase' = "run" /\ todo' = RunNodes(0, 0)
            /\ Started(0, 0, {})
  /\ UNCHANGED <<graph, idle, plan, launch, leafs, after>>

(* EnqueueGraphWithSingleList(), also for a child graph in the list. *)
EnqueueListed ==
  /\ Do("list")
  /\ LET v == Head(todo).node
     IN /\ Then(IF IsChild(v) THEN Turns("list", TopologicalOrder(v)) ELSE <<>>)
        /\ IF IsChild(v) THEN UNCHANGED gpu ELSE Enqueued(v, 0, {})
  /\ UNCHANGED <<graph, idle, phase, plan, launch, leafs>>

ListDone ==
  /\ phase = "list" /\ todo = <<>>
  /\ phase' = "done"
  /\ UNCHANGED <<graph, idle, todo, plan, launch, leafs, gpu>>

(* The dependencies of v on other streams, the latest launch of each stream,
   as the same stream has in-order run; a child graph has no commands. *)
Elsewhere(v) == {d \in Deps(v) : stream[d] # stream[v]}

Latest(D) == {d \in D : \A e \in D : stream[e] = stream[d] => launch[e] <= launch[d]}

WaitList(v) == {d \in Latest(Elsewhere(v)) : ~IsChild(d)}

(* Does the i-th edge wait?  "Don't wait in the nodes, executed on the same
   streams and if it has just one dependency". *)
Waits(v, i) == i <= NumStreams \/ Cardinality(Deps(Edges(v)[i])) > 1

(* Mutant of Launchable: the node does not wait for the last dependency. *)
LaunchableAtOnce(v) == launch[v] = Unset

(* RunOneNode() returns at once for a node that is launched, or that the
   last of its dependencies will launch. *)
Launchable(v) == launch[v] = Unset /\ \A d \in Deps(v) : launch[d] # Unset

SkipNode ==
  /\ Do("run") /\ ~Launchable(Head(todo).node)
  /\ Then(<<>>)
  /\ UNCHANGED <<graph, idle, phase, plan, launch, leafs, gpu>>

(* RunOneNode(): a child graph is run on the node's stream, other nodes are
   enqueued there; then the edges.  The launch id is set after a child graph
   has run, which looks at none of these. *)
RunOneNode ==
  /\ Do("run") /\ Launchable(Head(todo).node)
  /\ LET v == Head(todo).node
         g == graph.owner[v]
     IN /\ IF IsChild(v)
             THEN Started(v, stream[v], WaitList(v)) /\ UNCHANGED after
             ELSE Enqueued(v, stream[v], IF Head(todo).wait THEN WaitList(v) ELSE {})
        /\ launch' = [launch EXCEPT ![v] = Cardinality({u \in Members(g) : launch[u] # Unset})]
        /\ leafs' = IF Edges(v) = <<>> THEN [leafs EXCEPT ![g][stream[v]] = v] ELSE leafs
        /\ Then((IF IsChild(v) THEN RunNodes(v, stream[v]) ELSE <<>>) \o
                [i \in DOMAIN Edges(v) |-> Call("run", Edges(v)[i], 0, Waits(v, i))])
  /\ UNCHANGED <<graph, idle, phase, plan>>

(* RunNodes() at its end: the base stream waits for the leafs of the others. *)
EndNodes ==
  /\ Do("end")
  /\ LET g    == Head(todo).node
         base == Head(todo).stream
         W    == {v \in {leafs[g][s] : s \in StreamIds \ {base}} \ {0} : ~IsChild(v)}
     IN /\ knows' = [knows EXCEPT ![base] = @ \cup Upto(W)]
        /\ launch' = [v \in Nodes |-> IF v \in Members(g) THEN Unset ELSE launch[v]]
        /\ phase' = IF g = 0 THEN "done" ELSE phase
  /\ Then(<<>>)
  /\ UNCHANGED <<graph, idle, plan, leafs, after>>

Next == \/ Instantiate \/ ScheduleVertex \/ ScheduleNode
        \/ Run \/ EnqueueListed \/ ListDone \/ SkipNode \/ RunOneNode \/ EndNodes

Spec == Init /\ [][Next]_vars

----------------------------------------
(* Properties *)

Ran == {v \in Nodes : after[v] # NotRun}

(* What the GPU does for a node. *)
Work(v) == IF IsChild(v) THEN Members(v) ELSE {v}

(* Every edge of the graph is kept on the GPU, on whatever streams its two
   nodes are, for all that a child graph node stands for. *)
EdgesAreKept ==
  \A v \in Nodes : \A x \in Work(v) \cap Ran, d \in Deps(v) :
     \A y \in Work(d) : y \in Ran /\ y \in after[x]

(* A launch is one piece of work of its stream: it follows what was there
   before, and is followed, node by node, by what comes next. *)
InLaunchOrder ==
  /\ ~idle => \A v \in Ran : App \in after[v]
  /\ phase = "done" => {v \in Nodes : ~IsChild(v)} \subseteq knows[0]

(* A graph is refused when it has a cycle, and only then. *)
Acyclic == \A S \in SUBSET Members(0) \ {{}} : \E v \in S : Deps(v) \cap S = {}
CyclesAreRefused == phase # "new" => (phase = "rejected" <=> ~Acyclic)

(* What hipGraphInstantiate() and hipGraphLaunch() promise of every graph. *)
LaunchFollowsGraph == EdgesAreKept /\ InLaunchOrder /\ CyclesAreRefused
=============================================================================
