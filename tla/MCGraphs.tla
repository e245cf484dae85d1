------------------------------- MODULE MCGraphs -------------------------------
(***************************************************************************)
(* Graphs for the instances of GraphLaunch.                                *)
(***************************************************************************)
EXTENDS Integers, SequencesExt

(* Lists of at most two of some nodes. *)
UpToTwo(S) == UNION {SetToSeqs(T) : T \in {U \in SUBSET S : Cardinality(U) <= 2}}

Flat(n) == [v \in 1..n |-> 0]

(* Graphs of four nodes with at most two edges each, in either order: edges
   to later nodes and some to earlier ones, with and without cycles. *)
FourNodes ==
  {[size |-> 4, owner |-> Flat(4), edges |-> <<a, b, c, d>>] :
     a \in UpToTwo({2, 3, 4}), b \in UpToTwo({3, 4}),
     c \in UpToTwo({2, 4}), d \in UpToTwo({1, 2})}

(* A node, a child graph of three nodes with any edges that have no cycle,
   and a node after it. *)
InTheMiddle ==
  {[size |-> 6, owner |-> <<0, 0, 0, 2, 2, 2>>, edges |-> <<<<2>>, <<3>>, <<>>, a, b, c>>] :
     a \in UpToTwo({5, 6}), b \in UpToTwo({6}), c \in UpToTwo({})}

OneNode == [size |-> 1, owner |-> Flat(1), edges |-> <<<<>>>>]

Regular == FourNodes \cup InTheMiddle \cup {OneNode}

(* A node with six edges, the first of which leads to the second: one edge
   more than four streams and the node's own take in turn. *)
Fan == {[size |-> 7, owner |-> Flat(7),
         edges |-> <<<<2, 3, 4, 5, 6, 7>>, <<3>>, <<>>, <<>>, <<>>, <<>>, <<>>>>]}

(* Two roots, the second with an edge to a child graph of one node. *)
OnSecondStream == {[size |-> 4, owner |-> <<0, 0, 0, 3>>, edges |-> <<<<>>, <<3>>, <<>>, <<>>>>]}
=============================================================================
