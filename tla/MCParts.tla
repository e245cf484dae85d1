------------------------------- MODULE MCParts -------------------------------
(***************************************************************************)
(* Values for the small parts.                                             *)
(***************************************************************************)
EXTENDS Parts, MCGraphs

CONSTANTS runtime, other, first, second

(* The histories of an event.  The runtime's thread takes an OpenCL command
   through its statuses, to the end or to an error, with an entry for every
   status; two threads of the application race to end a user event; and a
   HIP command has the entries of hipStreamAddCallback(). *)
History(hip, start, sets, others, x, y) ==
  [hip |-> hip, first |-> start, sets |-> runtime :> sets @@ other :> others,
   at |-> first :> x @@ second :> y]
MCHistories ==
  {History(FALSE, 4, <<3, 2, 1, s>>, <<>>, x, y) : s \in {0, -1}, x \in 0 .. 3, y \in 0 .. 3}
  \cup {History(FALSE, 2, <<0>>, <<-1>>, x, 0) : x \in 0 .. 1}
  \cup {History(TRUE, 4, <<3, 2, 1, 0>>, <<>>, 0, 0)}

(* The blocks of the memory pool, by size. *)
MCBlocks == {1, 2}
MCSize == <<1, 2>>

ASSUME PartsAssumption ==
  /\ Users = Streams /\ Setters = {runtime, other} /\ Registrars = {first, second}
  /\ MaxWork \in Nat /\ NumStreams \in Nat \ {0}

(* What the theorems about the parts assume of their constants. *)
ASSUME ProofAssumptions ==
  Callbacks!HistoriesAreSane /\ Objects!PoolAssumption /\ Memory!MemoryAssumption

(* The threads of the pool of commands are alike, and so are the streams of
   the memory pool: the same values stand for both, as one part runs. *)
Alike == Permutations(Streams)
=============================================================================
