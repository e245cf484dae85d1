-------------------------- MODULE MCConcurrentQueue --------------------------
EXTENDS ConcurrentQueue

CONSTANTS p1, p2, c1, o1

TwoProducers == {p1, p2}
Worker       == {c1}
Watcher      == {o1}

(* Two producers, with and without a thread that asks empty(), where memory
   is not used again; and one producer where it is. *)
TwoThatEnqueue == [producers |-> {p1, p2}, observers |-> {}, elements |-> 3, recycle |-> FALSE]
TwoAndWatcher  == [producers |-> {p1, p2}, observers |-> {o1}, elements |-> 2, recycle |-> FALSE]
OneAndWorker   == [producers |-> {p1}, observers |-> {}, elements |-> 4, recycle |-> TRUE]

AllSetups == {TwoThatEnqueue, TwoAndWatcher, OneAndWorker}
=============================================================================
