---------------------------- MODULE AbstractQueue ----------------------------
(***************************************************************************)
(* "This queue orders elements first-in-first-out" (the comment of class    *)
(* ConcurrentLinkedQueue, rocclr/utils/concurrent.hpp): a sequence to which *)
(* an enqueue appends and from which a dequeue takes the head.              *)
(***************************************************************************)
EXTENDS Sequences

CONSTANT Elements

VARIABLE items

Init == items = <<>>

Enqueue == \E e \in Elements : items' = Append(items, e)

Dequeue == items # <<>> /\ items' = Tail(items)

Next == Enqueue \/ Dequeue

Spec == Init /\ [][Next]_items
=============================================================================
