--------------------------- MODULE ConcurrentQueue ---------------------------
(***************************************************************************)
(* amd::ConcurrentLinkedQueue (rocclr/utils/concurrent.hpp), the            *)
(* Michael-Scott queue that carries commands from the application threads   *)
(* to the worker thread of a HostQueue: one action per load or CAS of a     *)
(* shared pointer.                                                          *)
(*                                                                         *)
(* A pointer is a node and a tag in its low bits.  A node returned by       *)
(* reclaimNode() keeps its contents until allocNode() hands it out again;   *)
(* a setup says whether the allocator ever does.                            *)
(***************************************************************************)
EXTENDS Integers, Sequences, FiniteSets

CONSTANTS Nodes,        \* the memory nodes are allocated from
          Producers,    \* threads that call enqueue()
          Consumers,    \* threads that call dequeue()
          Observers,    \* threads that call empty()
          Setups,       \* the instances to check, one of which each behavior is about
          TagCount,     \* bound: number of tags (2^N = 32 in the code)
          MaxElements,  \* bound: elements ever enqueued, in any setup
          Null          \* the null pointer

ASSUME QueueAssumption ==
  /\ IsFiniteSet(Nodes) /\ Nodes # {} /\ Null \notin Nodes
  /\ IsFiniteSet(Producers) /\ IsFiniteSet(Consumers)
  /\ TagCount \in Nat \ {0} /\ MaxElements \in Nat \ {0}
  /\ \A x \in Setups : /\ x.producers \subseteq Producers /\ x.observers \subseteq Observers
                       /\ x.elements \in 0..MaxElements /\ x.recycle \in BOOLEAN

(* What the theorems add: memory is used again only where one thread calls
   enqueue() beside the worker, and nobody else calls empty(). *)
Alone(x)      == Cardinality(x.producers) = 1 /\ x.observers = {}
ReuseIsByPair == \A x \in Setups : x.recycle => Alone(x) /\ Cardinality(Consumers) = 1

Threads  == Producers \cup Consumers \cup Observers
Elements == 1..MaxElements        \* the n-th enqueue() carries n

Pointers == [node : Nodes \cup {Null}, tag : 0..TagCount - 1]

(* Mutant of Ptr: the tag overflows into the bits of the pointer. *)
PtrOverflowing(node, tag) == [node |-> node, tag |-> tag]

Ptr(node, tag) == [node |-> node, tag |-> tag % TagCount]
NullPtr        == Ptr(Null, 0)

VARIABLES
  setup,        \* producers, observers: the threads that call; elements: how many;
                \* recycle: does allocNode() reuse reclaimed memory?
  head, tail,   \* head_ and tail_
  next, value,  \* next_ and value_ of every node
  memory,       \* "fresh", "allocated" or "reclaimed", for every node
  enqueued,     \* enqueue() calls so far
  pc,           \* where each thread is
  myNode,       \* local of enqueue(): node
  myHead, myTail, myNext,   \* locals head, tail and next
  result,       \* what the last call of each thread found: an element or 0
  sawEmpty      \* did the queue have no element at some point of this call?

shared == <<head, tail, next, value, memory, enqueued>>
locals == <<myNode, myHead, myTail, myNext>>
answers == <<result, sawEmpty>>
vars == <<setup, shared, pc, locals, answers>>

Goto(t, label) == pc' = [pc EXCEPT ![t] = label]

Labels == {"idle", "loadTail", "loadTailNext", "link", "swing", "helpTail",
           "loadHead", "loadTail2", "loadHeadNext", "decide", "helpDequeue", "advance"}

TypeOK ==
  /\ setup \in Setups
  /\ head \in Pointers /\ tail \in Pointers
  /\ next \in [Nodes -> Pointers] /\ value \in [Nodes -> 0..MaxElements]
  /\ memory \in [Nodes -> {"fresh", "allocated", "reclaimed"}]
  /\ enqueued \in 0..MaxElements
  /\ pc \in [Threads -> Labels]
  /\ myNode \in [Threads -> Nodes \cup {Null}]
  /\ myHead \in [Threads -> Pointers]
  /\ myTail \in [Threads -> Pointers]
  /\ myNext \in [Threads -> Pointers]
  /\ result \in [Threads -> 0..MaxElements]
  /\ sawEmpty \in [Threads -> BOOLEAN]

(* The constructor: one dummy node that head_ and tail_ point to. *)
Init ==
  LET dummy == CHOOSE n \in Nodes : TRUE IN
    /\ setup \in Setups
    /\ head = Ptr(dummy, 0) /\ tail = Ptr(dummy, 0)
    /\ next = [n \in Nodes |-> NullPtr] /\ value = [n \in Nodes |-> 0]
    /\ memory = [n \in Nodes |-> IF n = dummy THEN "allocated" ELSE "fresh"]
    /\ enqueued = 0
    /\ pc = [t \in Threads |-> "idle"]
    /\ myNode = [t \in Threads |-> Null]
    /\ myHead = [t \in Threads |-> NullPtr]
    /\ myTail = [t \in Threads |-> NullPtr]
    /\ myNext = [t \in Threads |-> NullPtr]
    /\ result = [t \in Threads |-> 0]
    /\ sawEmpty = [t \in Threads |-> FALSE]

----------------------------------------
(* The elements in the nodes linked behind a node; the queue's elements are
   those behind the dummy node that head_ points to. *)
ItemsBehind(node) ==
  LET nodeAt[i \in Nat] == IF i = 0 THEN node
                           ELSE IF nodeAt[i - 1] = Null THEN Null
                           ELSE next[nodeAt[i - 1]].node
      linked == {i \in 1..Cardinality(Nodes) : nodeAt[i] # Null}
  IN [i \in 1..Cardinality(linked) |-> value[nodeAt[i]]]

Items == ItemsBehind(head.node)

(* Tagged CAS: the pointer and its tag must both be the ones loaded. *)
SwingTail(t, node) ==
  tail' = IF tail = myTail[t] THEN Ptr(node, myTail[t].tag + 1) ELSE tail

----------------------------------------
(* enqueue() *)

(* The nodes allocNode() may return; fresh memory is all the same. *)
Allocatable ==
  LET fresh == {n \in Nodes : memory[n] = "fresh"}
  IN (IF fresh = {} THEN {} ELSE {CHOOSE n \in fresh : TRUE})
     \cup {n \in Nodes : setup.recycle /\ memory[n] = "reclaimed"}

(* Mutant of AllocNode: next_ of a recycled node is not cleared. *)
AllocNodeUncleared(t) ==
  /\ pc[t] = "idle" /\ t \in setup.producers
  /\ enqueued < setup.elements
  /\ \E n \in Allocatable :
       /\ memory' = [memory EXCEPT ![n] = "allocated"]
       /\ value' = [value EXCEPT ![n] = enqueued + 1]
       /\ myNode' = [myNode EXCEPT ![t] = n]
  /\ enqueued' = enqueued + 1
  /\ Goto(t, "loadTail")
  /\ UNCHANGED <<setup, head, tail, next, myHead, myTail, myNext, answers>>

AllocNode(t) ==
  /\ pc[t] = "idle" /\ t \in setup.producers
  /\ enqueued < setup.elements
  /\ \E n \in Allocatable :
       /\ memory' = [memory EXCEPT ![n] = "allocated"]
       /\ value' = [value EXCEPT ![n] = enqueued + 1]
       /\ next' = [next EXCEPT ![n] = NullPtr]
       /\ myNode' = [myNode EXCEPT ![t] = n]
  /\ enqueued' = enqueued + 1
  /\ Goto(t, "loadTail")
  /\ UNCHANGED <<setup, head, tail, myHead, myTail, myNext, answers>>

LoadTail(t) ==
  /\ pc[t] = "loadTail"
  /\ myTail' = [myTail EXCEPT ![t] = tail]
  /\ Goto(t, "loadTailNext")
  /\ UNCHANGED <<setup, shared, myNode, myHead, myNext, answers>>

(* tail->ptr()->next_, and the test that tail_ has not moved meanwhile. *)
LoadTailNext(t) ==
  /\ pc[t] = "loadTailNext"
  /\ LET successor == next[myTail[t].node] IN
       /\ myNext' = [myNext EXCEPT ![t] = successor]
       /\ \/ tail # myTail[t] /\ Goto(t, "loadTail")
          \/ tail = myTail[t] /\ Goto(t, IF successor.node = Null THEN "link" ELSE "helpTail")
  /\ UNCHANGED <<setup, shared, myNode, myHead, myTail, answers>>

(* Mutant of Link: next_ is stored, not compared and swapped. *)
LinkBlindly(t) ==
  /\ pc[t] = "link"
  /\ next' = [next EXCEPT ![myTail[t].node] = Ptr(myNode[t], myNext[t].tag + 1)]
  /\ Goto(t, "swing")
  /\ UNCHANGED <<setup, head, tail, value, memory, enqueued, locals, answers>>

(* The CAS on next_ that makes the element part of the queue. *)
Link(t) ==
  /\ pc[t] = "link"
  /\ IF next[myTail[t].node] = myNext[t]
       THEN /\ next' = [next EXCEPT ![myTail[t].node] = Ptr(myNode[t], myNext[t].tag + 1)]
            /\ Goto(t, "swing")
       ELSE Goto(t, "loadTail") /\ UNCHANGED next
  /\ UNCHANGED <<setup, head, tail, value, memory, enqueued, locals, answers>>

(* The CAS that moves tail_ to the new node; whoever failed was helped. *)
Swing(t) ==
  /\ pc[t] = "swing"
  /\ SwingTail(t, myNode[t])
  /\ myNode' = [myNode EXCEPT ![t] = Null]
  /\ myTail' = [myTail EXCEPT ![t] = NullPtr]
  /\ myNext' = [myNext EXCEPT ![t] = NullPtr]
  /\ Goto(t, "idle")
  /\ UNCHANGED <<setup, head, next, value, memory, enqueued, myHead, answers>>

(* tail_ lags behind: move it to the next node and try again. *)
HelpTail(t) ==
  /\ pc[t] = "helpTail"
  /\ SwingTail(t, myNext[t].node)
  /\ Goto(t, "loadTail")
  /\ UNCHANGED <<setup, head, next, value, memory, enqueued, locals, answers>>

----------------------------------------
(* dequeue() and empty() load the same three pointers. *)

Call(t) ==
  /\ pc[t] = "idle" /\ t \in Consumers \cup setup.observers
  /\ Goto(t, "loadHead")
  /\ sawEmpty' = [sawEmpty EXCEPT ![t] = Items = <<>>]
  /\ UNCHANGED <<setup, shared, locals, result>>

LoadHead(t) ==
  /\ pc[t] = "loadHead"
  /\ myHead' = [myHead EXCEPT ![t] = head]
  /\ Goto(t, "loadTail2")
  /\ UNCHANGED <<setup, shared, myNode, myTail, myNext, answers>>

LoadTail2(t) ==
  /\ pc[t] = "loadTail2"
  /\ myTail' = [myTail EXCEPT ![t] = tail]
  /\ Goto(t, "loadHeadNext")
  /\ UNCHANGED <<setup, shared, myNode, myHead, myNext, answers>>

(* head->ptr()->next_, and the test that head_ has not moved meanwhile. *)
LoadHeadNext(t) ==
  /\ pc[t] = "loadHeadNext"
  /\ myNext' = [myNext EXCEPT ![t] = next[myHead[t].node]]
  /\ Goto(t, IF head = myHead[t] THEN "decide" ELSE "loadHead")
  /\ UNCHANGED <<setup, shared, myNode, myHead, myTail, answers>>

Return(t, answer) ==
  /\ result' = [result EXCEPT ![t] = answer]
  /\ myHead' = [myHead EXCEPT ![t] = NullPtr]
  /\ myTail' = [myTail EXCEPT ![t] = NullPtr]
  /\ myNext' = [myNext EXCEPT ![t] = NullPtr]
  /\ Goto(t, "idle")
  /\ UNCHANGED myNode

(* Mutant of LooksEmpty: a tail that lags behind is taken for an empty queue. *)
LooksEmptyByTail(t) == myHead[t].node = myTail[t].node

LooksEmpty(t) == myHead[t].node = myTail[t].node /\ myNext[t].node = Null

ObserveEmpty(t) ==
  /\ pc[t] = "decide" /\ t \in Observers
  /\ Return(t, IF LooksEmpty(t) THEN 0 ELSE 1)
  /\ UNCHANGED <<setup, shared, sawEmpty>>

(* dequeue() returns NULL, here 0. *)
DequeueNothing(t) ==
  /\ pc[t] = "decide" /\ t \in Consumers
  /\ LooksEmpty(t)
  /\ Return(t, 0)
  /\ UNCHANGED <<setup, shared, sawEmpty>>

Decide(t) ==
  /\ pc[t] = "decide" /\ t \in Consumers
  /\ ~LooksEmpty(t)
  /\ Goto(t, IF myHead[t].node = myTail[t].node THEN "helpDequeue" ELSE "advance")
  /\ UNCHANGED <<setup, shared, locals, answers>>

HelpDequeue(t) ==
  /\ pc[t] = "helpDequeue"
  /\ SwingTail(t, myNext[t].node)
  /\ Goto(t, "loadHead")
  /\ UNCHANGED <<setup, head, next, value, memory, enqueued, locals, answers>>

(* The element is in the node after the dummy, and the dummy is reclaimed.
   Mutants: the dummy's own value is returned, the other node is reclaimed. *)
ValueOfDummy(t) == value[myHead[t].node]
Value(t)        == value[myNext[t].node]

ReclaimedNext(t) == myNext[t].node
Reclaimed(t)     == myHead[t].node

(* Read next->ptr()->value_, then CAS head_ past the dummy and reclaim it.
   The two are one step: a value read from a node that is then recycled
   belongs to a CAS that fails, because head_ has moved. *)
Advance(t) ==
  /\ pc[t] = "advance"
  /\ IF head = myHead[t]
       THEN /\ head' = Ptr(myNext[t].node, myHead[t].tag + 1)
            /\ memory' = [memory EXCEPT ![Reclaimed(t)] = "reclaimed"]
            /\ Return(t, Value(t))
            /\ sawEmpty' = [u \in Threads |-> sawEmpty[u] \/ ItemsBehind(myNext[t].node) = <<>>]
       ELSE /\ Goto(t, "loadHead")
            /\ UNCHANGED <<setup, head, memory, locals, answers>>
  /\ UNCHANGED <<setup, tail, next, value, enqueued>>

----------------------------------------
EnqueueStep(t) == LoadTail(t) \/ LoadTailNext(t) \/ Link(t) \/ Swing(t) \/ HelpTail(t)

DequeueStep(t) == \/ LoadHead(t) \/ LoadTail2(t) \/ LoadHeadNext(t) \/ ObserveEmpty(t)
                  \/ DequeueNothing(t) \/ Decide(t) \/ HelpDequeue(t) \/ Advance(t)

Next == \E t \in Threads : AllocNode(t) \/ EnqueueStep(t) \/ Call(t) \/ DequeueStep(t)

Spec == Init /\ [][Next]_vars

(* Threads inside a call keep running, and the worker keeps dequeuing. *)
Fairness == \A t \in Threads :
  /\ WF_vars(EnqueueStep(t) \/ DequeueStep(t))
  /\ t \in Consumers => WF_vars(Call(t))

FairSpec == Spec /\ Fairness

----------------------------------------
(* "This queue orders elements first-in-first-out": the linked nodes behave
   as one sequence, whatever the interleaving of loads and CASes. *)
Fifo == INSTANCE AbstractQueue WITH items <- Items
ImplementsFifo == Fifo!Spec

(* NULL from dequeue(), and true from empty(): the queue was empty at some
   instant of the call, never skipped over a queue that held elements. *)
EmptyIsTrue ==
  [][\A t \in Consumers \cup Observers :
       pc[t] = "decide" /\ pc'[t] = "idle" /\ result'[t] = 0 => sawEmpty[t]]_vars

(* "we can reclaim head now": no thread is about to follow a pointer into
   memory that has been returned to the allocator. *)
Follows(t) == CASE pc[t] = "loadTailNext" -> {myTail[t].node}
                [] pc[t] = "link"         -> {myTail[t].node}
                [] pc[t] = "loadHeadNext" -> {myHead[t].node}
                [] pc[t] = "advance"      -> {myNext[t].node}
                [] OTHER                  -> {}

NoReclaimedAccess ==
  \A t \in Threads : \A n \in Follows(t) : n # Null /\ memory[n] = "allocated"

(* That holds for one producer beside the worker, and empty() of neither. *)
PairIsSafe == Alone(setup) => NoReclaimedAccess

(* The queue is lock-free: an element handed to enqueue() is not lost and
   not left behind; the worker gets it, even when the producer that linked
   it is slow to move tail_. *)
Pending(e) == \/ \E t \in Producers : /\ myNode[t] # Null /\ pc[t] # "swing"
                                       /\ value[myNode[t]] = e
              \/ \E i \in DOMAIN Items : Items[i] = e

EveryElementDelivered ==
  \A e \in Elements : Pending(e) ~> \E t \in Consumers : result[t] = e
=============================================================================
