----------------------------- MODULE QueueProofs -----------------------------
(* Proofs about the lock-free queue of commands, for any threads, nodes,
   elements and number of tags: it is a FIFO, says that it is empty only
   when it was, and one producer beside the worker never touches a node
   that was given back, even where memory is used again. *)
EXTENDS ConcurrentQueue, FiniteSetTheorems, SequenceTheorems, WellFoundedInduction, TLAPS

(* Where a thread owns a node that is not linked yet, and where it holds
   what it read from tail_, from head_, from both, and the successor. *)
Unlinked == {"loadTail", "loadTailNext", "link", "helpTail"}
HasTail  == {"loadTailNext", "link", "swing", "helpTail"}
HasNext  == {"decide", "helpDequeue", "advance"}
HasBoth  == HasNext \cup {"loadHeadNext"}
HasHead  == HasBoth \cup {"loadTail2"}
Enqueues == Unlinked \cup {"swing"}
Dequeues == HasHead \cup {"loadHead"}

On(L, n) == \E i \in DOMAIN L : n = L[i]
Left(n)  == n \in Nodes /\ memory[n] = "reclaimed"

(* The nodes of the queue in order, the dummy first. *)
Chain(L) ==
  /\ L \in Seq(Nodes) /\ L # <<>>
  /\ \A i, j \in DOMAIN L : L[i] = L[j] => i = j
  /\ \A i \in DOMAIN L : /\ memory[L[i]] = "allocated"
                         /\ next[L[i]].node = IF i < Len(L) THEN L[i + 1] ELSE Null
  /\ head.node = L[1] /\ On(L, tail.node)

(* A node that has left the queue keeps its successor. *)
Followed == \A n \in Nodes : Left(n) => next[n].node \in Nodes

(* A new node belongs to the thread that allocated it. *)
Owner(L, t) ==
  pc[t] \in Unlinked =>
      /\ myNode[t] \in Nodes /\ memory[myNode[t]] = "allocated" /\ ~On(L, myNode[t])
      /\ next[myNode[t]].node = Null /\ value[myNode[t]] \in Elements

Distinct ==
  \A t, u \in Threads :
      pc[t] \in Unlinked /\ pc[u] \in Unlinked /\ myNode[t] = myNode[u] => t = u

(* What enqueue() knows of the pointers it holds. *)
Enqueuer(L, t) ==
  /\ pc[t] \in Enqueues => t \in setup.producers
  /\ pc[t] \in HasTail => On(L, myTail[t].node) \/ Left(myTail[t].node)
  /\ pc[t] = "link" => myNext[t].node = Null
  /\ pc[t] = "swing" => myNode[t] \in Nodes /\ next[myTail[t].node].node = myNode[t]
  /\ pc[t] = "helpTail" =>
        myNext[t].node \in Nodes /\ next[myTail[t].node].node = myNext[t].node

(* What dequeue() and empty() know of theirs. *)
Dequeuer(L, t) ==
  /\ pc[t] \in Dequeues => t \in Consumers \cup setup.observers
  /\ pc[t] \in Dequeues /\ Len(L) = 1 => sawEmpty[t]
  /\ pc[t] \in HasHead => myHead[t].node = head.node \/ Left(myHead[t].node)
  /\ pc[t] \in HasBoth /\ head.node = myHead[t].node /\ myTail[t].node # myHead[t].node =>
        tail.node # head.node
  /\ pc[t] \in HasNext =>
        IF myNext[t].node = Null
          THEN pc[t] = "decide" /\ myTail[t].node = myHead[t].node /\ sawEmpty[t]
          ELSE myNext[t].node \in Nodes /\ next[myHead[t].node].node = myNext[t].node
  /\ pc[t] = "helpDequeue" => myTail[t].node = myHead[t].node
  /\ pc[t] = "advance" => myTail[t].node # myHead[t].node

(* One thread enqueues and one dequeues. *)
Paired == Alone(setup) /\ Cardinality(Consumers) = 1

(* Then the pointers they hold are those of the queue. *)
Pair(L, t) ==
  Paired =>
      /\ pc[t] \in HasHead => myHead[t] = head
      /\ pc[t] \in HasBoth => On(L, myTail[t].node)
      /\ pc[t] \in HasNext /\ myNext[t].node # Null => On(L, myNext[t].node)
      /\ pc[t] # "helpTail"
      /\ pc[t] \in {"loadTailNext", "link"} => myTail[t] = tail
      /\ pc[t] = "swing" => myNode[t] = L[Len(L)]

(* And tail_ is behind only while the producer is about to move it. *)
Lag(L) ==
  Paired =>
      \/ tail.node = L[Len(L)]
      \/ \E t \in Threads : /\ pc[t] = "swing" /\ tail = myTail[t]
                            /\ Len(L) > 1 /\ tail.node = L[Len(L) - 1]

Thread(L, t) == Owner(L, t) /\ Enqueuer(L, t) /\ Dequeuer(L, t) /\ Pair(L, t)

(* The inductive invariant, for the nodes L that are in the queue. *)
QueueInv(L) ==
  /\ TypeOK /\ Chain(L) /\ Followed /\ Distinct
  /\ \A t \in Threads : Thread(L, t)
  /\ Lag(L)

----------------------------------------
(* A set of numbers has a smallest one. *)
LEMMA Least ==
  ASSUME NEW S \in SUBSET Nat, S # {}
  PROVE  \E x \in S : \A y \in S : x <= y
<1> DEFINE Lt == {ss \in Nat \X Nat : ss[1] < ss[2]}
<1>1. IsWellFoundedOn(Lt, Nat) BY NatLessThanWellFounded DEF OpToRel
<1>2. \A x, y \in Nat : ~(<<y, x>> \in Lt) => x <= y OBVIOUS
<1> HIDE DEF Lt
<1>3. S \subseteq Nat OBVIOUS
<1>4. \E x \in S : \A y \in S : ~(<<y, x>> \in Lt) BY <1>1, <1>3, WFMin
<1>5. PICK x \in S : \A y \in S : ~(<<y, x>> \in Lt) BY <1>4
<1>6. \A y \in S : x <= y BY <1>2, <1>3, <1>5
<1> QED BY <1>6

(* A number that holds wherever the one before it does holds everywhere. *)
LEMMA Induction ==
  ASSUME NEW S \in SUBSET Nat, 0 \in S, \A n \in S : n + 1 \in S
  PROVE  \A n \in Nat : n \in S
<1> SUFFICES ASSUME Nat \ S # {} PROVE FALSE OBVIOUS
<1>1. PICK x \in Nat \ S : \A y \in Nat \ S : x <= y BY Least
<1>2. x - 1 \in Nat /\ x - 1 \in S BY <1>1
<1> QED BY <1>1, <1>2

(* ItemsBehind, of any links and values. *)
Behind(node, nxt, val) ==
  LET nodeAt[i \in Nat] == IF i = 0 THEN node
                           ELSE IF nodeAt[i - 1] = Null THEN Null
                           ELSE nxt[nodeAt[i - 1]].node
      linked == {i \in 1..Cardinality(Nodes) : nodeAt[i] # Null}
  IN [i \in 1..Cardinality(linked) |-> val[nodeAt[i]]]

(* The nodes of a list are linked, and have values, the dummy's left out. *)
Linked(C, nxt) ==
  /\ C \in Seq(Nodes) /\ C # <<>>
  /\ \A i, j \in DOMAIN C : C[i] = C[j] => i = j
  /\ \A i \in DOMAIN C : nxt[C[i]].node = IF i < Len(C) THEN C[i + 1] ELSE Null

Values(C, val) == [i \in 1 .. Len(C) - 1 |-> val[C[i + 1]]]

(* ItemsBehind finds just these. *)
LEMMA BehindChain ==
  ASSUME NEW nxt, NEW val, NEW C, Linked(C, nxt)
  PROVE  Behind(C[1], nxt, val) = Values(C, val)
<1> DEFINE Def(f) == [i \in Nat |-> IF i = 0 THEN C[1]
                                    ELSE IF f[i - 1] = Null THEN Null
                                    ELSE nxt[f[i - 1]].node]
           at == CHOOSE f : f = Def(f)
           g  == [i \in Nat |-> IF i < Len(C) THEN C[i + 1] ELSE Null]
<1>0. /\ C \in Seq(Nodes) /\ C # <<>>
      /\ \A i, j \in DOMAIN C : C[i] = C[j] => i = j
      /\ \A i \in DOMAIN C : nxt[C[i]].node = IF i < Len(C) THEN C[i + 1] ELSE Null
  BY DEF Linked
<1>1. DOMAIN C = 1 .. Len(C) /\ Len(C) \in Nat /\ Len(C) >= 1 /\ \A i \in DOMAIN C : C[i] \in Nodes
  BY <1>0
<1>2. \A i \in DOMAIN C : C[i] # Null BY <1>1, QueueAssumption
<1>3. \A i \in Nat : g[i] = Def(g)[i]
  <2> TAKE i \in Nat
  <2>1. CASE i = 0 BY <1>1, <2>1
  <2>2. CASE i # 0 /\ i - 1 < Len(C)
    <3>1. g[i - 1] = C[i] /\ i \in DOMAIN C BY <1>1, <2>2
    <3>2. Def(g)[i] = nxt[C[i]].node BY <1>2, <2>2, <3>1
    <3> QED BY <1>0, <1>1, <2>2, <3>1, <3>2
  <2>3. CASE i # 0 /\ ~(i - 1 < Len(C)) BY <1>1, <2>3
  <2> QED BY <2>1, <2>2, <2>3
<1>4. g = Def(g) BY <1>3
<1>5. at = Def(at) BY <1>4
<1>6. \A i \in Nat : at[i] = IF i = 0 THEN C[1]
                             ELSE IF at[i - 1] = Null THEN Null ELSE nxt[at[i - 1]].node
  BY <1>5
<1> HIDE DEF at
<1>7. \A i \in Nat : at[i] = IF i < Len(C) THEN C[i + 1] ELSE Null
  <2> DEFINE S == {i \in Nat : at[i] = IF i < Len(C) THEN C[i + 1] ELSE Null}
  <2>1. 0 \in S BY <1>1, <1>6
  <2>2. ASSUME NEW n \in S PROVE n + 1 \in S
    <3>1. CASE n < Len(C)
      <4>1. at[n] = C[n + 1] /\ n + 1 \in DOMAIN C /\ n \in Nat BY <1>1, <3>1
      <4>2. at[n + 1] = nxt[C[n + 1]].node BY <1>2, <1>6, <4>1
      <4> QED BY <1>0, <1>1, <4>1, <4>2
    <3>2. CASE ~(n < Len(C))
      <4>1. at[n] = Null /\ n \in Nat BY <3>2
      <4>2. at[n + 1] = Null BY <1>6, <4>1
      <4> QED BY <1>1, <3>2, <4>1, <4>2
    <3> QED BY <3>1, <3>2
  <2>3. \A n \in Nat : n \in S
    <3> HIDE DEF S
    <3>1. S \in SUBSET Nat BY DEF S
    <3> QED BY <2>1, <2>2, <3>1, Induction
  <2> QED BY <2>3
<1>8. Cardinality(Nodes) \in Nat /\ Len(C) <= Cardinality(Nodes)
  <2>1. IsFiniteSet(1 .. Len(C)) /\ Cardinality(1 .. Len(C)) = Len(C) BY <1>1, FS_Interval
  <2>2. C \in [1 .. Len(C) -> Nodes] BY <1>0, <1>1
  <2>3. C \in Injection(1 .. Len(C), Nodes) BY <1>0, <1>1, <2>2 DEF Injection, IsInjective
  <2>4. IsFiniteSet(Nodes) BY QueueAssumption
  <2>5. Cardinality(1 .. Len(C)) <= Cardinality(Nodes) BY <2>3, <2>4, FS_Injection
  <2> QED BY <2>1, <2>4, <2>5, FS_CardinalityType
<1>9. {i \in 1 .. Cardinality(Nodes) : at[i] # Null} = 1 .. Len(C) - 1
  <2>1. \A i \in 1 .. Cardinality(Nodes) : at[i] # Null <=> i < Len(C)
    <3> TAKE i \in 1 .. Cardinality(Nodes)
    <3>1. i \in Nat /\ (i < Len(C) => i + 1 \in DOMAIN C) BY <1>1, <1>8
    <3> QED BY <1>2, <1>7, <3>1
  <2> QED BY <1>1, <1>8, <2>1
<1>10. Cardinality(1 .. Len(C) - 1) = Len(C) - 1 BY <1>1, FS_Interval
<1>11. Behind(C[1], nxt, val) =
          [i \in 1 .. Cardinality({i \in 1 .. Cardinality(Nodes) : at[i] # Null}) |-> val[at[i]]]
  BY DEF Behind, at
<1>12. Behind(C[1], nxt, val) = [i \in 1 .. Len(C) - 1 |-> val[at[i]]] BY <1>9, <1>10, <1>11
<1>13. \A i \in 1 .. Len(C) - 1 : at[i] = C[i + 1] BY <1>1, <1>7
<1> QED BY <1>12, <1>13 DEF Values

(* What is left of a list without its first element. *)
LEMMA TailFacts ==
  ASSUME NEW S, NEW L \in Seq(S), Len(L) >= 2
  PROVE  /\ Tail(L) \in Seq(S) /\ Len(Tail(L)) = Len(L) - 1 /\ Len(Tail(L)) \in Nat
         /\ DOMAIN Tail(L) = 1 .. Len(Tail(L)) /\ Tail(L) # <<>>
         /\ \A i \in DOMAIN Tail(L) : i + 1 \in DOMAIN L /\ Tail(L)[i] = L[i + 1]
         /\ \A i \in DOMAIN L :
               i = 1 \/ (i - 1 \in DOMAIN Tail(L) /\ Tail(L)[i - 1] = L[i])
         /\ L[Len(L)] = Tail(L)[Len(Tail(L))]
<1>1. Len(L) \in Nat /\ DOMAIN L = 1 .. Len(L) /\ L # <<>> BY LenProperties
<1>2. Tail(L) \in Seq(S) /\ Len(Tail(L)) = Len(L) - 1
      /\ \A i \in 1 .. Len(Tail(L)) : Tail(L)[i] = L[i + 1]
  BY <1>1, HeadTailProperties
<1>3. PICK T : T = Tail(L) OBVIOUS
<1>4. Len(T) \in Nat /\ DOMAIN T = 1 .. Len(T) /\ Len(T) = Len(L) - 1 /\ T # <<>>
      /\ \A i \in 1 .. Len(T) : T[i] = L[i + 1]
  BY <1>1, <1>2, <1>3, LenProperties
<1>5. \A i \in DOMAIN T : i + 1 \in DOMAIN L /\ T[i] = L[i + 1] BY <1>1, <1>4
<1>6. \A i \in DOMAIN L : i = 1 \/ (i - 1 \in DOMAIN T /\ (i - 1) + 1 = i) BY <1>1, <1>4
<1>7. \A i \in DOMAIN L : i = 1 \/ (i - 1 \in DOMAIN T /\ T[i - 1] = L[i]) BY <1>5, <1>6
<1>8. Len(L) \in DOMAIN L /\ Len(L) # 1 BY <1>1
<1>9. T[Len(L) - 1] = L[Len(L)] BY <1>7, <1>8
<1> QED BY <1>2, <1>3, <1>4, <1>5, <1>7, <1>9

----------------------------------------
(* A pointer and its tag. *)
LEMMA PtrFacts ==
  /\ NullPtr \in Pointers /\ NullPtr.node = Null
  /\ \A n \in Nodes \cup {Null}, tag \in Nat :
        Ptr(n, tag) \in Pointers /\ Ptr(n, tag).node = n
<1>1. \A tag \in Nat : tag % TagCount \in 0 .. TagCount - 1 BY QueueAssumption
<1> QED BY <1>1 DEF Ptr, NullPtr, Pointers

(* The types of the locals of a thread. *)
LEMMA LocalTypes ==
  ASSUME TypeOK, NEW t \in Threads
  PROVE  /\ myNode[t] \in Nodes \cup {Null} /\ sawEmpty[t] \in BOOLEAN
         /\ \A p \in {head, tail, myHead[t], myTail[t], myNext[t]} :
               p \in Pointers /\ p.node \in Nodes \cup {Null} /\ p.tag \in Nat
         /\ \A n \in Nodes : next[n] \in Pointers /\ next[n].node \in Nodes \cup {Null}
                             /\ next[n].tag \in Nat
         /\ pc[t] \in Labels /\ setup \in Setups
BY DEF TypeOK, Pointers

(* Nodes that are in the queue, and how far it goes. *)
LEMMA ChainFacts ==
  ASSUME NEW L, Chain(L)
  PROVE  /\ L \in Seq(Nodes) /\ Len(L) \in Nat /\ Len(L) >= 1 /\ DOMAIN L = 1 .. Len(L)
         /\ \A i \in DOMAIN L : L[i] \in Nodes /\ L[i] # Null
         /\ \A n : On(L, n) => n \in Nodes /\ memory[n] = "allocated" /\ ~Left(n)
         /\ On(L, head.node) /\ On(L, tail.node)
<1>1. L \in Seq(Nodes) /\ Len(L) \in Nat /\ Len(L) >= 1 /\ DOMAIN L = 1 .. Len(L) BY DEF Chain
<1>2. \A i \in DOMAIN L : L[i] \in Nodes /\ L[i] # Null BY <1>1, QueueAssumption
<1>3. \A n : On(L, n) => n \in Nodes /\ memory[n] = "allocated" /\ ~Left(n) BY <1>2 DEF Chain, On, Left
<1>4. On(L, head.node) /\ On(L, tail.node) BY <1>1 DEF Chain, On
<1> QED BY <1>1, <1>2, <1>3, <1>4

(* What is linked to a node of the queue is the next one. *)
LEMMA ChainNext ==
  ASSUME NEW L, Chain(L), NEW n, On(L, n)
  PROVE  /\ next[n].node = Null <=> n = L[Len(L)]
         /\ next[n].node # Null => On(L, next[n].node) /\ next[n].node # head.node
<1>1. PICK i \in DOMAIN L : n = L[i] BY DEF On
<1>2. next[n].node = IF i < Len(L) THEN L[i + 1] ELSE Null BY <1>1 DEF Chain
<1>3. Len(L) \in DOMAIN L /\ 1 \in DOMAIN L /\ i \in 1 .. Len(L) /\ (i < Len(L) => i + 1 \in DOMAIN L)
  BY <1>1, ChainFacts
<1>4. CASE i < Len(L)
  <2>1. next[n].node = L[i + 1] /\ L[i + 1] # Null /\ On(L, L[i + 1])
    BY <1>2, <1>3, <1>4, ChainFacts DEF On
  <2>2. i + 1 # 1 /\ i # Len(L) BY <1>3, <1>4
  <2>3. L[i + 1] # L[1] /\ L[i] # L[Len(L)] BY <1>3, <1>4, <2>2 DEF Chain
  <2> QED BY <1>1, <2>1, <2>3 DEF Chain
<1>5. CASE ~(i < Len(L)) BY <1>1, <1>2, <1>3, <1>5
<1> QED BY <1>4, <1>5

(* With one producer and one consumer, threads in the same kind of call
   are the same. *)
LEMMA OnlyOne ==
  ASSUME Paired, TypeOK, NEW t \in Threads, NEW u \in Threads
  PROVE  /\ t \in setup.producers /\ u \in setup.producers => t = u
         /\ t \in Consumers \cup setup.observers /\ u \in Consumers \cup setup.observers => t = u
<1>1. setup \in Setups BY DEF TypeOK
<1>2. IsFiniteSet(setup.producers) BY <1>1, QueueAssumption, FS_Subset
<1>3. PICK p : setup.producers = {p} BY <1>2, FS_Singleton DEF Paired, Alone
<1>4. PICK c : Consumers = {c} BY QueueAssumption, FS_Singleton DEF Paired
<1> QED BY <1>3, <1>4 DEF Paired, Alone

----------------------------------------
(* A step of thread t that links, takes and allocates nothing; it may move
   tail_ to the next node. *)
LEMMA QuietStep ==
  ASSUME NEW L, QueueInv(L), NEW t \in Threads, TypeOK',
         UNCHANGED <<setup, head, next, value, memory>>,
         \/ tail' = tail
         \/ tail'.node = next[tail.node].node /\ tail'.node # Null,
         \A u \in Threads \ {t} :
            /\ pc'[u] = pc[u] /\ myNode'[u] = myNode[u] /\ myHead'[u] = myHead[u]
            /\ myTail'[u] = myTail[u] /\ myNext'[u] = myNext[u] /\ sawEmpty'[u] = sawEmpty[u],
         pc'[t] \in Unlinked => pc[t] \in Unlinked /\ myNode'[t] = myNode[t],
         pc[t] = "swing" /\ tail = myTail[t] => tail' # tail,
         Thread(L, t)'
  PROVE  QueueInv(L)'
<1>1. TypeOK /\ Chain(L) /\ Followed /\ Distinct /\ Lag(L) /\ \A u \in Threads : Thread(L, u)
  BY DEF QueueInv
<1>2. On(L, tail'.node) /\ (tail' # tail => tail'.node # head.node /\ tail.node # L[Len(L)])
  BY <1>1, ChainNext, ChainFacts
<1>3. Chain(L)' /\ Followed' BY <1>1, <1>2 DEF Chain, Followed, Left, On
<1>4. Distinct' BY <1>1 DEF Distinct
<1>5. ASSUME NEW u \in Threads, u # t PROVE Thread(L, u)'
  <2>1. Owner(L, u) /\ Enqueuer(L, u) /\ Dequeuer(L, u) /\ Pair(L, u) BY <1>1 DEF Thread
  <2>2. Owner(L, u)' BY <1>5, <2>1 DEF Owner, On
  <2>3. Enqueuer(L, u)' BY <1>5, <2>1 DEF Enqueuer, On, Left
  <2>4. Dequeuer(L, u)' BY <1>2, <1>5, <2>1 DEF Dequeuer, Left
  <2>5. Pair(L, u)'
    <3>1. ASSUME Paired, pc[u] \in {"loadTailNext", "link"} PROVE tail' = tail
      <4>1. SUFFICES ASSUME tail' # tail PROVE FALSE OBVIOUS
      <4>2. PICK v \in Threads : pc[v] = "swing" BY <1>1, <1>2, <3>1, <4>1 DEF Lag
      <4>3. u \in setup.producers /\ v \in setup.producers
        BY <1>1, <3>1, <4>2 DEF Thread, Enqueuer, Enqueues, Unlinked
      <4> QED BY <1>1, <3>1, <4>2, <4>3, OnlyOne
    <3> QED BY <1>5, <2>1, <3>1 DEF Pair, Paired, On
  <2> QED BY <2>2, <2>3, <2>4, <2>5 DEF Thread
<1>6. Lag(L)'
  <2>1. SUFFICES ASSUME Paired
                 PROVE  \/ tail'.node = L[Len(L)]
                        \/ \E v \in Threads : /\ pc'[v] = "swing" /\ tail' = myTail'[v]
                                              /\ Len(L) > 1 /\ tail'.node = L[Len(L) - 1]
    BY DEF Lag, Paired
  <2>2. CASE tail' = tail
    <3>1. CASE tail.node = L[Len(L)] BY <2>2, <3>1
    <3>2. CASE tail.node # L[Len(L)]
      <4>1. PICK v \in Threads : /\ pc[v] = "swing" /\ tail = myTail[v]
                                 /\ Len(L) > 1 /\ tail.node = L[Len(L) - 1]
        BY <1>1, <2>1, <3>2 DEF Lag
      <4>2. v # t BY <2>2, <4>1
      <4> QED BY <2>2, <4>1, <4>2
    <3> QED BY <3>1, <3>2
  <2>3. CASE tail' # tail
    <3>1. Len(L) > 1 /\ tail.node = L[Len(L) - 1] BY <1>1, <1>2, <2>1, <2>3 DEF Lag
    <3>2. Len(L) - 1 \in DOMAIN L /\ Len(L) - 1 < Len(L) /\ (Len(L) - 1) + 1 = Len(L)
      BY <1>1, <3>1, ChainFacts
    <3>3. next[L[Len(L) - 1]].node = L[Len(L)] BY <1>1, <3>2 DEF Chain
    <3> QED BY <2>3, <3>1, <3>3
  <2> QED BY <2>2, <2>3
<1> QED BY <1>3, <1>4, <1>5, <1>6 DEF QueueInv

----------------------------------------
(* enqueue() *)
LEMMA LoadTailStep ==
  ASSUME NEW L, QueueInv(L), NEW t \in Threads, LoadTail(t)
  PROVE  QueueInv(L)'
<1>1. TypeOK /\ Chain(L) /\ Owner(L, t) /\ Enqueuer(L, t) /\ Lag(L) BY DEF QueueInv, Thread
<1>2. /\ pc[t] = "loadTail" /\ pc'[t] = "loadTailNext" /\ myTail'[t] = tail
      /\ UNCHANGED <<setup, head, tail, next, value, memory, enqueued, myNode, myHead, myNext,
                     result, sawEmpty>>
      /\ \A u \in Threads \ {t} : pc'[u] = pc[u] /\ myTail'[u] = myTail[u]
  BY <1>1 DEF LoadTail, Goto, shared, answers, TypeOK
<1>3. TypeOK' BY <1>1, <1>2 DEF LoadTail, Goto, TypeOK, Labels
<1>4. Thread(L, t)'
  <2>1. Owner(L, t)' BY <1>1, <1>2 DEF Owner, On, Unlinked
  <2>2. Enqueuer(L, t)' /\ Dequeuer(L, t)'
    BY <1>1, <1>2, ChainFacts DEF Enqueuer, Dequeuer, On, Enqueues, Unlinked, Dequeues, HasHead,
                                  HasBoth, HasNext, HasTail
  <2>3. Pair(L, t)' BY <1>2 DEF Pair, HasHead, HasBoth, HasNext
  <2> QED BY <2>1, <2>2, <2>3 DEF Thread
<1> QED BY <1>2, <1>3, <1>4, QuietStep DEF Unlinked

LEMMA LoadTailNextStep ==
  ASSUME NEW L, QueueInv(L), NEW t \in Threads, LoadTailNext(t)
  PROVE  QueueInv(L)'
<1>1. TypeOK /\ Chain(L) /\ Owner(L, t) /\ Enqueuer(L, t) /\ Pair(L, t) /\ Lag(L)
      /\ \A u \in Threads : Enqueuer(L, u)
  BY DEF QueueInv, Thread
<1>2. PICK s : s = next[myTail[t].node] OBVIOUS
<1>3. /\ pc[t] = "loadTailNext" /\ myNext'[t] = s
      /\ pc'[t] \in {"loadTail", "link", "helpTail"}
      /\ pc'[t] = "link" => s.node = Null /\ tail = myTail[t]
      /\ pc'[t] = "helpTail" => s.node # Null /\ tail = myTail[t]
      /\ UNCHANGED <<setup, head, tail, next, value, memory, enqueued, myNode, myHead, myTail,
                     result, sawEmpty>>
      /\ \A u \in Threads \ {t} : pc'[u] = pc[u] /\ myNext'[u] = myNext[u]
  BY <1>1, <1>2 DEF LoadTailNext, Goto, shared, answers, TypeOK
<1>4. myTail[t].node \in Nodes /\ s \in Pointers /\ s.node \in Nodes \cup {Null}
  <2>1. myTail[t].node \in Nodes BY <1>1, <1>3, ChainFacts DEF Enqueuer, HasTail, Left
  <2> QED BY <1>1, <1>2, <2>1, LocalTypes
<1>5. TypeOK' BY <1>1, <1>2, <1>3, <1>4 DEF LoadTailNext, Goto, TypeOK, Labels
<1>6. Thread(L, t)'
  <2>1. Owner(L, t)' BY <1>1, <1>3 DEF Owner, On, Unlinked
  <2>2. Enqueuer(L, t)' /\ Dequeuer(L, t)'
    BY <1>1, <1>2, <1>3, <1>4 DEF Enqueuer, Dequeuer, On, Left, Enqueues, Unlinked, Dequeues,
                                  HasHead, HasBoth, HasNext, HasTail
  <2>3. ASSUME Paired, pc'[t] = "helpTail" PROVE FALSE
    <3>1. tail.node = myTail[t].node /\ On(L, tail.node) /\ tail.node # L[Len(L)]
      BY <1>1, <1>2, <1>3, <2>3, ChainNext, ChainFacts
    <3>2. PICK v \in Threads : pc[v] = "swing" BY <1>1, <2>3, <3>1 DEF Lag
    <3>3. v \in setup.producers /\ t \in setup.producers
      BY <1>1, <1>3, <3>2 DEF Enqueuer, Enqueues, Unlinked
    <3> QED BY <1>1, <1>3, <2>3, <3>2, <3>3, OnlyOne
  <2>4. Pair(L, t)' BY <1>1, <1>3, <2>3 DEF Pair, Paired, HasHead, HasBoth, HasNext
  <2> QED BY <2>1, <2>2, <2>4 DEF Thread
<1> QED BY <1>3, <1>5, <1>6, QuietStep DEF Unlinked

(* The CAS on next_ fails. *)
LEMMA LinkFailsStep ==
  ASSUME NEW L, QueueInv(L), NEW t \in Threads, Link(t), next[myTail[t].node] # myNext[t]
  PROVE  QueueInv(L)'
<1>1. TypeOK /\ Owner(L, t) /\ Enqueuer(L, t) BY DEF QueueInv, Thread
<1>2. /\ pc[t] = "link" /\ pc'[t] = "loadTail"
      /\ UNCHANGED <<setup, head, tail, next, value, memory, enqueued, myNode, myHead, myTail,
                     myNext, result, sawEmpty>>
      /\ \A u \in Threads \ {t} : pc'[u] = pc[u]
  BY <1>1 DEF Link, Goto, locals, answers, TypeOK
<1>3. TypeOK' BY <1>1, <1>2 DEF Link, Goto, TypeOK, Labels
<1>4. Thread(L, t)'
  BY <1>1, <1>2 DEF Thread, Owner, Enqueuer, Dequeuer, Pair, On, Unlinked, Enqueues, Dequeues,
                    HasHead, HasBoth, HasNext, HasTail
<1> QED BY <1>2, <1>3, <1>4, QuietStep DEF Unlinked

(* The CAS on tail_: it succeeds or leaves tail_ alone. *)
LEMMA SwingTailFacts ==
  ASSUME TypeOK, NEW t \in Threads, NEW n \in Nodes, SwingTail(t, n),
         tail = myTail[t] => next[myTail[t].node].node = n
  PROVE  /\ tail' \in Pointers
         /\ tail' = tail \/ (tail'.node = next[tail.node].node /\ tail'.node # Null)
         /\ tail = myTail[t] => tail'.node = n
<1>1. CASE tail = myTail[t]
  <2>1. myTail[t].tag + 1 \in Nat BY LocalTypes
  <2>2. tail' = Ptr(n, myTail[t].tag + 1) BY <1>1 DEF SwingTail
  <2> QED BY <1>1, <2>1, <2>2, PtrFacts, QueueAssumption
<1>2. CASE tail # myTail[t] BY <1>2 DEF SwingTail, TypeOK
<1> QED BY <1>1, <1>2

LEMMA SwingStep ==
  ASSUME NEW L, QueueInv(L), NEW t \in Threads, Swing(t)
  PROVE  QueueInv(L)'
<1>1. TypeOK /\ Chain(L) /\ Enqueuer(L, t) BY DEF QueueInv, Thread
<1>2. /\ pc[t] = "swing" /\ pc'[t] = "idle" /\ SwingTail(t, myNode[t])
      /\ UNCHANGED <<setup, head, next, value, memory, enqueued, myHead, result, sawEmpty>>
      /\ \A u \in Threads \ {t} : /\ pc'[u] = pc[u] /\ myNode'[u] = myNode[u]
                                  /\ myTail'[u] = myTail[u] /\ myNext'[u] = myNext[u]
  BY <1>1 DEF Swing, Goto, answers, TypeOK
<1>3. myNode[t] \in Nodes /\ next[myTail[t].node].node = myNode[t] BY <1>1, <1>2 DEF Enqueuer
<1>4. /\ tail' \in Pointers
      /\ tail' = tail \/ (tail'.node = next[tail.node].node /\ tail'.node # Null)
      /\ tail = myTail[t] => tail'.node = myNode[t]
  BY <1>1, <1>2, <1>3, SwingTailFacts
<1>5. tail = myTail[t] => tail' # tail
  <2>1. On(L, tail.node) BY <1>1, ChainFacts
  <2>2. PICK i \in DOMAIN L : tail.node = L[i] BY <2>1 DEF On
  <2>3. next[L[i]].node # L[i]
    <3>1. next[L[i]].node = IF i < Len(L) THEN L[i + 1] ELSE Null BY <1>1 DEF Chain
    <3>2. i \in 1 .. Len(L) /\ (i < Len(L) => i + 1 \in DOMAIN L /\ i + 1 # i) BY <1>1, ChainFacts
    <3> QED BY <1>1, <3>1, <3>2, ChainFacts DEF Chain
  <2> QED BY <1>3, <1>4, <2>2, <2>3
<1>6. TypeOK' BY <1>1, <1>2, <1>4, PtrFacts DEF Swing, Goto, TypeOK, Labels
<1>7. Thread(L, t)'
  BY <1>2 DEF Thread, Owner, Enqueuer, Dequeuer, Pair, Unlinked, Enqueues, Dequeues, HasHead,
              HasBoth, HasNext, HasTail
<1> QED BY <1>2, <1>4, <1>5, <1>6, <1>7, QuietStep DEF Unlinked

LEMMA HelpTailStep ==
  ASSUME NEW L, QueueInv(L), NEW t \in Threads, HelpTail(t)
  PROVE  QueueInv(L)'
<1>1. TypeOK /\ Owner(L, t) /\ Enqueuer(L, t) BY DEF QueueInv, Thread
<1>2. /\ pc[t] = "helpTail" /\ pc'[t] = "loadTail" /\ SwingTail(t, myNext[t].node)
      /\ UNCHANGED <<setup, head, next, value, memory, enqueued, myNode, myHead, myTail, myNext,
                     result, sawEmpty>>
      /\ \A u \in Threads \ {t} : pc'[u] = pc[u]
  BY <1>1 DEF HelpTail, Goto, locals, answers, TypeOK
<1>3. myNext[t].node \in Nodes /\ next[myTail[t].node].node = myNext[t].node BY <1>1, <1>2 DEF Enqueuer
<1>4. /\ tail' \in Pointers
      /\ tail' = tail \/ (tail'.node = next[tail.node].node /\ tail'.node # Null)
  BY <1>1, <1>2, <1>3, SwingTailFacts
<1>5. TypeOK' BY <1>1, <1>2, <1>4 DEF HelpTail, Goto, TypeOK, Labels
<1>6. Thread(L, t)'
  BY <1>1, <1>2 DEF Thread, Owner, Enqueuer, Dequeuer, Pair, On, Unlinked, Enqueues, Dequeues,
                    HasHead, HasBoth, HasNext, HasTail
<1> QED BY <1>2, <1>4, <1>5, <1>6, QuietStep DEF Unlinked

LEMMA HelpDequeueStep ==
  ASSUME NEW L, QueueInv(L), NEW t \in Threads, HelpDequeue(t)
  PROVE  QueueInv(L)'
<1>1. TypeOK /\ Dequeuer(L, t) BY DEF QueueInv, Thread
<1>2. /\ pc[t] = "helpDequeue" /\ pc'[t] = "loadHead" /\ SwingTail(t, myNext[t].node)
      /\ UNCHANGED <<setup, head, next, value, memory, enqueued, myNode, myHead, myTail, myNext,
                     result, sawEmpty>>
      /\ \A u \in Threads \ {t} : pc'[u] = pc[u]
  BY <1>1 DEF HelpDequeue, Goto, locals, answers, TypeOK
<1>3. myNext[t].node \in Nodes /\ next[myTail[t].node].node = myNext[t].node
  BY <1>1, <1>2 DEF Dequeuer, HasNext
<1>4. /\ tail' \in Pointers
      /\ tail' = tail \/ (tail'.node = next[tail.node].node /\ tail'.node # Null)
  BY <1>1, <1>2, <1>3, SwingTailFacts
<1>5. TypeOK' BY <1>1, <1>2, <1>4 DEF HelpDequeue, Goto, TypeOK, Labels
<1>6. Thread(L, t)'
  BY <1>1, <1>2 DEF Thread, Owner, Enqueuer, Dequeuer, Pair, Unlinked, Enqueues, Dequeues,
                    HasHead, HasBoth, HasNext, HasTail
<1> QED BY <1>2, <1>4, <1>5, <1>6, QuietStep DEF Unlinked

----------------------------------------
(* dequeue() and empty() *)

(* What the queue holds. *)
LEMMA ItemsOf ==
  ASSUME NEW L, Chain(L)
  PROVE  Items = Values(L, value)
<1>1. Items = Behind(L[1], next, value) BY DEF Items, ItemsBehind, Behind, Chain
<1>2. Linked(L, next) BY DEF Chain, Linked
<1> QED BY <1>1, <1>2, BehindChain

LEMMA ItemsNext ==
  ASSUME NEW L, Chain(L)'
  PROVE  Items' = Values(L, value')
<1>1. Items' = Behind(L[1], next', value') BY DEF Items, ItemsBehind, Behind, Chain
<1>2. Linked(L, next') BY DEF Chain, Linked
<1> QED BY <1>1, <1>2, BehindChain

LEMMA CallStep ==
  ASSUME NEW L, QueueInv(L), NEW t \in Threads, Call(t)
  PROVE  QueueInv(L)'
<1>1. TypeOK /\ Chain(L) BY DEF QueueInv
<1>2. /\ pc[t] = "idle" /\ t \in Consumers \cup setup.observers /\ pc'[t] = "loadHead"
      /\ UNCHANGED <<setup, head, tail, next, value, memory, enqueued, myNode, myHead, myTail,
                     myNext, result>>
      /\ \A u \in Threads \ {t} : pc'[u] = pc[u] /\ sawEmpty'[u] = sawEmpty[u]
      /\ sawEmpty'[t] = (Items = <<>>)
  BY <1>1 DEF Call, Goto, shared, locals, TypeOK
<1>3. TypeOK' BY <1>1, <1>2 DEF Call, Goto, TypeOK, Labels
<1>4. Len(L) = 1 => Items = <<>> BY <1>1, ItemsOf DEF Values
<1>5. Thread(L, t)'
  BY <1>2, <1>4 DEF Thread, Owner, Enqueuer, Dequeuer, Pair, Unlinked, Enqueues, Dequeues,
                    HasHead, HasBoth, HasNext, HasTail
<1> QED BY <1>2, <1>3, <1>5, QuietStep DEF Unlinked

LEMMA LoadHeadStep ==
  ASSUME NEW L, QueueInv(L), NEW t \in Threads, LoadHead(t)
  PROVE  QueueInv(L)'
<1>1. TypeOK /\ Dequeuer(L, t) BY DEF QueueInv, Thread
<1>2. /\ pc[t] = "loadHead" /\ pc'[t] = "loadTail2" /\ myHead'[t] = head
      /\ UNCHANGED <<setup, head, tail, next, value, memory, enqueued, myNode, myTail, myNext,
                     result, sawEmpty>>
      /\ \A u \in Threads \ {t} : pc'[u] = pc[u] /\ myHead'[u] = myHead[u]
  BY <1>1 DEF LoadHead, Goto, shared, answers, TypeOK
<1>3. TypeOK' BY <1>1, <1>2 DEF LoadHead, Goto, TypeOK, Labels
<1>4. Thread(L, t)'
  BY <1>1, <1>2 DEF Thread, Owner, Enqueuer, Dequeuer, Pair, Unlinked, Enqueues, Dequeues,
                    HasHead, HasBoth, HasNext, HasTail
<1> QED BY <1>2, <1>3, <1>4, QuietStep DEF Unlinked

LEMMA LoadTail2Step ==
  ASSUME NEW L, QueueInv(L), NEW t \in Threads, LoadTail2(t)
  PROVE  QueueInv(L)'
<1>1. TypeOK /\ Chain(L) /\ Dequeuer(L, t) /\ Pair(L, t) BY DEF QueueInv, Thread
<1>2. /\ pc[t] = "loadTail2" /\ pc'[t] = "loadHeadNext" /\ myTail'[t] = tail
      /\ UNCHANGED <<setup, head, tail, next, value, memory, enqueued, myNode, myHead, myNext,
                     result, sawEmpty>>
      /\ \A u \in Threads \ {t} : pc'[u] = pc[u] /\ myTail'[u] = myTail[u]
  BY <1>1 DEF LoadTail2, Goto, shared, answers, TypeOK
<1>3. TypeOK' BY <1>1, <1>2 DEF LoadTail2, Goto, TypeOK, Labels
<1>4. Owner(L, t)' /\ Enqueuer(L, t)' /\ Dequeuer(L, t)'
  BY <1>1, <1>2 DEF Owner, Enqueuer, Dequeuer, Left, Unlinked, Enqueues, Dequeues,
                    HasHead, HasBoth, HasNext, HasTail
<1>5. Pair(L, t)' BY <1>1, <1>2, ChainFacts DEF Pair, Paired, On, HasHead, HasBoth, HasNext
<1> QED BY <1>2, <1>3, <1>4, <1>5, QuietStep DEF Unlinked, Thread

LEMMA LoadHeadNextStep ==
  ASSUME NEW L, QueueInv(L), NEW t \in Threads, LoadHeadNext(t)
  PROVE  QueueInv(L)'
<1>1. TypeOK /\ Chain(L) /\ Dequeuer(L, t) /\ Pair(L, t) BY DEF QueueInv, Thread
<1>2. PICK s : s = next[myHead[t].node] OBVIOUS
<1>3. /\ pc[t] = "loadHeadNext" /\ myNext'[t] = s
      /\ pc'[t] = IF head = myHead[t] THEN "decide" ELSE "loadHead"
      /\ UNCHANGED <<setup, head, tail, next, value, memory, enqueued, myNode, myHead, myTail,
                     result, sawEmpty>>
      /\ \A u \in Threads \ {t} : pc'[u] = pc[u] /\ myNext'[u] = myNext[u]
  BY <1>1, <1>2 DEF LoadHeadNext, Goto, shared, answers, TypeOK
<1>4. myHead[t].node \in Nodes /\ s \in Pointers /\ s.node \in Nodes \cup {Null}
  <2>1. myHead[t].node \in Nodes BY <1>1, <1>3, ChainFacts DEF Dequeuer, HasHead, HasBoth, Left
  <2> QED BY <1>1, <1>2, <2>1, LocalTypes
<1>5. TypeOK' BY <1>1, <1>2, <1>3, <1>4 DEF LoadHeadNext, Goto, TypeOK, Labels
<1>6. CASE head # myHead[t]
  <2>1. Thread(L, t)'
    BY <1>1, <1>3, <1>6 DEF Thread, Owner, Enqueuer, Dequeuer, Pair, Unlinked, Enqueues, Dequeues,
                            HasHead, HasBoth, HasNext, HasTail
  <2> QED BY <1>3, <1>5, <1>6, <2>1, QuietStep DEF Unlinked
<1>7. CASE head = myHead[t]
  <2>1. /\ s.node = Null => Len(L) = 1 /\ tail.node = head.node
        /\ s.node # Null => On(L, s.node)
    <3>1. On(L, head.node) /\ head.node = L[1] /\ Len(L) \in 1 .. Len(L) /\ 1 \in 1 .. Len(L)
      BY <1>1, ChainFacts DEF Chain
    <3>2. s.node = Null => L[Len(L)] = L[1] BY <1>1, <1>2, <1>7, <3>1, ChainNext
    <3>3. s.node = Null => Len(L) = 1 BY <1>1, <3>1, <3>2, ChainFacts DEF Chain
    <3>4. Len(L) = 1 => tail.node = head.node BY <1>1, <3>1, ChainFacts DEF On
    <3> QED BY <1>1, <1>2, <1>7, <3>1, <3>3, <3>4, ChainNext
  <2>2. Owner(L, t)' /\ Enqueuer(L, t)' BY <1>3, <1>7 DEF Owner, Enqueuer, Unlinked, Enqueues, HasTail
  <2>3. Dequeuer(L, t)'
    BY <1>1, <1>2, <1>3, <1>4, <1>7, <2>1 DEF Dequeuer, Left, Dequeues, HasHead, HasBoth, HasNext
  <2>4. Pair(L, t)' BY <1>1, <1>3, <1>7, <2>1 DEF Pair, Paired, On, HasHead, HasBoth, HasNext
  <2> QED BY <1>3, <1>5, <1>7, <2>2, <2>3, <2>4, QuietStep DEF Unlinked, Thread
<1> QED BY <1>6, <1>7

(* A call returns, and nothing was taken. *)
LEMMA ReturnStep ==
  ASSUME NEW L, QueueInv(L), NEW t \in Threads, pc[t] = "decide",
         NEW a \in {0, 1},
         Return(t, a), UNCHANGED <<setup, shared, sawEmpty>>
  PROVE  QueueInv(L)'
<1>1. TypeOK BY DEF QueueInv
<1>2. /\ pc'[t] = "idle"
      /\ UNCHANGED <<setup, head, tail, next, value, memory, enqueued, myNode, sawEmpty>>
      /\ \A u \in Threads \ {t} : /\ pc'[u] = pc[u] /\ myHead'[u] = myHead[u]
                                  /\ myTail'[u] = myTail[u] /\ myNext'[u] = myNext[u]
  BY <1>1 DEF Return, Goto, shared, TypeOK
<1>3. TypeOK' BY <1>1, <1>2, PtrFacts, QueueAssumption DEF Return, Goto, TypeOK, Labels
<1>4. Thread(L, t)'
  BY <1>2 DEF Thread, Owner, Enqueuer, Dequeuer, Pair, Unlinked, Enqueues, Dequeues,
              HasHead, HasBoth, HasNext, HasTail
<1> QED BY <1>2, <1>3, <1>4, QuietStep DEF Unlinked

LEMMA DecideStep ==
  ASSUME NEW L, QueueInv(L), NEW t \in Threads, Decide(t)
  PROVE  QueueInv(L)'
<1>1. TypeOK /\ Dequeuer(L, t) /\ Pair(L, t) BY DEF QueueInv, Thread
<1>2. /\ pc[t] = "decide"
      /\ pc'[t] = IF myHead[t].node = myTail[t].node THEN "helpDequeue" ELSE "advance"
      /\ ~(myHead[t].node = myTail[t].node /\ myNext[t].node = Null)
      /\ UNCHANGED <<setup, head, tail, next, value, memory, enqueued, myNode, myHead, myTail,
                     myNext, result, sawEmpty>>
      /\ \A u \in Threads \ {t} : pc'[u] = pc[u]
  BY <1>1 DEF Decide, LooksEmpty, Goto, shared, locals, answers, TypeOK
<1>3. TypeOK' BY <1>1, <1>2 DEF Decide, Goto, TypeOK, Labels
<1>4. Owner(L, t)' /\ Enqueuer(L, t)' /\ Dequeuer(L, t)'
  BY <1>1, <1>2 DEF Owner, Enqueuer, Dequeuer, Left, Unlinked, Enqueues, Dequeues,
                    HasHead, HasBoth, HasNext, HasTail
<1>5. Pair(L, t)' BY <1>1, <1>2 DEF Pair, Paired, On, HasHead, HasBoth, HasNext
<1> QED BY <1>2, <1>3, <1>4, <1>5, QuietStep DEF Unlinked, Thread

(* The CAS on head_ fails. *)
LEMMA AdvanceFailsStep ==
  ASSUME NEW L, QueueInv(L), NEW t \in Threads, Advance(t), head # myHead[t]
  PROVE  QueueInv(L)'
<1>1. TypeOK /\ Dequeuer(L, t) BY DEF QueueInv, Thread
<1>2. /\ pc[t] = "advance" /\ pc'[t] = "loadHead"
      /\ UNCHANGED <<setup, head, tail, next, value, memory, enqueued, myNode, myHead, myTail,
                     myNext, result, sawEmpty>>
      /\ \A u \in Threads \ {t} : pc'[u] = pc[u]
  BY <1>1 DEF Advance, Goto, locals, answers, TypeOK
<1>3. TypeOK' BY <1>1, <1>2 DEF Advance, Goto, TypeOK, Labels
<1>4. Thread(L, t)'
  BY <1>1, <1>2 DEF Thread, Owner, Enqueuer, Dequeuer, Pair, Unlinked, Enqueues, Dequeues,
                    HasHead, HasBoth, HasNext, HasTail
<1> QED BY <1>2, <1>3, <1>4, QuietStep DEF Unlinked

----------------------------------------
(* The CAS on next_ succeeds: the new node is the last one. *)
LEMMA LinkStep ==
  ASSUME NEW L, QueueInv(L), NEW t \in Threads, Link(t), next[myTail[t].node] = myNext[t],
         NEW n, n = myNode[t]
  PROVE  /\ QueueInv(Append(L, n))'
         /\ value[n] \in Elements /\ Items' = Append(Items, value[n])
<1>1. TypeOK /\ Chain(L) /\ Followed /\ Distinct /\ Lag(L)
      /\ \A u \in Threads : Owner(L, u) /\ Enqueuer(L, u) /\ Dequeuer(L, u) /\ Pair(L, u)
  BY DEF QueueInv, Thread
<1>2. PICK x, M : n = myNode[t] /\ x = myTail[t].node /\ M = Append(L, n) OBVIOUS
<1>3. pc[t] = "link" /\ next[x].node = Null BY <1>1, <1>2 DEF Link, Enqueuer
<1>4. x = L[Len(L)] /\ x \in Nodes
  <2>1. On(L, x) \/ Left(x) BY <1>1, <1>2, <1>3 DEF Enqueuer, HasTail
  <2>2. ~Left(x) BY <1>1, <1>3, QueueAssumption DEF Followed, Left
  <2> QED BY <1>1, <1>3, <2>1, <2>2, ChainNext, ChainFacts
<1>5. /\ n \in Nodes /\ memory[n] = "allocated" /\ ~On(L, n) /\ next[n].node = Null
      /\ value[n] \in Elements /\ n # Null /\ n # x
  <2>1. On(L, L[Len(L)]) BY <1>1, ChainFacts DEF On
  <2> QED BY <1>1, <1>2, <1>3, <1>4, <2>1, QueueAssumption DEF Owner, Unlinked
<1>6. PICK p : p = Ptr(n, myNext[t].tag + 1) OBVIOUS
<1>7. p \in Pointers /\ p.node = n
  <2>1. myNext[t].tag + 1 \in Nat BY <1>1, LocalTypes
  <2> QED BY <1>5, <1>6, <2>1, PtrFacts
<1>8. /\ pc'[t] = "swing" /\ next'[x] = p
      /\ \A y \in Nodes : y # x => next'[y] = next[y]
      /\ UNCHANGED <<setup, head, tail, value, memory, enqueued, myNode, myHead, myTail, myNext,
                     result, sawEmpty>>
      /\ \A u \in Threads \ {t} : pc'[u] = pc[u]
  BY <1>1, <1>2, <1>4, <1>6 DEF Link, Goto, locals, answers, TypeOK
<1>9. /\ M \in Seq(Nodes) /\ Len(M) = Len(L) + 1 /\ DOMAIN M = 1 .. Len(M) /\ M # <<>>
      /\ M[Len(M)] = n /\ \A i \in DOMAIN L : i \in DOMAIN M /\ M[i] = L[i]
      /\ \A i \in DOMAIN M : i \in DOMAIN L \/ i = Len(M)
      /\ Len(L) \in Nat /\ Len(L) >= 1 /\ DOMAIN L = 1 .. Len(L)
  BY <1>1, <1>2, <1>5, ChainFacts
<1>10. \A y : On(M, y) <=> On(L, y) \/ y = n BY <1>9 DEF On
<1>11. TypeOK'
  <2>1. next' \in [Nodes -> Pointers] BY <1>1, <1>2, <1>4, <1>6, <1>7 DEF Link, TypeOK
  <2> QED BY <1>1, <1>8, <2>1 DEF Link, Goto, TypeOK, Labels
<1>12. Chain(M)'
  <2>1. \A i, j \in DOMAIN M : M[i] = M[j] => i = j BY <1>1, <1>5, <1>9 DEF Chain, On
  <2>2. ASSUME NEW i \in DOMAIN M
        PROVE  memory'[M[i]] = "allocated" /\ next'[M[i]].node = IF i < Len(M) THEN M[i + 1] ELSE Null
    <3>1. CASE i = Len(M) BY <1>5, <1>8, <1>9, <3>1
    <3>2. CASE i = Len(L) BY <1>1, <1>4, <1>7, <1>8, <1>9, <3>2 DEF Chain
    <3>3. CASE i \in DOMAIN L /\ i # Len(L)
      <4>1. L[i] # x /\ i < Len(L) /\ i + 1 \in DOMAIN L /\ Len(L) \in DOMAIN L
        BY <1>1, <1>4, <1>9, <3>3 DEF Chain
      <4> QED BY <1>1, <1>8, <1>9, <3>3, <4>1 DEF Chain
    <3> QED BY <1>9, <3>1, <3>2, <3>3
  <2>4. head'.node = M[1] /\ On(M, tail'.node) BY <1>1, <1>8, <1>9, <1>10, ChainFacts DEF Chain
  <2> QED BY <1>9, <2>1, <2>2, <2>4 DEF Chain, On
<1>13. Followed' BY <1>1, <1>4, <1>5, <1>7, <1>8 DEF Followed, Left
<1>14. Distinct' BY <1>1, <1>8 DEF Distinct, Unlinked
<1>15. \A y : /\ On(L, y) \/ Left(y) => y \in Nodes /\ (On(M, y) \/ Left(y)')
              /\ y \in Nodes /\ next[y].node \in Nodes => next'[y].node = next[y].node
  BY <1>1, <1>3, <1>8, <1>10, ChainFacts, QueueAssumption DEF Left
<1>16. ASSUME NEW u \in Threads, u # t PROVE Thread(M, u)'
  <2>1. Owner(L, u) /\ Enqueuer(L, u) /\ Dequeuer(L, u) /\ Pair(L, u) BY <1>1
  <2>2. Owner(M, u)'
    <3>1. SUFFICES ASSUME pc[u] \in Unlinked
                   PROVE  /\ myNode[u] \in Nodes /\ memory[myNode[u]] = "allocated"
                          /\ ~On(M, myNode[u])
                          /\ next'[myNode[u]].node = Null /\ value[myNode[u]] \in Elements
      BY <1>8, <1>16 DEF Owner, On
    <3>2. myNode[u] # n /\ ~On(L, myNode[u])
      BY <1>1, <1>2, <1>3, <1>16, <3>1 DEF Distinct, Unlinked, Owner
    <3>3. myNode[u] # x BY <1>4, <1>9, <3>2 DEF On
    <3> QED BY <1>8, <1>10, <2>1, <3>1, <3>2, <3>3 DEF Owner
  <2>3. Enqueuer(M, u)'
    <3>1. PICK y : y = myTail[u].node OBVIOUS
    <3>2. pc[u] \in HasTail => y \in Nodes /\ (On(M, y) \/ Left(y)') BY <1>15, <2>1, <3>1 DEF Enqueuer
    <3>3. y \in Nodes /\ next[y].node \in Nodes => next'[y].node = next[y].node BY <1>15
    <3> QED BY <1>8, <1>16, <2>1, <3>1, <3>2, <3>3 DEF Enqueuer, On, Left, HasTail
  <2>4. Dequeuer(M, u)'
    BY <1>1, <1>8, <1>9, <1>15, <1>16, <2>1, ChainFacts DEF Dequeuer, Left, HasHead, HasBoth
  <2>5. Pair(M, u)'
    <3>1. ASSUME Paired, pc[u] = "swing" PROVE FALSE
      <4>1. u \in setup.producers /\ t \in setup.producers
        BY <1>1, <1>3, <3>1 DEF Enqueuer, Enqueues, Unlinked
      <4> QED BY <1>1, <1>16, <3>1, <4>1, OnlyOne
    <3>2. \A y : On(L, y) => On(M, y) BY <1>10
    <3> QED BY <1>8, <1>16, <2>1, <3>1, <3>2 DEF Pair, Paired, On
  <2> QED BY <2>2, <2>3, <2>4, <2>5 DEF Thread
<1>17. Thread(M, t)'
  <2>1. Owner(M, t)' /\ Dequeuer(M, t)'
    BY <1>8 DEF Owner, Dequeuer, Unlinked, Dequeues, HasHead, HasBoth, HasNext
  <2>2. Enqueuer(M, t)'
    BY <1>1, <1>2, <1>3, <1>4, <1>5, <1>7, <1>8, <1>9, <1>10
       DEF Enqueuer, On, Left, Enqueues, Unlinked, HasTail
  <2>3. Pair(M, t)' BY <1>2, <1>8, <1>9 DEF Pair, HasHead, HasBoth, HasNext
  <2> QED BY <2>1, <2>2, <2>3 DEF Thread
<1>18. Lag(M)'
  <2>1. SUFFICES ASSUME Paired PROVE tail = myTail[t] /\ tail.node = M[Len(M) - 1]
    BY <1>8, <1>9 DEF Lag, Paired
  <2>2. tail = myTail[t] BY <1>1, <1>3, <2>1 DEF Pair
  <2>3. Len(M) - 1 = Len(L) /\ Len(L) \in DOMAIN L BY <1>9
  <2> QED BY <1>2, <1>4, <1>9, <2>2, <2>3
<1>19. Items' = Append(Items, value[n])
  <2>1. Items = Values(L, value) /\ Items' = Values(M, value) BY <1>1, <1>8, <1>12, ItemsOf, ItemsNext
  <2>2. Values(M, value) = Append(Values(L, value), value[n])
    <3>1. Values(L, value) \in Seq({value[y] : y \in Nodes}) /\ Len(Values(L, value)) = Len(L) - 1
      BY <1>1, <1>9, ChainFacts DEF Values
    <3>2. Len(M) - 1 = Len(L) /\ M[Len(L) + 1] = n BY <1>9
    <3>3. \A i \in 1 .. Len(L) - 1 : M[i + 1] = L[i + 1] BY <1>9
    <3> QED BY <1>9, <3>1, <3>2, <3>3 DEF Values
  <2> QED BY <2>1, <2>2
<1> QED BY <1>2, <1>5, <1>11, <1>12, <1>13, <1>14, <1>16, <1>17, <1>18, <1>19 DEF QueueInv

----------------------------------------
(* The CAS on head_ succeeds: the dummy is given back, the next node is
   the dummy. *)
LEMMA AdvanceStep ==
  ASSUME NEW L, QueueInv(L), NEW t \in Threads, Advance(t), head = myHead[t]
  PROVE  QueueInv(Tail(L))' /\ Items # <<>> /\ Items' = Tail(Items)
<1>1. TypeOK /\ Chain(L) /\ Followed /\ Distinct /\ Lag(L)
      /\ \A u \in Threads : Owner(L, u) /\ Enqueuer(L, u) /\ Dequeuer(L, u) /\ Pair(L, u)
  BY DEF QueueInv, Thread
<1>2. PICK n, M : n = myNext[t].node /\ M = Tail(L) OBVIOUS
<1>3. /\ pc[t] = "advance" /\ n \in Nodes /\ next[L[1]].node = n
      /\ head.node = L[1] /\ tail.node # L[1] /\ L[1] \in Nodes /\ On(L, L[1])
  <2>1. pc[t] = "advance" /\ head.node = L[1] /\ L[1] \in Nodes /\ On(L, L[1])
    BY <1>1, ChainFacts DEF Advance, Chain, On
  <2> QED BY <1>1, <1>2, <2>1 DEF Dequeuer, HasNext, HasBoth
<1>4. Len(L) >= 2 /\ n = L[2]
  <2>1. next[L[1]].node = IF 1 < Len(L) THEN L[2] ELSE Null BY <1>1, ChainFacts DEF Chain
  <2> QED BY <1>1, <1>3, <2>1, ChainFacts, QueueAssumption
<1>5. PICK p : p = Ptr(n, myHead[t].tag + 1) OBVIOUS
<1>6. p \in Pointers /\ p.node = n
  <2>1. myHead[t].tag + 1 \in Nat BY <1>1, LocalTypes
  <2> QED BY <1>3, <1>5, <2>1, PtrFacts
<1>7. /\ pc'[t] = "idle" /\ head' = p /\ memory'[L[1]] = "reclaimed"
      /\ \A y \in Nodes : y # L[1] => memory'[y] = memory[y]
      /\ UNCHANGED <<setup, tail, next, value, enqueued, myNode>>
      /\ \A u \in Threads \ {t} : /\ pc'[u] = pc[u] /\ myHead'[u] = myHead[u]
                                  /\ myTail'[u] = myTail[u] /\ myNext'[u] = myNext[u]
      /\ \A u \in Threads : sawEmpty'[u] = (sawEmpty[u] \/ ItemsBehind(n) = <<>>)
  BY <1>1, <1>2, <1>3, <1>5 DEF Advance, Reclaimed, Return, Goto, TypeOK
<1>8. /\ M \in Seq(Nodes) /\ Len(M) = Len(L) - 1 /\ DOMAIN M = 1 .. Len(M) /\ M # <<>>
      /\ \A i \in DOMAIN M : i + 1 \in DOMAIN L /\ M[i] = L[i + 1]
      /\ \A i \in DOMAIN L : i = 1 \/ (i - 1 \in DOMAIN M /\ M[i - 1] = L[i])
      /\ Len(L) \in Nat /\ DOMAIN L = 1 .. Len(L) /\ L[Len(L)] = M[Len(M)]
  BY <1>1, <1>2, <1>4, ChainFacts, TailFacts
<1>9. \A y : On(M, y) <=> On(L, y) /\ y # L[1]
  <2> TAKE y
  <2>1. ASSUME On(M, y) PROVE On(L, y) /\ y # L[1]
    <3>1. PICK i \in DOMAIN M : y = M[i] BY <2>1 DEF On
    <3>2. i + 1 \in DOMAIN L /\ y = L[i + 1] /\ 1 \in DOMAIN L /\ i + 1 # 1 BY <1>4, <1>8, <3>1
    <3> QED BY <1>1, <3>2 DEF On, Chain
  <2>2. ASSUME On(L, y), y # L[1] PROVE On(M, y) BY <1>8, <2>2 DEF On
  <2> QED BY <2>1, <2>2
<1>10. \A y : /\ Left(y)' <=> Left(y) \/ y = L[1]
              /\ On(L, y) \/ Left(y) => y \in Nodes /\ (On(M, y) \/ Left(y)')
  BY <1>1, <1>3, <1>7, <1>9, ChainFacts DEF Left
<1>11. Linked(M, next) /\ M[1] = n
  <2>1. \A i, j \in DOMAIN M : M[i] = M[j] => i = j
    <3>1. \A i, j \in DOMAIN L : L[i] = L[j] => i = j BY <1>1 DEF Chain
    <3> TAKE i, j \in DOMAIN M
    <3>2. /\ i + 1 \in DOMAIN L /\ j + 1 \in DOMAIN L
          /\ M[i] = L[i + 1] /\ M[j] = L[j + 1]
      BY <1>8
    <3>3. i + 1 = j + 1 => i = j BY <1>8
    <3> QED BY <3>1, <3>2, <3>3
  <2>2. ASSUME NEW i \in DOMAIN M
        PROVE  next[M[i]].node = IF i < Len(M) THEN M[i + 1] ELSE Null
    <3>1. i + 1 \in DOMAIN L /\ i \in Nat /\ M[i] = L[i + 1] BY <1>8
    <3>2. next[L[i + 1]].node = IF i + 1 < Len(L) THEN L[(i + 1) + 1] ELSE Null BY <1>1, <3>1 DEF Chain
    <3>3. i < Len(M) => i + 1 \in DOMAIN M /\ M[i + 1] = L[(i + 1) + 1] BY <1>8, <3>1
    <3> QED BY <1>8, <3>1, <3>2, <3>3
  <2> QED BY <1>4, <1>8, <2>1, <2>2 DEF Linked
<1>12. TypeOK'
  <2>1. value[n] \in 0 .. MaxElements BY <1>1, <1>3 DEF TypeOK
  <2>2. /\ result' = [result EXCEPT ![t] = value[n]] /\ myHead' = [myHead EXCEPT ![t] = NullPtr]
        /\ myTail' = [myTail EXCEPT ![t] = NullPtr] /\ myNext' = [myNext EXCEPT ![t] = NullPtr]
        /\ pc' = [pc EXCEPT ![t] = "idle"]
        /\ memory' = [memory EXCEPT ![L[1]] = "reclaimed"]
        /\ sawEmpty' = [u \in Threads |-> sawEmpty[u] \/ ItemsBehind(n) = <<>>]
    BY <1>2, <1>3 DEF Advance, Reclaimed, Value, Return, Goto
  <2> QED BY <1>1, <1>3, <1>6, <1>7, <2>1, <2>2, PtrFacts DEF TypeOK, Labels
<1>13. Chain(M)'
  <2>1. ASSUME NEW i \in DOMAIN M
        PROVE  memory'[M[i]] = "allocated" /\ next'[M[i]].node = IF i < Len(M) THEN M[i + 1] ELSE Null
    <3>0. On(M, M[i]) BY DEF On
    <3>1. M[i] \in Nodes /\ M[i] # L[1] /\ On(L, M[i]) BY <1>1, <1>9, <3>0, ChainFacts
    <3>2. memory[M[i]] = "allocated" BY <1>1, <3>1, ChainFacts
    <3>3. next[M[i]].node = IF i < Len(M) THEN M[i + 1] ELSE Null BY <1>11 DEF Linked
    <3> QED BY <1>7, <3>1, <3>2, <3>3
  <2>2. On(M, tail.node) BY <1>1, <1>3, <1>9, ChainFacts
  <2> QED BY <1>6, <1>7, <1>8, <1>11, <2>1, <2>2 DEF Chain, Linked, On
<1>14. Followed' BY <1>1, <1>3, <1>7, <1>10 DEF Followed
<1>15. Distinct' BY <1>1, <1>7 DEF Distinct, Unlinked
<1>16. Len(M) = 1 => ItemsBehind(n) = <<>>
  <2>1. ItemsBehind(n) = Behind(M[1], next, value) BY <1>11 DEF ItemsBehind, Behind
  <2>2. ItemsBehind(n) = Values(M, value) BY <1>11, <2>1, BehindChain
  <2>3. ASSUME Len(M) = 1 PROVE 1 .. Len(M) - 1 = {} BY <2>3
  <2> QED BY <2>2, <2>3 DEF Values
<1>17. ASSUME NEW u \in Threads, u # t PROVE Thread(M, u)'
  <2>1. Owner(L, u) /\ Enqueuer(L, u) /\ Dequeuer(L, u) /\ Pair(L, u) BY <1>1
  <2>2. Owner(M, u)'
    <3>1. SUFFICES ASSUME pc[u] \in Unlinked
                   PROVE  /\ myNode[u] \in Nodes /\ memory'[myNode[u]] = "allocated"
                          /\ ~On(M, myNode[u])
                          /\ next[myNode[u]].node = Null /\ value[myNode[u]] \in Elements
      BY <1>7, <1>17 DEF Owner, On
    <3> QED BY <1>3, <1>7, <1>9, <2>1, <3>1 DEF Owner
  <2>3. Enqueuer(M, u)'
    <3>1. PICK y : y = myTail[u].node OBVIOUS
    <3>2. pc[u] \in HasTail => On(M, y) \/ Left(y)' BY <1>10, <2>1, <3>1 DEF Enqueuer
    <3> QED BY <1>7, <1>17, <2>1, <3>1, <3>2 DEF Enqueuer, On, Left, HasTail
  <2>4. Dequeuer(M, u)'
    <3>1. PICK y : y = myHead[u].node OBVIOUS
    <3>2. pc[u] \in HasHead => Left(y)' /\ y # n
      <4>1. n # L[1] /\ On(L, n) BY <1>1, <1>4, <1>8 DEF Chain, On
      <4>2. ~Left(n) BY <1>1, <4>1, ChainFacts
      <4> QED BY <1>3, <1>10, <2>1, <3>1, <4>1, <4>2 DEF Dequeuer
    <3>3. sawEmpty'[u] = (sawEmpty[u] \/ ItemsBehind(n) = <<>>) BY <1>7
    <3>4. pc[u] \in Dequeues /\ Len(M) = 1 => sawEmpty'[u] BY <1>16, <3>3
    <3>5. sawEmpty[u] => sawEmpty'[u] BY <3>3
    <3> QED BY <1>6, <1>7, <1>17, <2>1, <3>1, <3>2, <3>4, <3>5 DEF Dequeuer, Left, HasHead, HasBoth
  <2>5. Pair(M, u)'
    <3>1. ASSUME Paired PROVE pc[u] \notin HasHead
      <4>1. SUFFICES ASSUME pc[u] \in HasHead PROVE FALSE OBVIOUS
      <4>2. u \in Consumers \cup setup.observers /\ t \in Consumers \cup setup.observers
        BY <1>1, <1>3, <4>1 DEF Dequeuer, Dequeues, HasHead, HasBoth, HasNext
      <4> QED BY <1>1, <1>17, <3>1, <4>2, OnlyOne
    <3>2. L[Len(L)] = M[Len(M)] BY <1>8
    <3> QED BY <1>7, <1>17, <2>1, <3>1, <3>2 DEF Pair, Paired, HasHead, HasBoth
  <2> QED BY <2>2, <2>3, <2>4, <2>5 DEF Thread
<1>18. Thread(M, t)'
  BY <1>7 DEF Thread, Owner, Enqueuer, Dequeuer, Pair, Unlinked, Enqueues, Dequeues, HasHead,
              HasBoth, HasNext, HasTail
<1>19. Lag(M)'
  <2>1. L[Len(L)] = M[Len(M)] BY <1>8
  <2>2. ASSUME NEW v \in Threads, pc[v] = "swing", tail = myTail[v], tail.node = L[Len(L) - 1]
        PROVE  pc'[v] = "swing" /\ tail = myTail'[v] /\ Len(M) > 1 /\ tail.node = M[Len(M) - 1]
    <3>1. v # t BY <1>3, <2>2
    <3>2. Len(L) - 1 # 1 BY <1>3, <2>2
    <3>3. Len(L) - 1 \in DOMAIN L BY <1>4, <1>8
    <3>4. (Len(L) - 1) - 1 \in DOMAIN M /\ M[(Len(L) - 1) - 1] = L[Len(L) - 1] BY <1>8, <3>2, <3>3
    <3>5. (Len(L) - 1) - 1 = Len(M) - 1 /\ Len(M) > 1 BY <1>4, <1>8, <3>2
    <3> QED BY <1>7, <2>2, <3>1, <3>4, <3>5
  <2> QED
    <3>1. SUFFICES ASSUME Paired, tail.node # M[Len(M)]
                   PROVE  \E v \in Threads : /\ pc'[v] = "swing" /\ tail = myTail'[v]
                                             /\ Len(M) > 1 /\ tail.node = M[Len(M) - 1]
      BY <1>7 DEF Lag, Paired
    <3>2. PICK v \in Threads : /\ pc[v] = "swing" /\ tail = myTail[v]
                               /\ tail.node = L[Len(L) - 1]
      BY <1>1, <2>1, <3>1 DEF Lag
    <3> QED BY <2>2, <3>2
<1>20. Items # <<>> /\ Items' = Tail(Items)
  <2>1. Items = Values(L, value) /\ Items' = Values(M, value) BY <1>1, <1>7, <1>13, ItemsOf, ItemsNext
  <2>2. Values(L, value) # <<>> /\ Values(M, value) = Tail(Values(L, value))
    <3>1. PICK S, V : S = {value[y] : y \in Nodes} /\ V = Values(L, value) OBVIOUS
    <3>2. V \in Seq(S) /\ Len(V) = Len(L) - 1 BY <1>1, <1>8, <3>1, ChainFacts DEF Values
    <3>3. V # <<>> /\ Len(V) - 1 = Len(M) - 1 /\ Len(V) \in Nat BY <1>4, <1>8, <3>2
    <3>4. /\ Tail(V) \in [1 .. Len(M) - 1 -> S]
          /\ \A i \in 1 .. Len(M) - 1 : Tail(V)[i] = V[i + 1]
      BY <3>2, <3>3, HeadTailProperties, LenProperties
    <3>5. ASSUME NEW i \in 1 .. Len(M) - 1 PROVE value[M[i + 1]] = V[i + 1]
      <4>1. i + 1 \in DOMAIN M /\ i + 1 \in 1 .. Len(L) - 1 BY <1>8
      <4>2. V[i + 1] = value[L[(i + 1) + 1]] BY <3>1, <4>1 DEF Values
      <4> QED BY <1>8, <4>1, <4>2
    <3>6. Values(M, value) = [i \in 1 .. Len(M) - 1 |-> V[i + 1]] BY <3>5 DEF Values
    <3> QED BY <3>1, <3>3, <3>4, <3>6
  <2> QED BY <2>1, <2>2
<1> QED BY <1>2, <1>12, <1>13, <1>14, <1>15, <1>17, <1>18, <1>19, <1>20 DEF QueueInv

----------------------------------------
(* allocNode(): the node is not in the queue, and nobody is about to use
   what it was before. *)
LEMMA AllocNodeStep ==
  ASSUME ReuseIsByPair, NEW L, QueueInv(L), NEW t \in Threads, AllocNode(t)
  PROVE  QueueInv(L)' /\ Items' = Items
<1>1. TypeOK /\ Chain(L) /\ Followed /\ Distinct /\ Lag(L)
      /\ \A u \in Threads : Owner(L, u) /\ Enqueuer(L, u) /\ Dequeuer(L, u) /\ Pair(L, u)
  BY DEF QueueInv, Thread
<1>2. PICK n \in Allocatable :
         /\ memory' = [memory EXCEPT ![n] = "allocated"]
         /\ value' = [value EXCEPT ![n] = enqueued + 1]
         /\ next' = [next EXCEPT ![n] = NullPtr]
         /\ myNode' = [myNode EXCEPT ![t] = n]
  BY DEF AllocNode
<1>3. n \in Nodes /\ (memory[n] = "fresh" \/ (setup.recycle /\ memory[n] = "reclaimed"))
  BY <1>2 DEF Allocatable
<1>4. setup.recycle => Paired BY <1>1, LocalTypes DEF ReuseIsByPair, Paired
<1>5. enqueued + 1 \in Elements /\ enqueued + 1 \in 0 .. MaxElements
  <2>1. enqueued \in 0 .. MaxElements /\ enqueued < setup.elements
        /\ setup.elements \in 0 .. MaxElements
    BY <1>1, QueueAssumption DEF TypeOK, AllocNode
  <2> QED BY <2>1, QueueAssumption DEF Elements
<1>6. /\ pc[t] = "idle" /\ t \in setup.producers /\ pc'[t] = "loadTail" /\ myNode'[t] = n
      /\ memory'[n] = "allocated" /\ value'[n] = enqueued + 1 /\ next'[n] = NullPtr
      /\ \A y \in Nodes : y # n => /\ memory'[y] = memory[y] /\ value'[y] = value[y]
                                   /\ next'[y] = next[y]
      /\ UNCHANGED <<setup, head, tail, myHead, myTail, myNext, result, sawEmpty>>
      /\ \A u \in Threads \ {t} : pc'[u] = pc[u] /\ myNode'[u] = myNode[u]
  BY <1>1, <1>2, <1>3 DEF AllocNode, Goto, answers, TypeOK
<1>7. TypeOK' BY <1>1, <1>2, <1>3, <1>5, PtrFacts DEF AllocNode, Goto, answers, TypeOK, Labels
<1>8. \A y : On(L, y) => y \in Nodes /\ y # n BY <1>1, <1>3, ChainFacts
<1>9. Chain(L)'
  <2>1. \A i \in DOMAIN L : memory'[L[i]] = memory[L[i]] /\ next'[L[i]] = next[L[i]] BY <1>6, <1>8 DEF On
  <2> QED BY <1>1, <1>6, <2>1 DEF Chain, On
<1>10. \A y : /\ Left(y)' => Left(y)
              /\ Left(y) /\ ~Left(y)' => y = n /\ setup.recycle
              /\ On(L, y) \/ Left(y)' => y \in Nodes /\ next'[y] = next[y]
  BY <1>3, <1>6, <1>8 DEF Left
<1>11. Followed' BY <1>1, <1>10 DEF Followed
<1>12. Distinct'
  <2>1. \A u \in Threads : pc[u] \in Unlinked => myNode[u] # n BY <1>1, <1>3 DEF Owner
  <2> QED BY <1>1, <1>6, <2>1 DEF Distinct
<1>13. ASSUME NEW u \in Threads, u # t PROVE Thread(L, u)'
  <2>1. Owner(L, u) /\ Enqueuer(L, u) /\ Dequeuer(L, u) /\ Pair(L, u) BY <1>1
  <2>2. Owner(L, u)'
    <3>1. SUFFICES ASSUME pc[u] \in Unlinked
                   PROVE  /\ myNode[u] \in Nodes /\ memory'[myNode[u]] = "allocated"
                          /\ ~On(L, myNode[u])
                          /\ next'[myNode[u]].node = Null /\ value'[myNode[u]] \in Elements
      BY <1>6, <1>13 DEF Owner, On
    <3>2. myNode[u] # n BY <1>3, <2>1, <3>1 DEF Owner
    <3> QED BY <1>6, <2>1, <3>1, <3>2 DEF Owner
  <2>3. Enqueuer(L, u)'
    <3>1. PICK y : y = myTail[u].node OBVIOUS
    <3>2. pc[u] \in HasTail => On(L, y) \/ Left(y)'
      <4>1. SUFFICES ASSUME pc[u] \in HasTail, setup.recycle PROVE FALSE BY <1>10, <2>1, <3>1 DEF Enqueuer
      <4>2. u \in setup.producers BY <2>1, <4>1 DEF Enqueuer, HasTail, Enqueues, Unlinked
      <4> QED BY <1>1, <1>4, <1>6, <1>13, <4>1, <4>2, OnlyOne
    <3>3. pc[u] \in HasTail => next'[y] = next[y] BY <1>10, <3>2
    <3> QED BY <1>6, <1>13, <2>1, <3>1, <3>2, <3>3 DEF Enqueuer, On, Left, HasTail
  <2>4. Dequeuer(L, u)'
    <3>1. PICK y : y = myHead[u].node OBVIOUS
    <3>2. pc[u] \in HasHead => y = head.node \/ Left(y)'
      <4>1. SUFFICES ASSUME pc[u] \in HasHead, setup.recycle PROVE y = head.node
        BY <1>10, <2>1, <3>1 DEF Dequeuer
      <4> QED BY <1>4, <2>1, <3>1, <4>1 DEF Pair
    <3>3. pc[u] \in HasHead => next'[y] = next[y] BY <1>1, <1>10, <3>2, ChainFacts
    <3> QED BY <1>6, <1>13, <2>1, <3>1, <3>2, <3>3 DEF Dequeuer, Left, HasHead, HasBoth
  <2>5. Pair(L, u)' BY <1>6, <1>13, <2>1 DEF Pair, Paired, On
  <2> QED BY <2>2, <2>3, <2>4, <2>5 DEF Thread
<1>14. Thread(L, t)'
  <2>1. Owner(L, t)' BY <1>3, <1>5, <1>6, <1>8, PtrFacts DEF Owner, On
  <2>2. Enqueuer(L, t)' /\ Dequeuer(L, t)' /\ Pair(L, t)'
    BY <1>6 DEF Enqueuer, Dequeuer, Pair, Enqueues, Unlinked, Dequeues, HasHead, HasBoth,
                HasNext, HasTail
  <2> QED BY <2>1, <2>2 DEF Thread
<1>15. Lag(L)'
  <2>1. \A v \in Threads : pc[v] = "swing" => pc'[v] = "swing" BY <1>6
  <2> QED BY <1>1, <1>6, <2>1 DEF Lag, Paired
<1>16. Items' = Items
  <2>1. Items = Values(L, value) /\ Items' = Values(L, value') BY <1>1, <1>9, ItemsOf, ItemsNext
  <2>2. \A i \in 1 .. Len(L) - 1 : value'[L[i + 1]] = value[L[i + 1]]
    <3> TAKE i \in 1 .. Len(L) - 1
    <3>1. i + 1 \in DOMAIN L BY <1>1, ChainFacts
    <3> QED BY <1>6, <1>8, <3>1 DEF On
  <2> QED BY <2>1, <2>2 DEF Values
<1> QED BY <1>7, <1>9, <1>11, <1>12, <1>13, <1>14, <1>15, <1>16 DEF QueueInv

----------------------------------------
(* The constructor leaves the dummy, and no element. *)
LEMMA InitInv ==
  ASSUME Init
  PROVE  (\E L : QueueInv(L)) /\ Items = <<>>
<1>1. PICK d : d = CHOOSE n \in Nodes : TRUE OBVIOUS
<1>2. d \in Nodes BY <1>1, QueueAssumption
<1>3. PICK L : L = <<d>> OBVIOUS
<1>4. 0 \in Nat /\ Ptr(d, 0) \in Pointers /\ Ptr(d, 0).node = d BY <1>2, PtrFacts
<1>5. /\ head = Ptr(d, 0) /\ tail = Ptr(d, 0) /\ setup \in Setups
      /\ next = [n \in Nodes |-> NullPtr] /\ value = [n \in Nodes |-> 0]
      /\ memory = [n \in Nodes |-> IF n = d THEN "allocated" ELSE "fresh"]
      /\ pc = [t \in Threads |-> "idle"]
  BY <1>1 DEF Init
<1>6. TypeOK BY <1>4, <1>5, PtrFacts, QueueAssumption DEF Init, TypeOK, Labels
<1>7. /\ L \in Seq(Nodes) /\ L # <<>> /\ Len(L) = 1 /\ DOMAIN L = {1} /\ L[1] = d BY <1>2, <1>3
<1>8. Chain(L) BY <1>2, <1>4, <1>5, <1>7, PtrFacts DEF Chain, On
<1>9. Followed BY <1>5 DEF Followed, Left
<1>10. \A t \in Threads : pc[t] = "idle" BY <1>5
<1>11. Distinct /\ \A t \in Threads : Thread(L, t)
  BY <1>10 DEF Distinct, Thread, Owner, Enqueuer, Dequeuer, Pair, Unlinked, Enqueues, Dequeues,
               HasHead, HasBoth, HasNext, HasTail
<1>12. Lag(L) BY <1>4, <1>5, <1>7 DEF Lag
<1>13. Items = <<>> BY <1>7, <1>8, ItemsOf DEF Values
<1> QED BY <1>6, <1>8, <1>9, <1>11, <1>12, <1>13 DEF QueueInv

(* What a step does to the elements of the queue. *)
Move == \/ Items' = Items
        \/ \E e \in Elements : Items' = Append(Items, e)
        \/ Items # <<>> /\ Items' = Tail(Items)

LEMMA ItemsKept ==
  ASSUME NEW L, QueueInv(L), QueueInv(L)', UNCHANGED value
  PROVE  Items' = Items
BY ItemsOf, ItemsNext DEF QueueInv

(* Every step keeps the invariant, and moves the elements as a FIFO does. *)
LEMMA StepInv ==
  ASSUME ReuseIsByPair, NEW L, QueueInv(L), [Next]_vars
  PROVE  (\E M : QueueInv(M)') /\ Move
<1>1. ASSUME UNCHANGED vars PROVE QueueInv(L)' /\ UNCHANGED value
  <2>1. UNCHANGED <<setup, head, tail, next, value, memory, enqueued, pc, myNode, myHead, myTail,
                    myNext, result, sawEmpty>>
    BY <1>1 DEF vars, shared, locals, answers
  <2>2. TypeOK' /\ Chain(L)' /\ Followed' /\ Distinct' /\ Lag(L)'
    BY <2>1 DEF QueueInv, TypeOK, Chain, Followed, Distinct, Lag, Paired, On, Left
  <2>3. ASSUME NEW t \in Threads PROVE Thread(L, t)'
    <3>1. Thread(L, t) BY DEF QueueInv
    <3>2. Owner(L, t)' /\ Enqueuer(L, t)' BY <2>1, <3>1 DEF Thread, Owner, Enqueuer, On, Left
    <3>3. Dequeuer(L, t)' BY <2>1, <3>1 DEF Thread, Dequeuer, Left
    <3>4. Pair(L, t)' BY <2>1, <3>1 DEF Thread, Pair, Paired, On
    <3> QED BY <3>2, <3>3, <3>4 DEF Thread
  <2> QED BY <2>1, <2>2, <2>3 DEF QueueInv
<1>2. ASSUME NEW t \in Threads, EnqueueStep(t) PROVE (\E M : QueueInv(M)') /\ Move
  <2>1. CASE Link(t) /\ next[myTail[t].node] = myNext[t]
    <3>1. PICK n : n = myNode[t] OBVIOUS
    <3> QED BY <2>1, <3>1, LinkStep DEF Move
  <2>2. CASE \/ LoadTail(t) \/ LoadTailNext(t) \/ Swing(t) \/ HelpTail(t)
             \/ Link(t) /\ next[myTail[t].node] # myNext[t]
    <3>1. QueueInv(L)' BY <2>2, LoadTailStep, LoadTailNextStep, SwingStep, HelpTailStep, LinkFailsStep
    <3>2. UNCHANGED value BY <2>2 DEF LoadTail, LoadTailNext, Swing, HelpTail, Link, shared
    <3> QED BY <3>1, <3>2, ItemsKept DEF Move
  <2> QED BY <1>2, <2>1, <2>2 DEF EnqueueStep
<1>3. ASSUME NEW t \in Threads, DequeueStep(t) PROVE (\E M : QueueInv(M)') /\ Move
  <2>1. CASE Advance(t) /\ head = myHead[t] BY <2>1, AdvanceStep DEF Move
  <2>2. CASE \/ LoadHead(t) \/ LoadTail2(t) \/ LoadHeadNext(t) \/ Decide(t) \/ HelpDequeue(t)
             \/ Advance(t) /\ head # myHead[t]
    <3>1. QueueInv(L)'
      BY <2>2, LoadHeadStep, LoadTail2Step, LoadHeadNextStep, DecideStep, HelpDequeueStep,
         AdvanceFailsStep
    <3>2. UNCHANGED value
      BY <2>2 DEF LoadHead, LoadTail2, LoadHeadNext, Decide, HelpDequeue, Advance, shared
    <3> QED BY <3>1, <3>2, ItemsKept DEF Move
  <2>3. CASE ObserveEmpty(t) \/ DequeueNothing(t)
    <3>1. PICK a \in {0, 1} : Return(t, a) BY <2>3 DEF ObserveEmpty, DequeueNothing
    <3>2. pc[t] = "decide" /\ UNCHANGED <<setup, shared, sawEmpty>> /\ UNCHANGED value
      BY <2>3 DEF ObserveEmpty, DequeueNothing, shared
    <3>3. QueueInv(L)' BY <3>1, <3>2, ReturnStep
    <3> QED BY <3>2, <3>3, ItemsKept DEF Move
  <2> QED BY <1>3, <2>1, <2>2, <2>3 DEF DequeueStep
<1>4. ASSUME NEW t \in Threads, AllocNode(t) \/ Call(t) PROVE (\E M : QueueInv(M)') /\ Move
  <2>1. CASE AllocNode(t) BY <2>1, AllocNodeStep DEF Move
  <2>2. CASE Call(t)
    <3>1. QueueInv(L)' /\ UNCHANGED value BY <2>2, CallStep DEF Call, shared
    <3> QED BY <3>1, ItemsKept DEF Move
  <2> QED BY <1>4, <2>1, <2>2
<1>5. CASE UNCHANGED vars BY <1>1, <1>5, ItemsKept DEF Move
<1>6. CASE Next BY <1>2, <1>3, <1>4, <1>6 DEF Next
<1> QED BY <1>5, <1>6

(* The nodes in the queue exist in every state. *)
Inv == \E L : QueueInv(L)

LEMMA Invariance ==
  ASSUME ReuseIsByPair
  PROVE  Spec => []Inv
<1>1. Init => Inv BY InitInv DEF Inv
<1>2. Inv /\ [Next]_vars => Inv' BY StepInv DEF Inv
<1> QED BY <1>1, <1>2, PTL DEF Spec

----------------------------------------
(* Every variable of the queue keeps its type. *)
THEOREM TypeCorrectness ==
  ASSUME ReuseIsByPair
  PROVE  Spec => []TypeOK
<1>1. Inv => TypeOK BY DEF Inv, QueueInv
<1> QED BY <1>1, Invariance, PTL

(* The queue is a FIFO: whatever the threads interleave, an element joins
   at the end when the CAS on next_ succeeds, and the first one leaves
   when the CAS on head_ does. *)
THEOREM OrdersFirstInFirstOut ==
  ASSUME ReuseIsByPair
  PROVE  Spec => ImplementsFifo
<1>1. Init => Fifo!Init BY InitInv DEF Fifo!Init
<1>2. Inv /\ [Next]_vars => [Fifo!Next]_Items
  <2>1. Inv /\ [Next]_vars => Move BY StepInv DEF Inv
  <2> QED BY <2>1 DEF Move, Fifo!Next, Fifo!Enqueue, Fifo!Dequeue
<1>3. Spec => []Inv BY Invariance
<1> QED BY <1>1, <1>2, <1>3, PTL DEF Spec, ImplementsFifo, Fifo!Spec

(* A step leaves the other threads where they are. *)
LEMMA OthersStay ==
  ASSUME TypeOK, NEW u \in Threads, AllocNode(u) \/ EnqueueStep(u) \/ Call(u) \/ DequeueStep(u),
         NEW t \in Threads, t # u
  PROVE  pc'[t] = pc[t]
<1>1. \E l : Goto(u, l)
  BY DEF AllocNode, EnqueueStep, Call, DequeueStep, LoadTail, LoadTailNext, Link, Swing, HelpTail,
         LoadHead, LoadTail2, LoadHeadNext, ObserveEmpty, DequeueNothing, Decide, HelpDequeue,
         Advance, Return
<1> QED BY <1>1 DEF Goto, TypeOK

(* dequeue() that finds nothing, and empty() that says so: the queue held
   no element at some instant of the call. *)
THEOREM EmptinessIsTrue ==
  ASSUME ReuseIsByPair
  PROVE  Spec => EmptyIsTrue
<1> DEFINE Truth == \A t \in Consumers \cup Observers :
                       pc[t] = "decide" /\ pc'[t] = "idle" /\ result'[t] = 0 => sawEmpty[t]
<1>1. ASSUME Inv, [Next]_vars PROVE [Truth]_vars
  <2>1. SUFFICES ASSUME Next, NEW t \in Consumers \cup Observers,
                        pc[t] = "decide", pc'[t] = "idle", result'[t] = 0
                 PROVE  sawEmpty[t]
    BY <1>1
  <2>2. PICK L : QueueInv(L) BY <1>1 DEF Inv
  <2>3. TypeOK /\ t \in Threads /\ Dequeuer(L, t) BY <2>2 DEF QueueInv, Thread, Threads
  <2>4. AllocNode(t) \/ EnqueueStep(t) \/ Call(t) \/ DequeueStep(t) BY <2>1, <2>3, OthersStay DEF Next
  <2>5. ObserveEmpty(t) \/ DequeueNothing(t) \/ Decide(t)
    BY <2>1, <2>4 DEF AllocNode, EnqueueStep, Call, DequeueStep, LoadTail, LoadTailNext, Link,
                      Swing, HelpTail, LoadHead, LoadTail2, LoadHeadNext, HelpDequeue, Advance
  <2>6. ~Decide(t) BY <2>1, <2>3 DEF Decide, Goto, TypeOK
  <2>7. LooksEmpty(t)
    <3>1. CASE ObserveEmpty(t) BY <2>1, <2>3, <3>1 DEF ObserveEmpty, Return, TypeOK
    <3>2. CASE DequeueNothing(t) BY <3>2 DEF DequeueNothing
    <3> QED BY <2>5, <2>6, <3>1, <3>2
  <2> QED BY <2>1, <2>3, <2>7 DEF LooksEmpty, Dequeuer, HasNext
<1>2. Spec => []Inv BY Invariance
<1> QED BY <1>1, <1>2, PTL DEF Spec, EmptyIsTrue

(* One producer beside the worker: neither of them reads or writes a node
   that was given back, although allocNode() may hand it out again. *)
THEOREM PairStaysSafe ==
  ASSUME ReuseIsByPair, Cardinality(Consumers) = 1
  PROVE  Spec => []PairIsSafe
<1>1. ASSUME Inv PROVE PairIsSafe
  <2>1. SUFFICES ASSUME Alone(setup), NEW t \in Threads, NEW n \in Follows(t)
                 PROVE  n # Null /\ memory[n] = "allocated"
    BY DEF PairIsSafe, NoReclaimedAccess
  <2>2. PICK L : QueueInv(L) BY <1>1 DEF Inv
  <2>3. Paired /\ Chain(L) /\ Dequeuer(L, t) /\ Pair(L, t) BY <2>1, <2>2 DEF QueueInv, Thread, Paired
  <2>4. On(L, n)
    <3>1. CASE pc[t] \in {"loadTailNext", "link"} BY <2>1, <2>3, <3>1, ChainFacts DEF Follows, Pair
    <3>2. CASE pc[t] = "loadHeadNext" BY <2>1, <2>3, <3>2, ChainFacts DEF Follows, Pair, HasHead, HasBoth
    <3>3. CASE pc[t] = "advance" BY <2>1, <2>3, <3>3 DEF Follows, Pair, Dequeuer, HasNext
    <3> QED BY <2>1, <3>1, <3>2, <3>3 DEF Follows
  <2> QED BY <2>3, <2>4, ChainFacts, QueueAssumption
<1>2. Spec => []Inv BY Invariance
<1> QED BY <1>1, <1>2, PTL
=============================================================================
