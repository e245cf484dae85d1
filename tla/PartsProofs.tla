----------------------------- MODULE PartsProofs -----------------------------
(* Proofs about three of the small parts, each first as a system of its
   own, for any value of its constants, and at the end as what Parts
   composes: the callbacks of an event, the pool the commands are
   allocated from and the memory pool of a HIP device. *)
EXTENDS Parts, FiniteSetTheorems, SequenceTheorems, WellFoundedInduction, TLAPS

(* Proofs about the callbacks of an event, for any number of threads that
   set its status or register a callback, and any histories that satisfy
   HistoriesAreSane: each callback runs once, not before its status, in
   HIP before the command is complete, and none is lost. *)

(* Entry e is in a list. *)
Within(e, list) == \E i \in DOMAIN list : list[i] = e

(* Where a thread is agrees with what it has to do. *)
Place ==
  /\ \A t \in Setters :
        /\ pc[t] \in {"start", "cas", "head", "visit", "call", "done"}
        /\ pc[t] \in {"cas", "head", "visit", "call"} => todo[t] # <<>>
        /\ pc[t] = "cas" \/ (setup.hip /\ pc[t] \in {"head", "visit", "call"}) =>
              Head(todo[t]) < current[t] /\ Callbacks!Complete < current[t]
  /\ \A e \in Registrars :
        /\ pc[e] \in {"start", "test", "visit", "call", "done"}
        /\ pc[e] \in {"visit", "call"} => walk[e] = <<e>>
        /\ pc[e] # "start" => Within(e, callbacks)
  /\ \A t \in Callbacks!Threads : pc[t] = "call" => walk[t] # <<>>

(* Thread t has taken entry e out of the event and has yet to call it. *)
Calling(t, e) == pc[t] = "call" /\ Head(walk[t]) = e

(* An entry is in the event, in the hands of one thread, or called. *)
Once ==
  \A e \in Registrars :
     /\ Len(called[e]) <= 1
     /\ callback[e] => called[e] = <<>>
     /\ \A t \in Callbacks!Threads : Calling(t, e) => ~callback[e] /\ called[e] = <<>>
     /\ \A t, u \in Callbacks!Threads : Calling(t, e) /\ Calling(u, e) => t = u
     /\ ~callback[e] /\ called[e] = <<>> => \E t \in Callbacks!Threads : Calling(t, e)

(* In OpenCL whoever walks the list has seen, or set, the status that its
   entries wait for, and the status never rises. *)
Reached ==
  ~setup.hip =>
     /\ \A t \in Setters :
           /\ pc[t] \in {"head", "visit", "call"} => status <= Head(todo[t])
           /\ \A e \in Registrars : Calling(t, e) => setup.at[e] = Callbacks!Mask(Head(todo[t]))
     /\ \A e \in Registrars : pc[e] \in {"visit", "call"} => status <= setup.at[e]
     /\ Callbacks!NeverEarly

(* Setter t runs the entries of status m and will come to entry e. *)
Coming(t, e) ==
  /\ \/ pc[t] = "head"
     \/ pc[t] \in {"visit", "call"} /\ Within(e, walk[t])
  /\ Callbacks!Mask(Head(todo[t])) = setup.at[e]

(* In OpenCL an entry whose status the event was moved to will be found by
   its own registrar or by the walk of the setter that moved it. *)
Found ==
  /\ \A m \in passed : status <= m
  /\ ~setup.hip => \A e \in Registrars :
        setup.at[e] \in passed /\ callback[e] =>
           \/ pc[e] \in {"start", "test", "visit"}
           \/ \E t \in Setters : Coming(t, e)

(* In HIP one thread sets the status, after the registrations, and leaves
   the walk for the final swap with every entry called. *)
Alone ==
  setup.hip =>
     /\ \A t, u \in Setters : todo[t] # <<>> /\ todo[u] # <<>> => t = u
     /\ \A e \in Registrars : pc[e] \in {"start", "test", "done"}
     /\ (\E e \in Registrars : pc[e] # "done") =>
           Callbacks!Complete < status /\ \A t \in Setters : pc[t] \in {"start", "done"}
     /\ \A t \in Setters, e \in Registrars :
           pc[t] \in {"visit", "call", "cas"} /\ Callbacks!Mask(Head(todo[t])) = Callbacks!Complete =>
              called[e] # <<>> \/ (pc[t] # "cas" /\ Within(e, walk[t]))
     /\ Callbacks!ReturnedBeforeComplete

EventInv == Callbacks!TypeOK /\ Place /\ Once /\ Reached /\ Found /\ Alone

----------------------------------------
(* What lists hold when an entry is pushed or the first one is taken off. *)
LEMMA Lists ==
  ASSUME NEW S, NEW list \in Seq(S)
  PROVE  /\ \A e \in S : <<e>> \o list \in Seq(S) /\ Within(e, <<e>> \o list)
         /\ \A e, d \in S : Within(d, list) => Within(d, <<e>> \o list)
         /\ list # <<>> => /\ Head(list) \in S /\ Tail(list) \in Seq(S)
                           /\ Within(Head(list), list)
                           /\ \A e \in S : Within(e, list) /\ e # Head(list)
                                              => Within(e, Tail(list))
         /\ \A e \in S : ~Within(e, <<>>) /\ <<e>> # <<>> /\ Head(<<e>>) = e
                         /\ Tail(<<e>>) = <<>>
<1>1. \A e \in S : <<e>> \o list \in Seq(S) /\ Within(e, <<e>> \o list)
  <2> TAKE e \in S
  <2>1. <<e>> \o list \in Seq(S) OBVIOUS
  <2>2. 1 \in DOMAIN (<<e>> \o list) /\ (<<e>> \o list)[1] = e OBVIOUS
  <2> QED BY <2>1, <2>2 DEF Within
<1>2. \A e, d \in S : Within(d, list) => Within(d, <<e>> \o list)
  <2> SUFFICES ASSUME NEW e \in S, NEW d \in S, NEW i \in DOMAIN list, list[i] = d
               PROVE  Within(d, <<e>> \o list)
    BY DEF Within
  <2>1. i + 1 \in DOMAIN (<<e>> \o list) /\ (<<e>> \o list)[i + 1] = d OBVIOUS
  <2> QED BY <2>1 DEF Within
<1>3. ASSUME list # <<>>
      PROVE  /\ Head(list) \in S /\ Tail(list) \in Seq(S)
             /\ Within(Head(list), list)
             /\ \A e \in S : Within(e, list) /\ e # Head(list) => Within(e, Tail(list))
  <2>1. Head(list) \in S /\ Tail(list) \in Seq(S) BY <1>3
  <2>2. 1 \in DOMAIN list /\ list[1] = Head(list) BY <1>3
  <2>3. ASSUME NEW e \in S, NEW i \in DOMAIN list, list[i] = e, e # Head(list)
        PROVE  Within(e, Tail(list))
    <3>1. i - 1 \in DOMAIN Tail(list) /\ Tail(list)[i - 1] = e BY <1>3, <2>2, <2>3
    <3> QED BY <3>1 DEF Within
  <2> QED BY <2>1, <2>2, <2>3 DEF Within
<1>4. \A e \in S : ~Within(e, <<>>) /\ <<e>> # <<>> /\ Head(<<e>>) = e /\ Tail(<<e>>) = <<>> BY DEF Within
<1> QED BY <1>1, <1>2, <1>3, <1>4

----------------------------------------
(* A thread that sets and one that registers are different threads. *)
LEMMA Roles ==
  ASSUME Callbacks!HistoriesAreSane, Callbacks!TypeOK
  PROVE  /\ \A t \in Setters : t \notin Registrars /\ t \in Callbacks!Threads
         /\ \A e \in Registrars : e \notin Setters /\ e \in Callbacks!Threads
         /\ setup.at \in [Registrars -> Callbacks!Complete .. Callbacks!Initial]
         /\ setup.hip \in BOOLEAN
         /\ \A t \in Callbacks!Threads : t \in Setters \/ t \in Registrars
BY DEF Callbacks!HistoriesAreSane, Callbacks!TypeOK, Callbacks!Threads

(* What the return of a setStatus() leaves. *)
LEMMA Returns ==
  ASSUME Callbacks!TypeOK, NEW t \in Setters, todo[t] # <<>>, Callbacks!Return(t)
  PROVE  /\ todo' \in [Setters -> Seq(Callbacks!Statuses)]
         /\ todo' = [todo EXCEPT ![t] = Tail(@)]
         /\ \/ pc' = [pc EXCEPT ![t] = "done"] /\ todo'[t] = <<>>
            \/ pc' = [pc EXCEPT ![t] = "start"] /\ todo'[t] # <<>>
         /\ pc'[t] \in {"start", "done"}
         /\ \A u \in Callbacks!Threads : u # t => pc'[u] = pc[u]
<1>1. todo[t] \in Seq(Callbacks!Statuses) /\ Tail(todo[t]) \in Seq(Callbacks!Statuses) /\ t \in Callbacks!Threads
      /\ Len(todo[t]) \in Nat /\ Len(todo[t]) # 0
  BY DEF Callbacks!TypeOK, Callbacks!Threads
<1>2. Len(Tail(todo[t])) = Len(todo[t]) - 1 BY <1>1
<1>3. Len(todo[t]) = 1 <=> Tail(todo[t]) = <<>>
  <2>1. \A list \in Seq(Callbacks!Statuses) : Len(list) = 0 <=> list = <<>> OBVIOUS
  <2>2. Len(Tail(todo[t])) = 0 <=> Tail(todo[t]) = <<>> BY <1>1, <2>1, Zenon
  <2>3. Len(todo[t]) = 1 <=> Len(Tail(todo[t])) = 0 BY <1>1, <1>2
  <2> QED BY <2>2, <2>3
<1> QED BY <1>1, <1>3 DEF Callbacks!TypeOK, Callbacks!Return, Callbacks!Goto

(* The variables keep their types. *)
LEMMA EventTypeStep == ASSUME Callbacks!HistoriesAreSane, Callbacks!TypeOK, Place,
    [Callbacks!Next]_(Callbacks!vars) PROVE Callbacks!TypeOK'
<1> USE Roles DEF Callbacks!TypeOK
<1>0. \A s \in Callbacks!Statuses : Callbacks!Mask(s) \in Callbacks!Statuses
  BY DEF Callbacks!Mask, Callbacks!Statuses, Callbacks!Complete, Callbacks!Initial
<1>1. ASSUME NEW t \in Setters, Callbacks!Load(t) PROVE Callbacks!TypeOK'
  BY <1>1, Returns DEF Callbacks!Load, Callbacks!Goto
<1>2. ASSUME NEW t \in Setters, Callbacks!CompareAndSwap(t) PROVE Callbacks!TypeOK'
  <2>1. todo[t] # <<>> /\ Head(todo[t]) \in Callbacks!Statuses BY <1>2 DEF Callbacks!CompareAndSwap, Place
  <2>2. todo' \in [Setters -> Seq(Callbacks!Statuses)] BY <1>2, <2>1, Returns DEF Callbacks!CompareAndSwap
  <2>3. pc' \in [Callbacks!Threads -> {"start", "cas", "head", "visit", "call", "test", "done"}]
    BY <1>2, <2>1, Returns DEF Callbacks!CompareAndSwap, Callbacks!Goto
  <2> QED BY <1>0, <1>2, <2>1, <2>2, <2>3 DEF Callbacks!CompareAndSwap
<1>3. ASSUME NEW t \in Setters, Callbacks!ReadHead(t) \/ Callbacks!EndWalk(t)
      PROVE  Callbacks!TypeOK'
  <2>1. CASE Callbacks!ReadHead(t) BY <2>1 DEF Callbacks!ReadHead, Callbacks!Goto
  <2>2. CASE Callbacks!EndWalk(t)
    <3>1. todo[t] # <<>> BY <2>2 DEF Callbacks!EndWalk, Place
    <3>2. todo' \in [Setters -> Seq(Callbacks!Statuses)] BY <2>2, <3>1, Returns DEF Callbacks!EndWalk
    <3>3. pc' \in [Callbacks!Threads -> {"start", "cas", "head", "visit", "call", "test", "done"}]
      BY <2>2, <3>1, Returns, ZenonT(60) DEF Callbacks!EndWalk, Callbacks!Goto
    <3> QED BY <2>2, <3>2, <3>3 DEF Callbacks!EndWalk
  <2> QED BY <1>3, <2>1, <2>2
<1>4. ASSUME NEW t \in Callbacks!Threads, Callbacks!Visit(t) PROVE Callbacks!TypeOK'
  <2>1. Head(walk[t]) \in Registrars /\ Tail(walk[t]) \in Seq(Registrars)
    BY <1>4, Lists DEF Callbacks!Visit
  <2> QED BY <1>4, <2>1, ZenonT(60) DEF Callbacks!Visit, Callbacks!Goto, Callbacks!Exchanged
<1>5. ASSUME NEW t \in Callbacks!Threads, Callbacks!Call(t) PROVE Callbacks!TypeOK'
  <2>1. Head(walk[t]) \in Registrars /\ Tail(walk[t]) \in Seq(Registrars)
    BY <1>5, Lists DEF Callbacks!Call, Place
  <2> QED BY <1>5, <2>1 DEF Callbacks!Call, Callbacks!Goto
<1>6. ASSUME NEW e \in Registrars, Callbacks!Push(e) \/ Callbacks!TestStatus(e)
      PROVE  Callbacks!TypeOK'
  <2>1. <<e>> \o callbacks \in Seq(Registrars) /\ <<e>> \in Seq(Registrars) BY Lists
  <2> QED BY <1>6, <2>1, ZenonT(60) DEF Callbacks!Push, Callbacks!TestStatus, Callbacks!Goto
<1>7. CASE UNCHANGED Callbacks!vars BY <1>7 DEF Callbacks!vars
<1> QED BY <1>1, <1>2, <1>3, <1>4, <1>5, <1>6, <1>7 DEF Callbacks!Next

----------------------------------------
(* The types of the variables that the steps below change. *)
LEMMA EventTypes ==
  ASSUME Callbacks!TypeOK
  PROVE  /\ setup \in Histories /\ status \in Int
         /\ callbacks \in Seq(Registrars) /\ callback \in [Registrars -> BOOLEAN]
         /\ called \in [Registrars -> Seq(Callbacks!Statuses)]
         /\ todo \in [Setters -> Seq(Callbacks!Statuses)] /\ current \in [Setters -> Int]
         /\ walk \in [Callbacks!Threads -> Seq(Registrars)]
         /\ pc \in [Callbacks!Threads -> {"start", "cas", "head", "visit", "call", "test", "done"}]
         /\ \A t \in Setters : todo[t] # <<>> => Head(todo[t]) \in Int
<1>1. Callbacks!Statuses \subseteq Int BY DEF Callbacks!Statuses, Callbacks!Complete, Callbacks!Initial
<1>2. \A list \in Seq(Callbacks!Statuses) : list # <<>> => Head(list) \in Int
  <2> TAKE list \in Seq(Callbacks!Statuses)
  <2>1. list # <<>> => Head(list) \in Callbacks!Statuses OBVIOUS
  <2> QED BY <1>1, <2>1
<1>3. \A t \in Setters : todo[t] \in Seq(Callbacks!Statuses) /\ current[t] \in Int
  BY <1>1 DEF Callbacks!TypeOK
<1>4. \A t \in Setters : todo[t] # <<>> => Head(todo[t]) \in Int BY <1>2, <1>3
<1> QED BY <1>1, <1>3, <1>4 DEF Callbacks!TypeOK

(* Where a thread is still agrees with what it has to do. *)
LEMMA PlaceStep == ASSUME Callbacks!HistoriesAreSane, Callbacks!TypeOK, Place,
    [Callbacks!Next]_(Callbacks!vars) PROVE Place'
<1> USE Roles, EventTypes
<1>1. ASSUME NEW t \in Setters, Callbacks!Load(t) PROVE Place'
  <2>1. CASE status <= Callbacks!Complete \/ status <= Head(todo[t])
    BY <1>1, <2>1, Returns, ZenonT(60) DEF Callbacks!Load, Place
  <2>2. CASE ~(status <= Callbacks!Complete \/ status <= Head(todo[t]))
    <3>1. Callbacks!Complete < status /\ Head(todo[t]) < status
      BY <1>1, <2>2 DEF Callbacks!Load, Callbacks!Complete
    <3> QED BY <1>1, <2>2, <3>1 DEF Callbacks!Load, Place, Callbacks!Goto
  <2> QED BY <2>1, <2>2
<1>2. ASSUME NEW t \in Setters, Callbacks!CompareAndSwap(t) PROVE Place'
  <2>1. todo[t] # <<>> BY <1>2 DEF Callbacks!CompareAndSwap, Place
  <2>2. CASE status # current[t] \/ setup.hip
    BY <1>2, <2>1, <2>2, Returns DEF Callbacks!CompareAndSwap, Place
  <2>3. CASE ~(status # current[t] \/ setup.hip)
    BY <1>2, <2>3 DEF Callbacks!CompareAndSwap, Place, Callbacks!Goto
  <2> QED BY <2>2, <2>3
<1>3. ASSUME NEW t \in Setters, Callbacks!ReadHead(t) PROVE Place'
  BY <1>3 DEF Callbacks!ReadHead, Place, Callbacks!Goto
<1>4. ASSUME NEW t \in Setters, Callbacks!EndWalk(t) PROVE Place'
  <2>1. todo[t] # <<>> BY <1>4 DEF Callbacks!EndWalk, Place
  <2>2. CASE setup.hip BY <1>4, <2>2 DEF Callbacks!EndWalk, Place, Callbacks!Goto
  <2>3. CASE ~setup.hip BY <1>4, <2>1, <2>3, Returns, ZenonT(60) DEF Callbacks!EndWalk, Place
  <2> QED BY <2>2, <2>3
<1>5. ASSUME NEW t \in Callbacks!Threads, Callbacks!Visit(t) PROVE Place'
  <2>1. /\ pc[t] = "visit" /\ walk[t] # <<>> /\ UNCHANGED <<setup, callbacks, todo, current>>
        /\ \A u \in Callbacks!Threads : u # t => pc'[u] = pc[u] /\ walk'[u] = walk[u]
    BY <1>5 DEF Callbacks!Visit, Callbacks!Goto
  <2>2. \/ pc'[t] = "call" /\ walk' = walk
        \/ pc'[t] = (IF t \in Setters THEN "visit" ELSE "done")
    BY <1>5 DEF Callbacks!Visit, Callbacks!Goto
  <2> QED BY <2>1, <2>2 DEF Place
<1>6. ASSUME NEW t \in Callbacks!Threads, Callbacks!Call(t) PROVE Place'
  <2>1. /\ pc[t] = "call" /\ UNCHANGED <<setup, callbacks, todo, current>>
        /\ \A u \in Callbacks!Threads : u # t => pc'[u] = pc[u] /\ walk'[u] = walk[u]
        /\ pc'[t] = (IF t \in Setters THEN "visit" ELSE "done")
    BY <1>6 DEF Callbacks!Call, Callbacks!Goto
  <2> QED BY <2>1 DEF Place
<1>7. ASSUME NEW e \in Registrars, Callbacks!Push(e) PROVE Place'
  BY <1>7, Lists DEF Callbacks!Push, Place, Callbacks!Goto
<1>8. ASSUME NEW e \in Registrars, Callbacks!TestStatus(e) PROVE Place'
  <2>1. CASE status <= setup.at[e]
    <3>1. /\ walk' = [walk EXCEPT ![e] = <<e>>] /\ pc' = [pc EXCEPT ![e] = "visit"]
          /\ pc[e] = "test" /\ UNCHANGED <<setup, callbacks, todo, current>>
      BY <1>8, <2>1 DEF Callbacks!TestStatus, Callbacks!Goto
    <3>2. walk'[e] = <<e>> /\ \A t \in Callbacks!Threads : t # e => walk'[t] = walk[t] BY <3>1
    <3>3. pc'[e] = "visit" /\ \A t \in Callbacks!Threads : t # e => pc'[t] = pc[t] BY <3>1
    <3> HIDE DEF Place
    <3> QED BY <3>1, <3>2, <3>3 DEF Place
  <2>2. CASE ~(status <= setup.at[e]) BY <1>8, <2>2 DEF Callbacks!TestStatus, Place, Callbacks!Goto
  <2> QED BY <2>1, <2>2
<1>9. CASE UNCHANGED Callbacks!vars BY <1>9 DEF Callbacks!vars, Place
<1> QED BY <1>1, <1>2, <1>3, <1>4, <1>5, <1>6, <1>7, <1>8, <1>9 DEF Callbacks!Next

(* An entry changes hands only by the exchange and by the call. *)
LEMMA OnceStep == ASSUME Callbacks!HistoriesAreSane, Callbacks!TypeOK, Place, Once,
    [Callbacks!Next]_(Callbacks!vars) PROVE Once'
<1> USE Roles, EventTypes
<1>1. ASSUME UNCHANGED <<callback, called>>,
             \A t \in Callbacks!Threads : pc[t] = "call" \/ pc'[t] = "call"
                => pc'[t] = pc[t] /\ walk'[t] = walk[t]
      PROVE  Once'
  <2>1. \A t \in Callbacks!Threads, e \in Registrars : Calling(t, e)' <=> Calling(t, e)
    BY <1>1 DEF Calling
  <2> QED BY <1>1, <2>1 DEF Once
<1>2. ASSUME NEW t \in Setters,
             Callbacks!Load(t) \/ Callbacks!CompareAndSwap(t) \/ Callbacks!ReadHead(t) \/ Callbacks!EndWalk(t)
      PROVE  Once'
  <2>1. todo[t] # <<>>
    BY <1>2 DEF Callbacks!Load, Callbacks!CompareAndSwap, Callbacks!ReadHead,
       Callbacks!EndWalk, Place
  <2>2. pc[t] # "call" /\ pc'[t] # "call" /\ \A u \in Callbacks!Threads \ {t} : pc'[u] = pc[u]
    BY <1>2, <2>1, Returns
       DEF Callbacks!Load, Callbacks!CompareAndSwap, Callbacks!ReadHead,
           Callbacks!EndWalk, Callbacks!Goto
  <2>3. \A u \in Callbacks!Threads \ {t} : walk'[u] = walk[u]
    BY <1>2 DEF Callbacks!Load, Callbacks!CompareAndSwap, Callbacks!ReadHead,
       Callbacks!EndWalk
  <2> QED
    BY <1>1, <1>2, <2>2, <2>3
       DEF Callbacks!Load, Callbacks!CompareAndSwap, Callbacks!ReadHead, Callbacks!EndWalk
<1>3. ASSUME NEW t \in Callbacks!Threads, Callbacks!Visit(t) PROVE Once'
  <2>1. CASE ~(Callbacks!Wants(t, Head(walk[t])) /\ callback[Head(walk[t])])
    BY <1>1, <1>3, <2>1 DEF Callbacks!Visit, Callbacks!Goto
  <2>2. CASE Callbacks!Wants(t, Head(walk[t])) /\ callback[Head(walk[t])]
    <3>0. Head(walk[t]) \in Registrars /\ pc[t] # "call" BY <1>3, Lists DEF Callbacks!Visit
    <3> PICK e \in Registrars : e = Head(walk[t]) BY <3>0
    <3>1. e \in Registrars /\ pc[t] # "call" BY <3>0
    <3>2. /\ callback[e] /\ callback' = [callback EXCEPT ![e] = FALSE]
          /\ called' = called /\ walk' = walk
          /\ pc' = [pc EXCEPT ![t] = "call"]
      BY <1>3, <2>2 DEF Callbacks!Visit, Callbacks!Goto, Callbacks!Exchanged
    <3>3. \A u \in Callbacks!Threads : ~Calling(u, e) BY <3>1, <3>2 DEF Once
    <3>4. \A u \in Callbacks!Threads, d \in Registrars :
             Calling(u, d)' <=> Calling(u, d) \/ (u = t /\ d = e)
      BY <3>1, <3>2 DEF Calling
    <3>5. callback'[e] = FALSE /\ \A d \in Registrars : d # e => callback'[d] = callback[d] BY <3>1, <3>2
    <3>6. called'[e] = <<>> BY <3>1, <3>2 DEF Once
    <3>7. ASSUME NEW d \in Registrars, d # e
          PROVE  /\ callback'[d] = callback[d] /\ called'[d] = called[d]
                 /\ \A u \in Callbacks!Threads : Calling(u, d)' <=> Calling(u, d)
      BY <3>1, <3>2, <3>4, <3>5, <3>7
    <3>8. \A u \in Callbacks!Threads : Calling(u, e)' <=> u = t BY <3>1, <3>3, <3>4
    <3> SUFFICES ASSUME NEW d \in Registrars
                 PROVE  /\ Len(called'[d]) <= 1
                        /\ callback'[d] => called'[d] = <<>>
                        /\ \A u \in Callbacks!Threads : Calling(u, d)' => ~callback'[d] /\ called'[d] = <<>>
                        /\ \A u, v \in Callbacks!Threads : Calling(u, d)' /\ Calling(v, d)' => u = v
                        /\ ~callback'[d] /\ called'[d] = <<>> =>
                              \E u \in Callbacks!Threads : Calling(u, d)'
      BY DEF Once
    <3>9. CASE d # e BY <3>7, <3>9 DEF Once
    <3>10. CASE d = e
      <4>1. ~callback'[d] /\ called'[d] = <<>> /\ \A u \in Callbacks!Threads : Calling(u, d)' <=> u = t
        BY <3>5, <3>6, <3>8, <3>10, Zenon
      <4> QED BY <4>1
    <3> QED BY <3>9, <3>10
  <2> QED BY <2>1, <2>2
<1>4. ASSUME NEW t \in Callbacks!Threads, Callbacks!Call(t) PROVE Once'
  <2>0. Head(walk[t]) \in Registrars BY <1>4, Lists DEF Callbacks!Call, Place
  <2> PICK e \in Registrars : e = Head(walk[t]) BY <2>0
  <2>1. e \in Registrars /\ Calling(t, e) /\ callback' = callback BY <1>4 DEF Callbacks!Call, Calling
  <2>2. ~callback[e] /\ called[e] = <<>> /\ \A u \in Callbacks!Threads : Calling(u, e) => u = t
    BY <2>1 DEF Once
  <2>3. \A u \in Callbacks!Threads,
      d \in Registrars : Calling(u, d)' <=> Calling(u, d) /\ u # t
    BY <1>4 DEF Calling, Callbacks!Call, Callbacks!Goto
  <2>4. called'[e] = <<status>> /\ \A d \in Registrars : d # e => called'[d] = called[d]
    BY <1>4, <2>1, <2>2, SMTT(30) DEF Callbacks!Call
  <2>5. Len(called'[e]) = 1 /\ called'[e] # <<>> BY <2>4
  <2>6. \A u \in Callbacks!Threads, d \in Registrars : Calling(u, d) /\ d # e => u # t BY <2>1 DEF Calling
  <2>7. ASSUME NEW d \in Registrars, d # e
        PROVE  \A u \in Callbacks!Threads : Calling(u, d)' <=> Calling(u, d)
    BY <2>3, <2>6, <2>7
  <2>8. \A u \in Callbacks!Threads : ~Calling(u, e)' BY <2>1, <2>2, <2>3
  <2>9. ASSUME NEW d \in Registrars, d # e
        PROVE  called'[d] = called[d] /\ callback'[d] = callback[d]
    BY <2>1, <2>4, <2>9
  <2> SUFFICES ASSUME NEW d \in Registrars
               PROVE  /\ Len(called'[d]) <= 1
                      /\ callback'[d] => called'[d] = <<>>
                      /\ \A u \in Callbacks!Threads : Calling(u, d)' => ~callback'[d] /\ called'[d] = <<>>
                      /\ \A u, v \in Callbacks!Threads : Calling(u, d)' /\ Calling(v, d)' => u = v
                      /\ ~callback'[d] /\ called'[d] = <<>> => \E u \in Callbacks!Threads : Calling(u, d)'
    BY DEF Once
  <2>10. CASE d # e BY <2>7, <2>9, <2>10 DEF Once
  <2>11. CASE d = e
    <3>1. ~callback'[d] BY <2>1, <2>2, <2>11, Zenon
    <3>2. Len(called'[d]) = 1 /\ called'[d] # <<>> /\ \A u \in Callbacks!Threads : ~Calling(u, d)'
      BY <2>5, <2>8, <2>11, Zenon
    <3> QED BY <3>1, <3>2
  <2> QED BY <2>10, <2>11
<1>5. ASSUME NEW e \in Registrars, Callbacks!Push(e) \/ Callbacks!TestStatus(e)
      PROVE  Once'
  BY <1>1, <1>5 DEF Callbacks!Push, Callbacks!TestStatus, Callbacks!Goto
<1>6. CASE UNCHANGED Callbacks!vars BY <1>1, <1>6 DEF Callbacks!vars
<1> QED BY <1>2, <1>3, <1>4, <1>5, <1>6 DEF Callbacks!Next

(* The status never rises: a swap puts the new one below the one it read. *)
LEMMA Falls ==
  ASSUME Callbacks!HistoriesAreSane, Callbacks!TypeOK, Place,
         [Callbacks!Next]_(Callbacks!vars)
  PROVE  setup' = setup /\ status' <= status
<1> USE EventTypes
<1>1. ASSUME NEW t \in Setters, Callbacks!CompareAndSwap(t)
      PROVE  setup' = setup /\ status' <= status
  <2>1. todo[t] # <<>> /\ Head(todo[t]) < current[t] /\ Head(todo[t]) \in Int
    BY <1>1 DEF Callbacks!CompareAndSwap, Place
  <2>2. current[t] \in Int OBVIOUS
  <2> QED BY <1>1, <2>1, <2>2 DEF Callbacks!CompareAndSwap
<1>2. ASSUME NEW t \in Setters,
             Callbacks!Load(t) \/ Callbacks!ReadHead(t) \/ Callbacks!EndWalk(t)
      PROVE  UNCHANGED <<setup, status>>
  BY <1>2 DEF Callbacks!Load, Callbacks!ReadHead, Callbacks!EndWalk
<1>3. ASSUME NEW t \in Callbacks!Threads, Callbacks!Visit(t) \/ Callbacks!Call(t)
      PROVE  UNCHANGED <<setup, status>>
  BY <1>3 DEF Callbacks!Visit, Callbacks!Call
<1>4. ASSUME NEW e \in Registrars, Callbacks!Push(e) \/ Callbacks!TestStatus(e)
      PROVE  UNCHANGED <<setup, status>>
  BY <1>4 DEF Callbacks!Push, Callbacks!TestStatus
<1> QED BY <1>1, <1>2, <1>3, <1>4 DEF Callbacks!Next, Callbacks!vars

(* In OpenCL a call comes after the status it is for. *)
LEMMA ReachedStep ==
  ASSUME Callbacks!HistoriesAreSane, Callbacks!TypeOK, Place, Reached,
         [Callbacks!Next]_(Callbacks!vars)
  PROVE  Reached'
<1> USE Roles, EventTypes
<1>0. setup' = setup /\ status' <= status /\ status' \in Int
  BY Falls, EventTypeStep DEF Callbacks!TypeOK, Callbacks!Statuses, Callbacks!Initial
<1> SUFFICES ASSUME ~setup.hip PROVE Reached' BY <1>0 DEF Reached
<1>1. /\ \A t \in Setters :
            /\ pc[t] \in {"head", "visit", "call"} => status <= Head(todo[t])
            /\ \A e \in Registrars : Calling(t, e) => setup.at[e] = Callbacks!Mask(Head(todo[t]))
      /\ \A e \in Registrars : pc[e] \in {"visit", "call"} => status <= setup.at[e]
      /\ \A e \in Registrars : \A i \in 1 .. Len(called[e]) : called[e][i] <= setup.at[e]
  BY DEF Reached, Callbacks!NeverEarly
<1>2. /\ \A t \in Setters : pc[t] \in {"head", "visit", "call"} => status' <= Head(todo[t])
      /\ \A e \in Registrars : pc[e] \in {"visit", "call"} => status' <= setup.at[e]
  <2>1. \A e \in Registrars : setup.at[e] \in Int
    <3>1. Callbacks!Complete .. Callbacks!Initial \subseteq Int
      BY DEF Callbacks!Complete, Callbacks!Initial
    <3> QED BY <3>1
  <2>2. \A t \in Setters : pc[t] \in {"head", "visit", "call"} => Head(todo[t]) \in Int BY DEF Place
  <2> QED BY <1>0, <1>1, <2>1, <2>2
<1>3. ASSUME NEW t \in Setters, UNCHANGED <<called, walk>>,
             \/ pc' = [pc EXCEPT ![t] = "start"] \/ pc' = [pc EXCEPT ![t] = "done"]
             \/ pc' = [pc EXCEPT ![t] = "cas"],
             \A u \in Setters : u # t => todo'[u] = todo[u]
      PROVE  Reached'
  <2>1. \A u \in Callbacks!Threads : u # t => pc'[u] = pc[u] BY <1>3
  <2>2. pc'[t] \notin {"head", "visit", "call"} BY <1>3
  <2>3. \A u \in Callbacks!Threads,
      e \in Registrars : Calling(u, e)' => Calling(u, e) /\ u # t
    BY <1>3, <2>1, <2>2 DEF Calling
  <2> QED BY <1>0, <1>1, <1>2, <1>3, <2>1, <2>2, <2>3 DEF Reached, Callbacks!NeverEarly
<1>4. ASSUME NEW t \in Setters, Callbacks!Load(t) \/ Callbacks!EndWalk(t) PROVE Reached'
  <2>1. todo[t] # <<>> BY <1>4 DEF Callbacks!Load, Callbacks!EndWalk, Place
  <2>2. CASE Callbacks!Return(t) BY <1>3, <1>4, <2>1, <2>2, Returns DEF Callbacks!Load, Callbacks!EndWalk
  <2>3. CASE Callbacks!Goto(t, "cas") /\ UNCHANGED todo
    BY <1>3, <1>4, <2>3 DEF Callbacks!Load, Callbacks!EndWalk, Callbacks!Goto
  <2> QED BY <1>4, <2>2, <2>3 DEF Callbacks!Load, Callbacks!EndWalk

<1>5. ASSUME NEW t \in Setters, Callbacks!CompareAndSwap(t) PROVE Reached'
  <2>1. todo[t] # <<>> BY <1>5 DEF Callbacks!CompareAndSwap, Place
  <2>2. CASE status # current[t] BY <1>3, <1>5, <2>1, <2>2, Returns DEF Callbacks!CompareAndSwap
  <2>3. CASE status = current[t]
    <3>1. /\ status' = Head(todo[t]) /\ UNCHANGED <<todo, called, walk>>
          /\ pc' = [pc EXCEPT ![t] = "head"]
      BY <1>5, <2>3 DEF Callbacks!CompareAndSwap, Callbacks!Goto
    <3>2. \A u \in Callbacks!Threads, e \in Registrars : Calling(u, e)' => Calling(u, e)
      BY <3>1 DEF Calling
    <3> QED BY <1>0, <1>1, <1>2, <3>1, <3>2 DEF Reached, Callbacks!NeverEarly
  <2> QED BY <2>2, <2>3
<1>6. ASSUME NEW t \in Setters, Callbacks!ReadHead(t) PROVE Reached'
  <2>1. \A u \in Callbacks!Threads, e \in Registrars : Calling(u, e)' => Calling(u, e)
    BY <1>6 DEF Calling, Callbacks!ReadHead, Callbacks!Goto
  <2> QED
    BY <1>0, <1>1, <1>2, <1>6, <2>1
       DEF Callbacks!ReadHead, Callbacks!Goto, Reached, Callbacks!NeverEarly
<1>7. ASSUME NEW t \in Callbacks!Threads, Callbacks!Visit(t) PROVE Reached'
  <2>1. CASE Callbacks!Wants(t, Head(walk[t])) /\ callback[Head(walk[t])]
    <3>1. \A u \in Callbacks!Threads, e \in Registrars :
             Calling(u, e)' => Calling(u, e) \/ (u = t /\ e = Head(walk[t]))
      BY <1>7, <2>1 DEF Calling, Callbacks!Visit, Callbacks!Goto
    <3>2. t \in Setters => setup.at[Head(walk[t])] = Callbacks!Mask(Head(todo[t]))
      BY <2>1 DEF Callbacks!Wants
    <3> QED
      <4>1. /\ pc[t] = "visit" /\ pc' = [pc EXCEPT ![t] = "call"]
            /\ UNCHANGED <<setup, called, todo, walk>>
        BY <1>7, <2>1 DEF Callbacks!Visit, Callbacks!Goto
      <4>2. \A u \in Setters : pc'[u] \in {"head", "visit", "call"} => status' <= Head(todo'[u])
        BY <1>2, <4>1
      <4>3. \A u \in Setters, e \in Registrars :
               Calling(u, e)' => setup'.at[e] = Callbacks!Mask(Head(todo'[u]))
        BY <1>1, <3>1, <3>2, <4>1
      <4>4. \A e \in Registrars : pc'[e] \in {"visit", "call"} => status' <= setup'.at[e] BY <1>2, <4>1
      <4> QED BY <1>1, <4>1, <4>2, <4>3, <4>4 DEF Reached, Callbacks!NeverEarly, Callbacks!Mask
  <2>2. CASE ~(Callbacks!Wants(t, Head(walk[t])) /\ callback[Head(walk[t])])
    <3>1. \A u \in Callbacks!Threads, e \in Registrars : Calling(u, e)' => Calling(u, e)
      BY <1>7, <2>2 DEF Calling, Callbacks!Visit, Callbacks!Goto
    <3> QED
      BY <1>0, <1>1, <1>2, <1>7, <2>2, <3>1
         DEF Callbacks!Visit, Callbacks!Goto, Reached, Callbacks!NeverEarly
  <2> QED BY <2>1, <2>2
<1>8. ASSUME NEW t \in Callbacks!Threads, Callbacks!Call(t) PROVE Reached'
  <2>1. PICK e \in Registrars : e = Head(walk[t]) BY <1>8, Lists DEF Callbacks!Call, Place
  <2>2. Calling(t, e) BY <1>8, <2>1 DEF Callbacks!Call, Calling
  <2>3. status <= setup.at[e]
    <3>1. CASE t \in Setters
      <4>1. setup.at[e] = Callbacks!Mask(Head(todo[t])) /\ status <= Head(todo[t])
        BY <1>1, <1>8, <2>2, <3>1 DEF Callbacks!Call
      <4>2. Head(todo[t]) \in Int BY <1>8, <3>1 DEF Callbacks!Call, Place
      <4> QED BY <4>1, <4>2 DEF Callbacks!Mask, Callbacks!Complete
    <3>2. CASE t \in Registrars BY <1>1, <1>8, <2>1, <3>2, Lists DEF Callbacks!Call, Place
    <3> QED BY <3>1, <3>2
  <2>4. \A u \in Callbacks!Threads, d \in Registrars : Calling(u, d)' => Calling(u, d)
    BY <1>8 DEF Calling, Callbacks!Call, Callbacks!Goto
  <2>5. \A d \in Registrars : \A i \in 1 .. Len(called'[d]) : called'[d][i] <= setup.at[d]
    <3>1. called' = [called EXCEPT ![e] = Append(@, status)] BY <1>8, <2>1 DEF Callbacks!Call
    <3>2. called[e] \in Seq(Callbacks!Statuses) /\ status \in Callbacks!Statuses BY DEF Callbacks!TypeOK
    <3>3. /\ \A i \in 1 .. Len(called[e]) : Append(called[e], status)[i] = called[e][i]
          /\ Len(Append(called[e], status)) = Len(called[e]) + 1
          /\ Append(called[e], status)[Len(called[e]) + 1] = status
          /\ Len(called[e]) \in Nat
      BY <3>2
    <3>4. called'[e] = Append(called[e], status) /\ \A d \in Registrars \ {e} : called'[d] = called[d]
      BY <3>1
    <3>5. \A i \in 1 .. Len(called'[e]) : i = Len(called[e]) + 1 \/ i \in 1 .. Len(called[e])
      BY <3>3, <3>4
    <3>6. \A i \in 1 .. Len(called'[e]) : called'[e][i] <= setup.at[e] BY <1>1, <2>3, <3>3, <3>4, <3>5
    <3> QED BY <1>1, <3>4, <3>6
  <2>6. \A u \in Callbacks!Threads : pc'[u] \in {"head", "visit", "call"} => pc[u] \in {"head", "visit", "call"}
    BY <1>8 DEF Callbacks!Call, Callbacks!Goto
  <2>7. todo' = todo BY <1>8 DEF Callbacks!Call
  <2>8. /\ \A u \in Setters : pc'[u] \in {"head", "visit", "call"} => status' <= Head(todo'[u])
        /\ \A u \in Registrars : pc'[u] \in {"visit", "call"} => status' <= setup.at[u]
    <3>1. \A u \in Registrars : pc'[u] # "head" BY <1>8 DEF Callbacks!Call, Callbacks!Goto, Place
    <3> QED BY <1>2, <2>6, <2>7, <3>1, <1>8 DEF Callbacks!Call, Callbacks!Goto, Place
  <2>9. \A u \in Setters,
      d \in Registrars : Calling(u, d)' => setup.at[d] = Callbacks!Mask(Head(todo'[u]))
    BY <1>1, <2>4, <2>7
  <2> QED BY <1>0, <2>5, <2>8, <2>9 DEF Reached, Callbacks!NeverEarly
<1>9. ASSUME NEW e \in Registrars, Callbacks!Push(e) \/ Callbacks!TestStatus(e)
      PROVE  Reached'
  <2>1. \A u \in Callbacks!Threads, d \in Registrars : Calling(u, d)' => Calling(u, d)
    BY <1>9 DEF Calling, Callbacks!Push, Callbacks!TestStatus, Callbacks!Goto
  <2>2. \A u \in Setters : pc'[u] = pc[u] BY <1>9 DEF Callbacks!Push, Callbacks!TestStatus, Callbacks!Goto
  <2>3. \A d \in Registrars : pc'[d] \in {"visit", "call"} => status' <= setup.at[d]
    BY <1>2, <1>9 DEF Callbacks!Push, Callbacks!TestStatus, Callbacks!Goto
  <2> QED
    BY <1>0, <1>1, <1>2, <1>9, <2>1, <2>2, <2>3
       DEF Callbacks!Push, Callbacks!TestStatus, Reached, Callbacks!NeverEarly
<1>10. CASE UNCHANGED Callbacks!vars BY <1>10 DEF Callbacks!vars, Reached, Callbacks!NeverEarly, Calling
<1> QED BY <1>4, <1>5, <1>6, <1>7, <1>8, <1>9, <1>10 DEF Callbacks!Next

(* No step makes the walk or the registrar of an entry miss it. *)
LEMMA FoundStep ==
  ASSUME Callbacks!HistoriesAreSane, Callbacks!TypeOK, Place, Once, Found,
         [Callbacks!Next]_(Callbacks!vars)
  PROVE  Found'
<1> USE Roles, EventTypes
<1>0. setup' = setup /\ status' <= status /\ status' \in Int
  BY Falls, EventTypeStep DEF Callbacks!TypeOK, Callbacks!Statuses, Callbacks!Initial
<1>1. \A m \in passed' : status' <= m
  <2>1. passed \subseteq Int
    <3>1. Callbacks!Statuses \subseteq Int BY DEF Callbacks!Statuses, Callbacks!Initial
    <3>2. passed \subseteq Callbacks!Statuses BY DEF Callbacks!TypeOK
    <3> QED BY <3>1, <3>2
  <2>0. \A m \in passed : status' <= m
    <3>1. \A m \in passed : status <= m BY DEF Found
    <3>2. status \in Int OBVIOUS
    <3> QED BY <1>0, <2>1, <3>1, <3>2
  <2>2. ASSUME NEW t \in Setters, Callbacks!CompareAndSwap(t)
        PROVE  \A m \in passed' : status' <= m
    <3>1. Head(todo[t]) \in Int /\ Head(todo[t]) <= Callbacks!Mask(Head(todo[t]))
      <4>1. Head(todo[t]) \in Int BY <2>2 DEF Callbacks!CompareAndSwap, Place
      <4>2. \A s \in Int : s <= Callbacks!Mask(s) BY DEF Callbacks!Mask, Callbacks!Complete
      <4> QED BY <4>1, <4>2
    <3>2. passed' = passed \/ (status' = Head(todo[t]) /\ passed' = passed \cup {Callbacks!Mask(Head(todo[t]))})
      BY <2>2 DEF Callbacks!CompareAndSwap
    <3> QED BY <2>0, <3>1, <3>2
  <2>3. (\E t \in Setters : Callbacks!CompareAndSwap(t)) \/ passed' = passed
    BY DEF Callbacks!Next, Callbacks!vars, Callbacks!Load, Callbacks!ReadHead,
       Callbacks!EndWalk, Callbacks!Visit, Callbacks!Call, Callbacks!Push,
           Callbacks!TestStatus
  <2> QED BY <2>0, <2>2, <2>3
<1> SUFFICES ASSUME ~setup.hip, NEW e \in Registrars, setup.at[e] \in passed',
                    callback'[e]
             PROVE  \/ pc'[e] \in {"start", "test", "visit"}
                    \/ \E t \in Setters : Coming(t, e)'
  BY <1>0, <1>1 DEF Found, Coming, Callbacks!Mask, Within
<1> DEFINE Goal == \/ pc'[e] \in {"start", "test", "visit"}
                   \/ \E t \in Setters : Coming(t, e)'
<1>2. setup.at[e] \in passed /\ callback[e] =>
         pc[e] \in {"start", "test", "visit"} \/ \E t \in Setters : Coming(t, e)
  BY DEF Found
<1>3. ASSUME NEW t \in Callbacks!Threads, pc'[e] = pc[e] \/ e = t, setup.at[e] \in passed,
             callback[e],
             t = e => pc[e] \notin {"start", "test", "visit"} \/ pc'[e] \in {"start", "test", "visit"},
             \A u \in Setters : u # t => /\ pc'[u] = pc[u] /\ walk'[u] = walk[u]
                                         /\ todo'[u] = todo[u],
             t \in Setters /\ Coming(t, e) => Coming(t, e)'
      PROVE  Goal
  <2>1. \A u \in Setters : Coming(u, e) => Coming(u, e)' BY <1>0, <1>3 DEF Coming
  <2> QED BY <1>2, <1>3, <2>1
<1>4. ASSUME NEW t \in Setters, Callbacks!Load(t) \/ Callbacks!EndWalk(t) PROVE Goal
  <2>1. todo[t] # <<>> BY <1>4 DEF Callbacks!Load, Callbacks!EndWalk, Place
  <2>2. ~Coming(t, e) BY <1>4, Lists DEF Callbacks!Load, Callbacks!EndWalk, Coming
  <2>3. \A u \in Callbacks!Threads : u # t => pc'[u] = pc[u]
    BY <1>4, <2>1, Returns DEF Callbacks!Load, Callbacks!EndWalk, Callbacks!Goto
  <2>4. \A u \in Setters : u # t => todo'[u] = todo[u]
    BY <1>4, <2>1, Returns DEF Callbacks!Load, Callbacks!EndWalk
  <2> QED BY <1>3, <1>4, <2>2, <2>3, <2>4 DEF Callbacks!Load, Callbacks!EndWalk
<1>5. ASSUME NEW t \in Setters, Callbacks!CompareAndSwap(t) PROVE Goal
  <2>1. todo[t] # <<>> BY <1>5 DEF Callbacks!CompareAndSwap, Place
  <2>2. \A u \in Callbacks!Threads : u # t => pc'[u] = pc[u]
    BY <1>5, <2>1, Returns DEF Callbacks!CompareAndSwap, Callbacks!Goto
  <2>3. \A u \in Setters : u # t => todo'[u] = todo[u] BY <1>5, <2>1, Returns DEF Callbacks!CompareAndSwap
  <2>4. CASE setup.at[e] \in passed BY <1>3, <1>5, <2>2, <2>3, <2>4 DEF Callbacks!CompareAndSwap, Coming
  <2>5. CASE setup.at[e] \notin passed
    <3>1. /\ pc' = [pc EXCEPT ![t] = "head"] /\ UNCHANGED todo
          /\ setup.at[e] = Callbacks!Mask(Head(todo[t]))
      BY <1>5, <2>5 DEF Callbacks!CompareAndSwap, Callbacks!Goto
    <3> QED BY <1>0, <3>1 DEF Coming
  <2> QED BY <2>4, <2>5
<1>6. ASSUME NEW t \in Setters, Callbacks!ReadHead(t) PROVE Goal
  <2>1. CASE pc[e] = "start" BY <1>6, <2>1 DEF Callbacks!ReadHead, Callbacks!Goto
  <2>2. CASE pc[e] # "start"
    <3>1. Within(e, callbacks) BY <2>2 DEF Place
    <3>2. Coming(t, e) => Coming(t, e)' BY <1>0, <1>6, <3>1 DEF Callbacks!ReadHead, Callbacks!Goto, Coming
    <3> QED BY <1>3, <1>6, <3>2 DEF Callbacks!ReadHead, Callbacks!Goto
  <2> QED BY <2>1, <2>2
<1>7. ASSUME NEW t \in Callbacks!Threads, Callbacks!Visit(t) PROVE Goal
  <2>1. Head(walk[t]) \in Registrars /\ (Within(e, walk[t]) /\ e # Head(walk[t]) => Within(e, Tail(walk[t])))
    BY <1>7, Lists DEF Callbacks!Visit
  <2>2. CASE Callbacks!Wants(t, Head(walk[t])) /\ callback[Head(walk[t])]
    <3>1. /\ pc' = [pc EXCEPT ![t] = "call"] /\ UNCHANGED <<setup, walk, todo, passed>>
          /\ callback' = [callback EXCEPT ![Head(walk[t])] = FALSE]
      BY <1>7, <2>2 DEF Callbacks!Visit, Callbacks!Goto, Callbacks!Exchanged
    <3>2. callback[e] /\ e # Head(walk[t]) BY <2>1, <3>1
    <3>3. t # e BY <1>7, <3>2, Lists DEF Callbacks!Visit, Place
    <3>4. t \in Setters /\ Coming(t, e) => Coming(t, e)' BY <1>7, <3>1 DEF Coming, Callbacks!Visit
    <3> QED BY <1>3, <3>1, <3>2, <3>3, <3>4
  <2>3. CASE ~(Callbacks!Wants(t, Head(walk[t])) /\ callback[Head(walk[t])])
    <3>1. /\ pc' = [pc EXCEPT ![t] = IF t \in Setters THEN "visit" ELSE "done"]
          /\ walk' = [walk EXCEPT ![t] = Tail(@)]
          /\ UNCHANGED <<setup, callback, todo, passed>> /\ pc[t] = "visit"
      BY <1>7, <2>3 DEF Callbacks!Visit, Callbacks!Goto
    <3>2. callback[e] BY <3>1
    <3>3. t # e BY <2>3, <3>1, <3>2, Lists DEF Place, Callbacks!Wants
    <3>4. t \in Setters /\ Coming(t, e) => Coming(t, e)'
      <4> SUFFICES ASSUME t \in Setters, Coming(t, e) PROVE Coming(t, e)' OBVIOUS
      <4>1. e # Head(walk[t]) BY <2>3, <3>2 DEF Coming, Callbacks!Wants
      <4>2. Within(e, walk'[t]) BY <2>1, <3>1, <4>1 DEF Coming
      <4> QED BY <3>1, <4>2 DEF Coming
    <3> QED BY <1>3, <3>1, <3>2, <3>3, <3>4
  <2> QED BY <2>2, <2>3
<1>8. ASSUME NEW t \in Callbacks!Threads, Callbacks!Call(t) PROVE Goal
  <2>1. Head(walk[t]) \in Registrars /\ (Within(e, walk[t]) /\ e # Head(walk[t]) => Within(e, Tail(walk[t])))
    BY <1>8, Lists DEF Callbacks!Call, Place
  <2>2. callback[e] /\ ~callback[Head(walk[t])] BY <1>8, <2>1 DEF Callbacks!Call, Once, Calling
  <2>3. e # Head(walk[t]) BY <2>2
  <2>4. t # e BY <1>8, <2>3, Lists DEF Callbacks!Call, Place
  <2>5. /\ pc' = [pc EXCEPT ![t] = IF t \in Setters THEN "visit" ELSE "done"]
        /\ walk' = [walk EXCEPT ![t] = Tail(@)] /\ pc[t] = "call"
        /\ UNCHANGED <<setup, todo, passed>>
    BY <1>8 DEF Callbacks!Call, Callbacks!Goto
  <2>6. t \in Setters /\ Coming(t, e) => Coming(t, e)' BY <2>1, <2>3, <2>5 DEF Coming
  <2> QED BY <1>3, <2>2, <2>4, <2>5, <2>6
<1>9. ASSUME NEW d \in Registrars, Callbacks!Push(d) \/ Callbacks!TestStatus(d)
      PROVE  Goal
  <2>1. UNCHANGED <<setup, callback, passed, todo>> /\ callback[e]
    BY <1>9 DEF Callbacks!Push, Callbacks!TestStatus
  <2>2. \A u \in Setters : pc'[u] = pc[u] /\ walk'[u] = walk[u]
    BY <1>9 DEF Callbacks!Push, Callbacks!TestStatus, Callbacks!Goto
  <2>3. pc'[e] = pc[e] \/ e = d BY <1>9 DEF Callbacks!Push, Callbacks!TestStatus, Callbacks!Goto
  <2>4. d = e => pc'[e] \in {"start", "test", "visit"}
    <3>1. status <= setup.at[e] BY <2>1 DEF Found
    <3> QED BY <1>9, <3>1 DEF Callbacks!Push, Callbacks!TestStatus, Callbacks!Goto
  <2> QED BY <1>3, <2>1, <2>2, <2>3, <2>4
<1>10. CASE UNCHANGED Callbacks!vars
  <2>1. \A t \in Setters : Coming(t, e) => Coming(t, e)' BY <1>10 DEF Callbacks!vars, Coming
  <2> QED BY <1>2, <1>10, <2>1 DEF Callbacks!vars
<1> QED BY <1>4, <1>5, <1>6, <1>7, <1>8, <1>9, <1>10 DEF Callbacks!Next

(* In HIP the one setter waits for the registrations, then calls every
   entry, and only then makes the final swap. *)
LEMMA AloneStep ==
  ASSUME Callbacks!HistoriesAreSane, Callbacks!TypeOK, Place, Once, Alone,
         [Callbacks!Next]_(Callbacks!vars)
  PROVE  Alone'
<1> USE Roles, EventTypes
<1>0. setup' = setup /\ status' <= status /\ status' \in Int
  BY Falls, EventTypeStep DEF Callbacks!TypeOK, Callbacks!Statuses, Callbacks!Initial
<1> SUFFICES ASSUME setup.hip PROVE Alone' BY <1>0 DEF Alone
<1> DEFINE Covered(t, e) == called[e] # <<>> \/ (pc[t] # "cas" /\ Within(e, walk[t]))
<1>1. /\ \A t, u \in Setters : todo[t] # <<>> /\ todo[u] # <<>> => t = u
      /\ \A e \in Registrars : pc[e] \in {"start", "test", "done"}
      /\ (\E e \in Registrars : pc[e] # "done") =>
            Callbacks!Complete < status /\ \A t \in Setters : pc[t] \in {"start", "done"}
      /\ \A t \in Setters, e \in Registrars :
            pc[t] \in {"visit", "call", "cas"} /\ Callbacks!Mask(Head(todo[t])) = Callbacks!Complete =>
               Covered(t, e)
      /\ status <= Callbacks!Complete => \A e \in Registrars : called[e] # <<>>
  BY DEF Alone, Callbacks!ReturnedBeforeComplete
<1>2. \A e \in Registrars : setup.at[e] = Callbacks!Complete BY DEF Callbacks!HistoriesAreSane
<1>3. ASSUME NEW t \in Setters, todo[t] # <<>>,
             \A e \in Registrars : pc[e] = "done",
             \A u \in Callbacks!Threads : u # t => pc'[u] = pc[u],
             \A u \in Setters : u # t => todo'[u] = todo[u],
             status' <= Callbacks!Complete => \A e \in Registrars : called'[e] # <<>>,
             \A e \in Registrars :
                pc'[t] \in {"visit", "call", "cas"} /\ Callbacks!Mask(Head(todo'[t])) = Callbacks!Complete =>
                   called'[e] # <<>> \/ (pc'[t] # "cas" /\ Within(e, walk'[t]))
      PROVE  Alone'
  <2>1. \A u \in Setters : todo'[u] # <<>> => u = t BY <1>1, <1>3
  <2>2. \A e \in Registrars : pc'[e] = "done" BY <1>3
  <2>3. \A u \in Setters : u # t => pc'[u] \notin {"visit", "call", "cas"} BY <1>1, <1>3 DEF Place
  <2>4. \A u \in Setters, e \in Registrars :
           pc'[u] \in {"visit", "call", "cas"} /\ Callbacks!Mask(Head(todo'[u])) = Callbacks!Complete =>
              called'[e] # <<>> \/ (pc'[u] # "cas" /\ Within(e, walk'[u]))
    BY <1>3, <2>3
  <2> QED
    BY <1>0, <1>3, <2>1, <2>2, <2>4
       DEF Alone, Callbacks!ReturnedBeforeComplete, Callbacks!Mask
<1>4. \A t \in Setters : pc[t] \in {"cas", "head", "visit", "call"} =>
         todo[t] # <<>> /\ \A e \in Registrars : pc[e] = "done"
  BY <1>1 DEF Place
<1>5. ASSUME NEW t \in Setters, Callbacks!Load(t) PROVE Alone'
  <2>1. /\ todo[t] # <<>> /\ \A e \in Registrars : pc[e] = "done"
        /\ UNCHANGED <<status, called>>
    BY <1>5 DEF Callbacks!Load
  <2>2. CASE Callbacks!Return(t)
    <3>1. /\ \A u \in Setters : u # t => todo'[u] = todo[u]
          /\ \A u \in Callbacks!Threads : u # t => pc'[u] = pc[u]
          /\ pc'[t] \notin {"visit", "call", "cas"}
      BY <2>1, <2>2, Returns, SMTT(30)
    <3> QED BY <1>1, <1>3, <2>1, <3>1
  <2>3. CASE Callbacks!Goto(t, "head") /\ UNCHANGED todo BY <1>1, <1>3, <2>1, <2>3 DEF Callbacks!Goto
  <2> QED BY <1>5, <2>2, <2>3 DEF Callbacks!Load
<1>6. ASSUME NEW t \in Setters, Callbacks!CompareAndSwap(t) PROVE Alone'
  <2>1. /\ todo[t] # <<>> /\ \A e \in Registrars : pc[e] = "done"
        /\ UNCHANGED called /\ Callbacks!Return(t) /\ pc[t] = "cas"
    BY <1>4, <1>6 DEF Callbacks!CompareAndSwap
  <2>2. status' <= Callbacks!Complete => \A e \in Registrars : called[e] # <<>>
    <3>1. CASE status' = status BY <1>1, <3>1
    <3>2. CASE status' = Head(todo[t])
      <4>1. status' <= Callbacks!Complete => Callbacks!Mask(Head(todo[t])) = Callbacks!Complete
        BY <1>0, <3>2 DEF Callbacks!Mask, Callbacks!Complete
      <4> QED BY <1>1, <2>1, <4>1
    <3> QED BY <1>6, <3>1, <3>2 DEF Callbacks!CompareAndSwap
  <2>3. /\ \A u \in Setters : u # t => todo'[u] = todo[u]
        /\ \A u \in Callbacks!Threads : u # t => pc'[u] = pc[u]
        /\ pc'[t] \notin {"visit", "call", "cas"}
    BY <2>1, Returns, ZenonT(60)
  <2>5. status' <= Callbacks!Complete => \A e \in Registrars : called'[e] # <<>> BY <2>1, <2>2
  <2> QED BY <1>3, <2>1, <2>3, <2>5
<1>7. ASSUME NEW t \in Setters, Callbacks!ReadHead(t) PROVE Alone'
  <2>1. /\ todo[t] # <<>> /\ \A e \in Registrars : pc[e] = "done"
        /\ UNCHANGED <<status, called, todo>>
        /\ pc' = [pc EXCEPT ![t] = "visit"] /\ walk' = [walk EXCEPT ![t] = callbacks]
    BY <1>4, <1>7 DEF Callbacks!ReadHead, Callbacks!Goto
  <2>2. \A e \in Registrars : Within(e, walk'[t]) BY <2>1 DEF Place
  <2> QED BY <1>1, <1>3, <2>1, <2>2
<1>8. ASSUME NEW t \in Setters, Callbacks!EndWalk(t) PROVE Alone'
  <2>1. /\ todo[t] # <<>> /\ \A e \in Registrars : pc[e] = "done"
        /\ UNCHANGED <<status, called, todo>> /\ walk[t] = <<>> /\ pc[t] = "visit"
        /\ pc' = [pc EXCEPT ![t] = "cas"]
    BY <1>4, <1>8 DEF Callbacks!EndWalk, Callbacks!Goto
  <2>2. \A e \in Registrars : ~Within(e, walk[t]) BY <2>1, Lists
  <2> QED BY <1>1, <1>3, <2>1, <2>2
<1>9. ASSUME NEW t \in Callbacks!Threads, Callbacks!Visit(t) PROVE Alone'
  <2>1. t \in Setters /\ todo[t] # <<>> /\ \A e \in Registrars : pc[e] = "done"
    BY <1>1, <1>4, <1>9 DEF Callbacks!Visit
  <2>2. /\ UNCHANGED <<status, called, todo>> /\ pc[t] = "visit" /\ walk[t] # <<>>
    BY <1>9 DEF Callbacks!Visit
  <2>3. CASE Callbacks!Wants(t, Head(walk[t])) /\ callback[Head(walk[t])]
    <3>1. pc' = [pc EXCEPT ![t] = "call"] /\ UNCHANGED walk
      BY <1>9, <2>3 DEF Callbacks!Visit, Callbacks!Goto
    <3> QED BY <1>1, <1>3, <2>1, <2>2, <3>1
  <2>4. CASE ~(Callbacks!Wants(t, Head(walk[t])) /\ callback[Head(walk[t])])
    <3>1. pc' = [pc EXCEPT ![t] = "visit"] /\ walk' = [walk EXCEPT ![t] = Tail(@)]
      BY <1>9, <2>1, <2>4 DEF Callbacks!Visit, Callbacks!Goto
    <3>2. PICK h \in Registrars : h = Head(walk[t]) BY <2>2, Lists
    <3>3. \A e \in Registrars : Within(e, walk[t]) => e = h \/ Within(e, walk'[t])
      BY <2>2, <3>1, <3>2, Lists
    <3>4. Callbacks!Mask(Head(todo[t])) = Callbacks!Complete => called[h] # <<>>
      <4>1. Callbacks!Mask(Head(todo[t])) = Callbacks!Complete => ~callback[h]
        BY <1>2, <2>4, <3>2 DEF Callbacks!Wants
      <4>2. \A u \in Callbacks!Threads : ~Calling(u, h) BY <1>1, <2>1, <2>2 DEF Calling, Place
      <4> QED BY <4>1, <4>2 DEF Once
    <3> QED BY <1>1, <1>3, <2>1, <2>2, <3>1, <3>3, <3>4, SMTT(30)
  <2> QED BY <2>3, <2>4
<1>10. ASSUME NEW t \in Callbacks!Threads, Callbacks!Call(t) PROVE Alone'
  <2>1. t \in Setters /\ todo[t] # <<>> /\ \A e \in Registrars : pc[e] = "done"
    BY <1>1, <1>4, <1>10 DEF Callbacks!Call
  <2>2. /\ UNCHANGED <<status, todo>> /\ pc[t] = "call" /\ walk[t] # <<>>
        /\ pc' = [pc EXCEPT ![t] = "visit"] /\ walk' = [walk EXCEPT ![t] = Tail(@)]
    BY <1>10, <2>1 DEF Callbacks!Call, Callbacks!Goto, Place
  <2>3. PICK h \in Registrars : h = Head(walk[t]) BY <2>2, Lists
  <2>4. \A e \in Registrars : Within(e, walk[t]) => e = h \/ Within(e, walk'[t]) BY <2>2, <2>3, Lists
  <2>5. called'[h] # <<>> /\ \A e \in Registrars : e # h => called'[e] = called[e]
    <3>1. called' = [called EXCEPT ![h] = Append(@, status)] BY <1>10, <2>3 DEF Callbacks!Call
    <3>2. status \in Callbacks!Statuses BY DEF Callbacks!TypeOK
    <3>3. \A list \in Seq(Callbacks!Statuses) : Append(list, status)[Len(list) + 1] = status
                                      /\ Len(Append(list, status)) = Len(list) + 1
                                      /\ Len(list) \in Nat
      BY <3>2
    <3>4. Len(<<>>) = 0 OBVIOUS
    <3>5. called[h] \in Seq(Callbacks!Statuses) /\ called'[h] = Append(called[h], status) BY <3>1
    <3>6. Len(called'[h]) # 0 BY <3>3, <3>5
    <3> QED BY <3>1, <3>4, <3>6
  <2>6. /\ \A u \in Callbacks!Threads : u # t => pc'[u] = pc[u]
        /\ pc'[t] = "visit"
        /\ \A e \in Registrars : called[e] # <<>> => called'[e] # <<>>
    BY <2>2, <2>5
  <2>7. \A e \in Registrars : Callbacks!Mask(Head(todo'[t])) = Callbacks!Complete =>
           called'[e] # <<>> \/ Within(e, walk'[t])
    BY <1>1, <2>1, <2>2, <2>4, <2>5
  <2>8. status' <= Callbacks!Complete => \A e \in Registrars : called'[e] # <<>> BY <1>1, <2>2, <2>6
  <2>9. \A u \in Setters : u # t => todo'[u] = todo[u] BY <2>2
  <2>10. \A e \in Registrars :
            pc'[t] \in {"visit", "call", "cas"} /\ Callbacks!Mask(Head(todo'[t])) = Callbacks!Complete =>
               called'[e] # <<>> \/ (pc'[t] # "cas" /\ Within(e, walk'[t]))
    BY <2>6, <2>7
  <2> QED BY <1>3, <2>1, <2>6, <2>8, <2>9, <2>10
<1>11. ASSUME NEW e \in Registrars, Callbacks!Push(e) \/ Callbacks!TestStatus(e)
      PROVE  Alone'
  <2>1. /\ Callbacks!Complete < status /\ \A t \in Setters : pc[t] \in {"start", "done"}
        /\ UNCHANGED <<status, called, todo>>
    BY <1>1, <1>11 DEF Callbacks!Push, Callbacks!TestStatus
  <2>2. pc'[e] \in {"test", "done"} /\ \A u \in Callbacks!Threads : u # e => pc'[u] = pc[u]
    BY <1>2, <1>11, <2>1
       DEF Callbacks!Push, Callbacks!TestStatus, Callbacks!Goto, Callbacks!Complete
  <2>3. \A t \in Setters : pc'[t] \in {"start", "done"} BY <2>1, <2>2
  <2>4. \A d \in Registrars : pc'[d] \in {"start", "test", "done"} BY <1>1, <2>2
  <2> QED
    BY <1>0, <1>1, <2>1, <2>3, <2>4
       DEF Alone, Callbacks!ReturnedBeforeComplete, Callbacks!Complete
<1>12. CASE UNCHANGED Callbacks!vars
  BY <1>12 DEF Callbacks!vars, Alone, Callbacks!ReturnedBeforeComplete, Within,
     Callbacks!Mask
<1> QED BY <1>5, <1>6, <1>7, <1>8, <1>9, <1>10, <1>11, <1>12 DEF Callbacks!Next

----------------------------------------
(* The invariant holds in every initial state. *)
LEMMA EventInitInv == ASSUME Callbacks!HistoriesAreSane, Callbacks!Init PROVE EventInv
<1>1. Callbacks!TypeOK
  <2>1. <<>> \in Seq(Registrars) /\ <<>> \in Seq(Callbacks!Statuses) /\ Callbacks!Initial \in Callbacks!Statuses
    BY DEF Callbacks!Statuses, Callbacks!Initial
  <2> QED BY <2>1 DEF Callbacks!HistoriesAreSane, Callbacks!Init, Callbacks!TypeOK
<1>2. /\ \A t \in Callbacks!Threads : pc[t] = "start"
      /\ \A e \in Registrars : callback[e] /\ called[e] = <<>>
      /\ passed = {} /\ status = setup.first
  BY DEF Callbacks!Init
<1>3. Len(<<>>) = 0 OBVIOUS
<1>4. \A t \in Callbacks!Threads, e \in Registrars : ~Calling(t, e) BY <1>2 DEF Calling
<1>5. Place BY <1>1, <1>2, Roles DEF Place
<1>6. Once BY <1>2, <1>3, <1>4 DEF Once
<1>7. Callbacks!NeverEarly BY <1>2, <1>3 DEF Callbacks!NeverEarly
<1>8. Reached BY <1>1, <1>2, <1>4, <1>7, Roles DEF Reached
<1>9. Found BY <1>2 DEF Found
<1>10. Alone
  <2> SUFFICES ASSUME setup.hip PROVE Alone BY DEF Alone
  <2>1. Callbacks!Complete < status /\ \A t,
      u \in Setters : todo[t] # <<>> /\ todo[u] # <<>> => t = u
    BY <1>2 DEF Callbacks!Init, Callbacks!HistoriesAreSane
  <2>2. ~(status <= Callbacks!Complete) BY <1>1, <2>1, EventTypes DEF Callbacks!Complete
  <2> QED BY <1>1, <1>2, <2>1, <2>2, Roles DEF Alone, Callbacks!ReturnedBeforeComplete
<1> QED BY <1>1, <1>5, <1>6, <1>8, <1>9, <1>10 DEF EventInv

(* The invariant implies that the callbacks run when they should: at the
   end nobody is about to call an entry, so one not called is still in the
   event, where its status would have made somebody find it. *)
LEMMA InvImpliesRun == ASSUME Callbacks!HistoriesAreSane, EventInv
    PROVE Callbacks!CallbacksRun
<1> USE Roles, EventTypes DEF EventInv
<1>1. Callbacks!AtMostOnce BY DEF Once, Callbacks!AtMostOnce
<1>2. Callbacks!NeverEarly BY DEF Reached, Callbacks!NeverEarly
<1>3. Callbacks!ReturnedBeforeComplete BY DEF Alone, Callbacks!ReturnedBeforeComplete
<1>4. Callbacks!NoneLost
  <2> SUFFICES ASSUME \A t \in Callbacks!Threads : pc[t] = "done" \/ (t \in Setters /\ todo[t] = <<>>),
                      NEW e \in Registrars, setup.at[e] \in passed, called[e] = <<>>
               PROVE  FALSE
    BY DEF Callbacks!NoneLost
  <2>1. \A t \in Setters : pc[t] \notin {"cas", "head", "visit", "call"} BY DEF Place
  <2>2. \A t \in Registrars : pc[t] = "done" OBVIOUS
  <2>3. callback[e] BY <2>1, <2>2 DEF Once, Calling
  <2>4. CASE setup.hip
    <3>1. setup.at[e] = Callbacks!Complete BY <2>4 DEF Callbacks!HistoriesAreSane
    <3> QED BY <1>3, <2>4, <3>1 DEF Found, Callbacks!ReturnedBeforeComplete
  <2>5. CASE ~setup.hip BY <2>1, <2>2, <2>3, <2>5 DEF Found, Coming
  <2> QED BY <2>4, <2>5
<1> QED BY <1>1, <1>2, <1>3, <1>4 DEF Callbacks!CallbacksRun

(* The invariant of the event: it holds at the start, every step keeps it. *)
THEOREM Invariance == ASSUME Callbacks!HistoriesAreSane PROVE Callbacks!Spec => []EventInv
<1>1. Callbacks!Init => EventInv BY EventInitInv
<1>2. EventInv /\ [Callbacks!Next]_(Callbacks!vars) => EventInv'
  BY EventTypeStep, PlaceStep, OnceStep, ReachedStep, FoundStep, AloneStep DEF EventInv
<1> QED BY <1>1, <1>2, PTL DEF Callbacks!Spec

(* Every variable of the event keeps its type. *)
THEOREM EventTypeCorrectness == ASSUME Callbacks!HistoriesAreSane
    PROVE Callbacks!Spec => []Callbacks!TypeOK
<1>1. EventInv => Callbacks!TypeOK BY DEF EventInv
<1> QED BY <1>1, Invariance, PTL

(* The callbacks of an event run when they should: none twice, in OpenCL
   none before its status, in HIP all before the command is complete, and
   none is lost between setStatus() and setCallback(). *)
THEOREM CallbacksAreRun == ASSUME Callbacks!HistoriesAreSane
    PROVE Callbacks!Spec => []Callbacks!CallbacksRun
<1>1. EventInv => Callbacks!CallbacksRun BY InvImpliesRun
<1> QED BY <1>1, Invariance, PTL

----------------------------------------
(* Proofs about the pool the commands are allocated from, for any number of
   threads, any size of a chunk and of the ring: as long as no thread stays
   between slot and object while the ring goes round, every slot is handed
   out once, in a chunk that exists, and a chunk is deleted once, when its
   objects are gone. *)

(* The numbers of the slots of chunk c. *)
Of(c) == ChunkSize * c .. ChunkSize * c + ChunkSize - 1

(* Thread t has taken a slot and not yet its object. *)
Pending(t) == step[t] \in {"test", "lock", "publish", "find", "base"}

(* The slots of chunk c whose object was handed out. *)
Gone(c) == {n \in 0 .. currentAlloc - 1 :
              n \div ChunkSize = c /\ ~\E t \in Users : Pending(t) /\ slot[t] = n}

(* The objects of chunk c that are in use. *)
Living(c) == {o \in live : o.base = c}

(* The chunks that were created are those below Top. *)
Top == IF holder = NoChunk THEN maxChunk ELSE maxChunk + 1

(* The counters of a chunk. *)
Counts ==
  /\ IsFiniteSet(live)
  /\ \A c \in Objects!Chunks : /\ busy[c] = Cardinality(Gone(c))
                       /\ free[c] = ChunkSize - busy[c] + Cardinality(Living(c))

(* The lock, and how a slot stands to the chunks. *)
Taken ==
  /\ \A t \in Users : step[t] = "publish" <=> holder = t
  /\ \A t \in Users : Pending(t) =>
        /\ slot[t] < currentAlloc /\ Top - Objects!Idx(t) < ActiveSize
        /\ \A u \in Users : Pending(u) /\ slot[u] = slot[t] => u = t
  /\ \A t \in Users : /\ step[t] \in {"find", "base"} => Objects!Idx(t) < maxChunk
                      /\ step[t] = "publish" => Objects!Idx(t) = maxChunk
                      /\ step[t] = "base" => object[t] = Objects!Idx(t)
  /\ Top > 0 => /\ 1 < ActiveSize /\ 0 < currentAlloc
                /\ Top <= (currentAlloc - 1) \div ChunkSize + 1

(* The ring shows the last ActiveSize chunks, unless all their objects are
   gone. *)
Ring ==
  /\ \A i \in 0 .. ActiveSize - 1 : active[i] # NoChunk =>
        /\ active[i] \in existing /\ active[i] % ActiveSize = i
        /\ Top - active[i] <= ActiveSize
  /\ \A c \in Objects!Chunks : c < Top /\ Top - c <= ActiveSize /\ free[c] # 0 =>
        active[c % ActiveSize] = c

(* A chunk exists until the thread that freed its last object deletes it. *)
Alive ==
  /\ \A c \in existing : c < Top
  /\ \A c \in Objects!Chunks : c < Top /\ free[c] # 0 => c \in existing
  /\ \A c \in existing : free[c] = 0 =>
        \E t \in Users : step[t] \in {"unlist", "delete"} /\ object[t] = c
  /\ \A t \in Users : step[t] \in {"unlist", "delete"} =>
        /\ object[t] \in existing /\ free[object[t]] = 0
        /\ \A u \in Users : step[u] \in {"unlist", "delete"} /\ object[u] = object[t] => u = t
  /\ \A t \in Users : step[t] = "delete" =>
        \A i \in 0 .. ActiveSize - 1 : active[i] # object[t]

(* An object in use has a slot of its own in a chunk that exists. *)
InUse ==
  \A o \in live : /\ o.chunk = o.base /\ o.chunk \in existing
                  /\ \E n \in Gone(o.chunk) : n % ChunkSize = o.slot

Good == Counts /\ Taken /\ Ring /\ Alive /\ InUse

PoolInv == Objects!TypeOK /\ (~stalled => Good)

----------------------------------------
(* The arithmetic of slots and chunks. *)
LEMMA Division ==
  ASSUME NEW k \in Nat \ {0}, NEW n \in Nat
  PROVE  n \div k \in Nat /\ n % k \in 0 .. k - 1 /\ n = k * (n \div k) + (n % k)
OBVIOUS

(* A number is the only one with its quotient and its remainder, and
   quotients grow with the numbers. *)
LEMMA Quotients ==
  ASSUME NEW k \in Nat \ {0}, NEW n \in Nat, NEW m \in Nat
  PROVE  /\ n \div k = m \div k /\ n % k = m % k => n = m
         /\ m <= n => m \div k <= n \div k
OBVIOUS

(* Numbers with the same remainder are far apart. *)
LEMMA Apart ==
  ASSUME NEW k \in Nat \ {0}, NEW n \in Nat, NEW m \in Nat, n % k = m % k, m < n
  PROVE  n - m >= k
<1> DEFINE a == n \div k
           b == m \div k
           r == n % k
<1>1. a \in Nat /\ n % k \in 0 .. k - 1 /\ n = k * a + (n % k) BY Division
<1>2. b \in Nat /\ m = k * b + (m % k) BY Division
<1>7. r \in Nat /\ n = k * a + r /\ m = k * b + r BY <1>1, <1>2
<1> HIDE DEF a, b, r
<1>3. k * b < k * a BY <1>1, <1>2, <1>7
<1>4. a > b BY <1>1, <1>2, <1>3
<1> DEFINE d == a - b - 1
<1>5. d \in Nat /\ k * a = k * b + k + k * d BY <1>1, <1>2, <1>4
<1>6. k * d >= 0 BY <1>5
<1> HIDE DEF d
<1> QED BY <1>1, <1>2, <1>7, <1>5, <1>6

(* A number that is k behind has the same remainder. *)
LEMMA Behind ==
  ASSUME NEW k \in Nat \ {0}, NEW n \in Nat, NEW m \in Nat, n - m = k
  PROVE  n % k = m % k
<1> DEFINE b == m \div k
           r == m % k
<1>1. b \in Nat /\ r \in 0 .. k - 1 /\ m = k * b + r BY Division
<1> HIDE DEF b, r
<1>2. n = k * (b + 1) + r BY <1>1
<1>3. n % k = r BY <1>1, <1>2
<1> QED BY <1>3 DEF r

(* A chunk has ChunkSize slots. *)
LEMMA ChunkSlots ==
  ASSUME Objects!PoolAssumption, NEW c \in Nat
  PROVE  /\ IsFiniteSet(Of(c)) /\ Cardinality(Of(c)) = ChunkSize
         /\ \A n \in Nat : n \in Of(c) <=> n \div ChunkSize = c
         /\ Of(c) \subseteq Nat
<1> USE DEF Objects!PoolAssumption
<1>1. /\ ChunkSize * c \in Nat
      /\ ChunkSize * c \in Int /\ ChunkSize * c + ChunkSize - 1 \in Int
      /\ ChunkSize * c <= ChunkSize * c + ChunkSize - 1
  OBVIOUS
<1> DEFINE a == ChunkSize * c
           b == ChunkSize * c + ChunkSize - 1
<1>2. IsFiniteSet(a .. b) /\ Cardinality(a .. b) = IF a > b THEN 0 ELSE b - a + 1 BY <1>1, FS_Interval
<1>3. b - a + 1 = ChunkSize BY <1>1
<1>4. IsFiniteSet(Of(c)) /\ Cardinality(Of(c)) = ChunkSize BY <1>1, <1>2, <1>3 DEF Of
<1>5. \A n \in Nat : n \in Of(c) => n \div ChunkSize = c BY DEF Of
<1>6. \A n \in Nat : n \div ChunkSize = c => n \in Of(c) BY DEF Of
<1>7. Of(c) \subseteq Nat BY <1>1 DEF Of
<1> QED BY <1>4, <1>5, <1>6, <1>7

----------------------------------------
(* What follows from the invariant in a state. *)
LEMMA PoolTypes ==
  ASSUME Objects!PoolAssumption, Objects!TypeOK
  PROVE  /\ \A t \in Users : slot[t] \in Nat /\ Objects!Idx(t) \in Nat /\ Objects!Idx(t) \in Objects!Chunks
         /\ \A n \in Objects!Slots : n \div ChunkSize \in Objects!Chunks
         /\ Objects!Chunks \subseteq Nat /\ NoChunk \notin Nat /\ NoChunk \notin Users
         /\ \A c \in Nat : c % ActiveSize \in 0 .. ActiveSize - 1
         /\ Top \in Nat
<1> USE DEF Objects!PoolAssumption
<1>1. \A n \in Objects!Slots : n \in Nat /\ n \div ChunkSize \in Objects!Chunks
  <2> SUFFICES ASSUME NEW n \in Objects!Slots
               PROVE n \in Nat /\ n \div ChunkSize \in Objects!Chunks
    OBVIOUS
  <2>1. n \in Nat /\ MaxAlloc \in Nat /\ n <= MaxAlloc BY DEF Objects!Slots
  <2>2. n \div ChunkSize <= MaxAlloc \div ChunkSize BY <2>1, Quotients
  <2>3. n \div ChunkSize \in Nat /\ MaxAlloc \div ChunkSize \in Nat BY <2>1, Division
  <2> QED BY <2>1, <2>2, <2>3 DEF Objects!Chunks
<1>2. Objects!Chunks \subseteq Nat BY DEF Objects!Chunks
<1>3. \A t \in Users : slot[t] \in Objects!Slots BY DEF Objects!TypeOK
<1>4. Top \in Nat BY DEF Top, Objects!TypeOK
<1>5. \A c \in Nat : c % ActiveSize \in 0 .. ActiveSize - 1 BY Division
<1> QED BY <1>1, <1>2, <1>3, <1>4, <1>5 DEF Objects!Idx

(* What was handed out of a chunk is some of its slots. *)
LEMMA GoneFacts ==
  ASSUME Objects!PoolAssumption, Objects!TypeOK, NEW c \in Nat
  PROVE  /\ Gone(c) \subseteq Of(c) /\ IsFiniteSet(Gone(c))
         /\ Cardinality(Gone(c)) \in Nat /\ Cardinality(Gone(c)) <= ChunkSize
         /\ Cardinality(Gone(c)) = ChunkSize => Gone(c) = Of(c)
<1>1. Gone(c) \subseteq Of(c)
  <2>1. \A n \in Gone(c) : n \in Nat /\ n \div ChunkSize = c BY DEF Gone, Objects!TypeOK
  <2> QED BY <2>1, ChunkSlots
<1>2. IsFiniteSet(Of(c)) /\ Cardinality(Of(c)) = ChunkSize BY ChunkSlots
<1>3. /\ IsFiniteSet(Gone(c)) /\ Cardinality(Gone(c)) <= Cardinality(Of(c))
      /\ Cardinality(Of(c)) = Cardinality(Gone(c)) => Gone(c) = Of(c)
  BY <1>1, <1>2, FS_Subset
<1>4. Cardinality(Gone(c)) \in Nat BY <1>3, FS_CardinalityType
<1> QED BY <1>1, <1>2, <1>3, <1>4

(* A chunk in which a thread has a slot, or an object in use, is not freed
   yet; nor is one that was created but not used up. *)
LEMMA Unfreed ==
  ASSUME Objects!PoolAssumption, Objects!TypeOK, Counts, NEW c \in Objects!Chunks
  PROVE  /\ IsFiniteSet(Living(c)) /\ Cardinality(Living(c)) \in Nat
         /\ free[c] = 0 => Living(c) = {} /\ Gone(c) = Of(c)
         /\ free[c] \in Nat
         /\ \A t \in Users : Pending(t) /\ Objects!Idx(t) = c => free[c] # 0
<1> c \in Nat BY PoolTypes
<1>1. IsFiniteSet(Living(c))
  <2>1. Living(c) \subseteq live /\ IsFiniteSet(live) BY DEF Living, Counts
  <2> QED BY <2>1, FS_Subset
<1>2. Cardinality(Living(c)) \in Nat BY <1>1, FS_CardinalityType
<1>3. /\ Cardinality(Gone(c)) \in Nat /\ Cardinality(Gone(c)) <= ChunkSize
      /\ Cardinality(Gone(c)) = ChunkSize => Gone(c) = Of(c)
  BY GoneFacts
<1>4. free[c] = ChunkSize - Cardinality(Gone(c)) + Cardinality(Living(c)) BY DEF Counts
<1>5. free[c] \in Nat BY <1>2, <1>3, <1>4 DEF Objects!PoolAssumption
<1>6. ASSUME free[c] = 0 PROVE Living(c) = {} /\ Gone(c) = Of(c)
  <2>1. Cardinality(Living(c)) = 0 /\ Cardinality(Gone(c)) = ChunkSize
    BY <1>2, <1>3, <1>4, <1>6 DEF Objects!PoolAssumption
  <2>2. Living(c) = {} BY <1>1, <2>1, FS_EmptySet
  <2> QED BY <1>3, <2>1, <2>2
<1>7. ASSUME NEW t \in Users, Pending(t), Objects!Idx(t) = c, free[c] = 0 PROVE FALSE
  <2>1. slot[t] \in Of(c) BY <1>7, PoolTypes, ChunkSlots DEF Objects!Idx
  <2>2. slot[t] \notin Gone(c) BY <1>7 DEF Gone
  <2> QED BY <1>6, <1>7, <2>1, <2>2
<1> QED BY <1>1, <1>2, <1>5, <1>6, <1>7

(* A thread that has found its chunk created sees it in the ring. *)
LEMMA Shown ==
  ASSUME Objects!PoolAssumption, Objects!TypeOK, Counts, Taken, Ring, NEW t \in Users,
         Pending(t), Objects!Idx(t) < Top
  PROVE  Objects!Entry(t) = Objects!Idx(t)
<1>1. Objects!Idx(t) \in Objects!Chunks /\ Objects!Idx(t) \in Nat /\ Top \in Nat BY PoolTypes
<1>2. free[Objects!Idx(t)] # 0 BY <1>1, Unfreed
<1>3. Top - Objects!Idx(t) <= ActiveSize BY <1>1 DEF Taken, Objects!PoolAssumption
<1> QED BY <1>1, <1>2, <1>3 DEF Ring, Objects!Entry

(* The promise follows. *)
LEMMA InvImpliesSafe == ASSUME Objects!PoolAssumption, PoolInv PROVE Objects!SlotsAreSafe
<1> SUFFICES ASSUME ~stalled
             PROVE Objects!RingIsLive /\ Objects!OneChunk /\ Objects!Exclusive /\ Objects!Reclaimed
  BY DEF Objects!SlotsAreSafe
<1> Objects!TypeOK /\ Counts /\ Taken /\ Ring /\ Alive /\ InUse BY DEF PoolInv, Good
<1>1. Objects!RingIsLive BY DEF Objects!RingIsLive, Ring, Objects!TypeOK
<1>2. \A t \in Users : step[t] \in {"find", "base"} => Objects!Entry(t) = Objects!Idx(t)
  <2> SUFFICES ASSUME NEW t \in Users, step[t] \in {"find", "base"}
               PROVE Objects!Entry(t) = Objects!Idx(t)
    OBVIOUS
  <2>1. Pending(t) /\ Objects!Idx(t) < Top
    <3>1. Objects!Idx(t) < maxChunk /\ Objects!Idx(t) \in Nat BY PoolTypes DEF Taken
    <3> QED BY <3>1 DEF Pending, Top, Objects!TypeOK
  <2> QED BY <2>1, Shown
<1>3. Objects!OneChunk BY <1>2 DEF Objects!OneChunk, Taken
<1>4. \A o \in live : /\ o.chunk = o.base /\ o.chunk \in existing /\ o.chunk \in Objects!Chunks
                      /\ \E n \in Gone(o.chunk) : n % ChunkSize = o.slot
  BY DEF InUse, Objects!TypeOK
<1>5. \A o, p \in live : o.chunk = p.chunk /\ o.slot = p.slot => o = p
  <2> SUFFICES ASSUME NEW o \in live, NEW p \in live, o.chunk = p.chunk, o.slot = p.slot
               PROVE o = p
    OBVIOUS
  <2>1. o.base = p.base BY <1>4
  <2>2. \A x \in live : x \in [chunk : Objects!Pointers, slot : 0 .. ChunkSize - 1, base : Objects!Pointers]
    BY DEF Objects!TypeOK
  <2> QED BY <2>1, <2>2
<1>6. ASSUME NEW t \in Users, step[t] = "base", NEW o \in live,
             o.chunk = object[t], o.slot = slot[t] % ChunkSize
      PROVE  FALSE
  <2>1. o.chunk = Objects!Idx(t) /\ slot[t] \in Nat /\ o.chunk \in Nat BY <1>4, <1>6, PoolTypes DEF Taken
  <2>2. PICK n \in Gone(o.chunk) : n % ChunkSize = slot[t] % ChunkSize BY <1>4, <1>6
  <2>3. n \in Nat /\ n \div ChunkSize = slot[t] \div ChunkSize
    BY <2>1 DEF Gone, Objects!TypeOK, Objects!Idx
  <2>4. n = slot[t] BY <2>1, <2>2, <2>3, Quotients DEF Objects!PoolAssumption
  <2> QED BY <1>6, <2>2, <2>4 DEF Gone, Pending
<1>7. Objects!Exclusive BY <1>4, <1>5, <1>6 DEF Objects!Exclusive
<1>8. Objects!Reclaimed BY DEF Objects!Reclaimed, Alive
<1> QED BY <1>1, <1>3, <1>7, <1>8

----------------------------------------
(* In the beginning no slot is taken and no chunk exists. *)
LEMMA PoolInitInv == ASSUME Objects!PoolAssumption, Objects!Init PROVE PoolInv
<1> USE DEF Objects!PoolAssumption
<1>1. Objects!TypeOK
  <2>1. Objects!Chunks \subseteq Nat /\ 0 \in Objects!Slots BY DEF Objects!Chunks, Objects!Slots
  <2>2. /\ currentAlloc \in 0 .. MaxAlloc /\ maxChunk \in Nat
        /\ active \in [0 .. ActiveSize - 1 -> Objects!Pointers]
        /\ busy \in [Objects!Chunks -> Nat] /\ free \in [Objects!Chunks -> Int]
    BY DEF Objects!Init, Objects!Pointers
  <2>3. /\ slot \in [Users -> Objects!Slots] /\ object \in [Users -> Objects!Pointers]
        /\ step \in [Users -> {"idle", "test", "lock", "publish", "find", "base",
                               "unlist", "delete"}]
    BY <2>1 DEF Objects!Init, Objects!Pointers
  <2>4. /\ existing \subseteq Objects!Chunks /\ holder \in Users \cup {NoChunk} /\ stalled \in BOOLEAN
        /\ live \subseteq [chunk : Objects!Pointers, slot : 0 .. ChunkSize - 1, base : Objects!Pointers]
    BY DEF Objects!Init
  <2> QED BY <2>2, <2>3, <2>4 DEF Objects!TypeOK
<1>2. \A c \in Objects!Chunks : Gone(c) = {} /\ Living(c) = {} /\ ~(c < Top)
  BY PoolTypes, <1>1 DEF Objects!Init, Gone, Living, Top
<1>3. Counts
  <2>1. IsFiniteSet({}) /\ Cardinality({}) = 0 BY FS_EmptySet
  <2> QED
    <3>1. IsFiniteSet(live) BY <2>1 DEF Objects!Init
    <3>2. ASSUME NEW c \in Objects!Chunks
          PROVE  /\ busy[c] = Cardinality(Gone(c))
                 /\ free[c] = ChunkSize - busy[c] + Cardinality(Living(c))
      <4>1. Cardinality(Gone(c)) = 0 /\ Cardinality(Living(c)) = 0 BY <1>2, <2>1
      <4>2. busy[c] = 0 /\ free[c] = ChunkSize BY DEF Objects!Init
      <4> QED BY <4>1, <4>2
    <3> QED BY <3>1, <3>2 DEF Counts
<1>4. Taken BY DEF Objects!Init, Taken, Pending, Top
<1>5. Ring BY <1>2 DEF Objects!Init, Ring
<1>6. Alive /\ InUse BY <1>2 DEF Objects!Init, Alive, InUse
<1> QED BY <1>1, <1>3, <1>4, <1>5, <1>6 DEF PoolInv, Good

(* The variables keep their types. *)
LEMMA PoolTypeStep == ASSUME Objects!PoolAssumption, Objects!TypeOK,
    [Objects!Next]_(Objects!vars) PROVE Objects!TypeOK'
<1> USE DEF Objects!PoolAssumption
<1>1. CASE UNCHANGED Objects!vars BY <1>1 DEF Objects!vars, Objects!TypeOK
<1> DEFINE Labels == {"idle", "test", "lock", "publish", "find", "base", "unlist", "delete"}
<1>2. ASSUME NEW t \in Users, NEW l \in Labels, Objects!Go(t, l)
      PROVE step' \in [Users -> Labels]
  BY <1>2 DEF Objects!Go, Objects!TypeOK
<1>3. ASSUME NEW t \in Users, Objects!Take(t)
      PROVE  /\ currentAlloc' \in 0 .. MaxAlloc /\ slot' \in [Users -> Objects!Slots]
             /\ step' \in [Users -> Labels]
  BY <1>2, <1>3 DEF Objects!Take, Objects!TypeOK, Objects!Slots
<1>4. \A i \in Nat : i % ActiveSize \in 0 .. ActiveSize - 1 BY Division
<1>5. ASSUME NEW t \in Users, Objects!Claim(t) \/ Objects!DropSlot(t)
      PROVE Objects!TypeOK'
  BY <1>3, <1>5 DEF Objects!Claim, Objects!DropSlot, Objects!TypeOK
<1>6. ASSUME NEW t \in Users, Objects!Test(t) \/ Objects!LookAgain(t)
      PROVE Objects!TypeOK'
  <2>1. step' \in [Users -> Labels] BY <1>2, <1>6 DEF Objects!Test, Objects!LookAgain
  <2> QED BY <1>6, <2>1 DEF Objects!Test, Objects!LookAgain, Objects!TypeOK
<1>7. ASSUME NEW t \in Users, Objects!Create(t) PROVE Objects!TypeOK'
  <2>1. /\ step' \in [Users -> Labels] /\ active' = [active EXCEPT ![Objects!Idx(t) % ActiveSize] = Objects!Idx(t)]
        /\ holder' = t /\ stalled' = (stalled \/ Objects!Overtaken(maxChunk))
        /\ UNCHANGED <<currentAlloc, maxChunk, busy, free, live, slot, object>>
        /\ existing' \subseteq existing \cup {Objects!Idx(t)}
    BY <1>2, <1>7 DEF Objects!Create
  <2>2. Objects!Idx(t) \in Objects!Chunks /\ Objects!Overtaken(maxChunk) \in BOOLEAN
    BY PoolTypes DEF Objects!Overtaken
  <2>3. stalled' \in BOOLEAN BY <2>1, <2>2 DEF Objects!TypeOK
  <2> QED BY <2>1, <2>2, <2>3 DEF Objects!TypeOK, Objects!Pointers
<1>8. ASSUME NEW t \in Users, Objects!Publish(t) PROVE Objects!TypeOK'
  <2>1. step' \in [Users -> Labels] BY <1>2, <1>8 DEF Objects!Publish
  <2> QED BY <1>8, <2>1 DEF Objects!Publish, Objects!TypeOK
<1>9. ASSUME NEW t \in Users PROVE Objects!Entry(t) \in Objects!Pointers
  BY <1>4, PoolTypes DEF Objects!Entry, Objects!TypeOK
<1>10. ASSUME NEW t \in Users, Objects!Find(t) PROVE Objects!TypeOK'
  <2>1. step' \in [Users -> Labels] BY <1>2, <1>10 DEF Objects!Find
  <2> QED BY <1>9, <1>10, <2>1 DEF Objects!Find, Objects!TypeOK
<1>11. ASSUME NEW t \in Users, Objects!SetBase(t) PROVE Objects!TypeOK'
  <2>1. /\ step' \in [Users -> Labels] /\ slot' = [slot EXCEPT ![t] = 0]
        /\ object' = [object EXCEPT ![t] = NoChunk]
        /\ live' = live \cup {[chunk |-> object[t], slot |-> slot[t] % ChunkSize,
                               base |-> Objects!Entry(t)]}
        /\ UNCHANGED <<currentAlloc, maxChunk, active, free, existing, holder, stalled>>
    BY <1>2, <1>11 DEF Objects!SetBase
  <2>2. busy' \in [Objects!Chunks -> Nat]
    <3>1. CASE Objects!Entry(t) = NoChunk BY <1>11, <3>1 DEF Objects!SetBase, Objects!TypeOK
    <3>2. CASE Objects!Entry(t) # NoChunk
      <4>1. busy' = [busy EXCEPT ![Objects!Entry(t)] = @ + 1] /\ Objects!Entry(t) \in Objects!Chunks
        BY <1>9, <1>11, <3>2 DEF Objects!SetBase, Objects!Pointers
      <4> QED BY <4>1 DEF Objects!TypeOK
    <3> QED BY <3>1, <3>2
  <2>3. slot[t] % ChunkSize \in 0 .. ChunkSize - 1 /\ object[t] \in Objects!Pointers
    BY PoolTypes, Division DEF Objects!TypeOK
  <2>4. /\ live' \subseteq [chunk : Objects!Pointers, slot : 0 .. ChunkSize - 1, base : Objects!Pointers]
        /\ object' \in [Users -> Objects!Pointers]
    BY <1>9, <2>1, <2>3 DEF Objects!TypeOK, Objects!Pointers
  <2>5. slot' \in [Users -> Objects!Slots] BY <2>1 DEF Objects!TypeOK, Objects!Slots
  <2> QED BY <2>1, <2>2, <2>4, <2>5 DEF Objects!TypeOK
<1>12. ASSUME NEW t \in Users, Objects!Release(t) PROVE Objects!TypeOK'
  <2>1. PICK o \in live :
          /\ o.base # NoChunk /\ live' = live \ {o} /\ free' = [free EXCEPT ![o.base] = @ - 1]
          /\ IF free[o.base] = 1
               THEN object' = [object EXCEPT ![t] = o.base] /\ Objects!Go(t, "unlist")
               ELSE UNCHANGED <<object, step>>
    BY <1>12 DEF Objects!Release
  <2>2. o.base \in Objects!Pointers /\ o.base \in Objects!Chunks
    BY <2>1 DEF Objects!TypeOK, Objects!Pointers
  <2>3. free' \in [Objects!Chunks -> Int] /\ object' \in [Users -> Objects!Pointers] /\ step' \in [Users -> Labels]
    <3>1. free' \in [Objects!Chunks -> Int] BY <2>1, <2>2 DEF Objects!TypeOK
    <3>2. CASE free[o.base] = 1
      <4>1. object' = [object EXCEPT ![t] = o.base] /\ Objects!Go(t, "unlist") BY <2>1, <3>2
      <4> QED BY <1>2, <2>2, <3>1, <4>1 DEF Objects!TypeOK
    <3>3. CASE free[o.base] # 1 BY <2>1, <3>1, <3>3 DEF Objects!TypeOK
    <3> QED BY <3>2, <3>3
  <2> QED BY <1>12, <2>1, <2>3 DEF Objects!Release, Objects!TypeOK
<1>13. ASSUME NEW t \in Users, Objects!Unlist(t) PROVE Objects!TypeOK'
  <2>1. step' \in [Users -> Labels] BY <1>2, <1>13 DEF Objects!Unlist
  <2>2. active' \in [0 .. ActiveSize - 1 -> Objects!Pointers]
    BY <1>13 DEF Objects!Unlist, Objects!TypeOK, Objects!Pointers
  <2> QED BY <1>13, <2>1, <2>2 DEF Objects!Unlist, Objects!TypeOK
<1>14. ASSUME NEW t \in Users, Objects!Delete(t) PROVE Objects!TypeOK'
  <2>1. step' \in [Users -> Labels] BY <1>2, <1>14 DEF Objects!Delete
  <2> QED BY <1>14, <2>1 DEF Objects!Delete, Objects!TypeOK, Objects!Pointers
<1> QED BY <1>1, <1>5, <1>6, <1>7, <1>8, <1>10, <1>11, <1>12, <1>13, <1>14 DEF Objects!Next

----------------------------------------
(* A thread goes on to its next step. *)
LEMMA GoFacts ==
  ASSUME Objects!TypeOK, NEW t \in Users, NEW l, Objects!Go(t, l)
  PROVE  step'[t] = l /\ \A u \in Users \ {t} : step'[u] = step[u]
BY DEF Objects!Go, Objects!TypeOK

(* What was handed out stays the same when nobody takes or uses a slot. *)
LEMMA CountsKept ==
  ASSUME UNCHANGED <<currentAlloc, slot>>, \A u \in Users : Pending(u)' <=> Pending(u)
  PROVE  /\ \A c : Gone(c)' = Gone(c)
         /\ UNCHANGED <<busy, free, live>> /\ Counts => Counts'
<1>1. \A c : Gone(c)' = Gone(c) BY DEF Gone
<1>2. ASSUME UNCHANGED <<busy, free, live>>, Counts PROVE Counts' BY <1>1, <1>2 DEF Counts, Living
<1> QED BY <1>1, <1>2

(* Test, LookAgain and Find: a thread looks for its chunk. *)
LEMMA Looking ==
  ASSUME Objects!PoolAssumption, Objects!TypeOK, Good, NEW t \in Users,
         NEW l \in {"test", "lock", "find", "base"},
         step[t] \in {"test", "lock", "find"}, Objects!Go(t, l),
         l \in {"find", "base"} => Objects!Idx(t) < maxChunk,
         \/ l # "base" /\ UNCHANGED object
         \/ l = "base" /\ object' = [object EXCEPT ![t] = Objects!Idx(t)],
         UNCHANGED <<currentAlloc, maxChunk, active, busy, free, existing, live, slot, holder>>
  PROVE  Good'
<1> Counts /\ Taken /\ Ring /\ Alive /\ InUse BY DEF Good
<1>1. step'[t] = l /\ \A u \in Users \ {t} : step'[u] = step[u] /\ object'[u] = object[u]
  BY GoFacts DEF Objects!TypeOK
<1>2. \A u \in Users : Pending(u)' <=> Pending(u) BY <1>1 DEF Pending
<1>3. Counts' /\ \A c : Gone(c)' = Gone(c) BY <1>2, CountsKept
<1>4. \A u \in Users : Objects!Idx(u)' = Objects!Idx(u) /\ UNCHANGED Top BY DEF Objects!Idx, Top
<1>5. l = "base" => object'[t] = Objects!Idx(t) BY DEF Objects!TypeOK
<1>6. Taken'
  <2>1. \A u \in Users : step'[u] = "publish" <=> holder' = u BY <1>1 DEF Taken
  <2>2. \A u \in Users : Pending(u)' =>
          /\ slot'[u] < currentAlloc' /\ Top' - Objects!Idx(u)' < ActiveSize
          /\ \A v \in Users : Pending(v)' /\ slot'[v] = slot'[u] => v = u
    BY <1>2, <1>4 DEF Taken
  <2>3. \A u \in Users : /\ step'[u] \in {"find", "base"} => Objects!Idx(u)' < maxChunk'
                         /\ step'[u] = "publish" => Objects!Idx(u)' = maxChunk'
                         /\ step'[u] = "base" => object'[u] = Objects!Idx(u)'
    BY <1>1, <1>4, <1>5 DEF Taken
  <2>4. Top' > 0 => /\ 1 < ActiveSize /\ 0 < currentAlloc'
                    /\ Top' <= (currentAlloc' - 1) \div ChunkSize + 1
    BY <1>4 DEF Taken
  <2> QED BY <2>1, <2>2, <2>3, <2>4 DEF Taken
<1>7. Ring' BY <1>4 DEF Ring
<1>8. Alive' BY <1>1, <1>4 DEF Alive
<1>9. InUse' BY <1>3 DEF InUse
<1> QED BY <1>3, <1>6, <1>7, <1>8, <1>9 DEF Good

(* The three of them keep the invariant. *)
LEMMA LookingSteps ==
  ASSUME Objects!PoolAssumption, Objects!TypeOK, Good, NEW t \in Users,
         Objects!Test(t) \/ Objects!LookAgain(t) \/ Objects!Find(t)
  PROVE  Good'
<1> Counts /\ Taken /\ Ring /\ Alive /\ InUse BY DEF Good
<1>1. CASE Objects!Test(t)
  <2>1. Objects!Idx(t) >= maxChunk \/ Objects!Idx(t) < maxChunk BY PoolTypes DEF Objects!TypeOK
  <2>2. \E l \in {"lock", "find"} : Objects!Go(t, l) /\ (l = "find" => Objects!Idx(t) < maxChunk)
    BY <1>1, <2>1 DEF Objects!Test
  <2> QED BY <1>1, <2>2, Looking DEF Objects!Test
<1>2. CASE Objects!LookAgain(t) BY <1>2, Looking DEF Objects!LookAgain
<1>3. CASE Objects!Find(t)
  <2>1. Objects!Idx(t) < maxChunk /\ Objects!Idx(t) \in Nat BY <1>3, PoolTypes DEF Objects!Find, Taken
  <2>2. Objects!Idx(t) < Top BY <2>1 DEF Top, Objects!TypeOK
  <2>3. Objects!Entry(t) = Objects!Idx(t) BY <1>3, <2>2, Shown DEF Objects!Find, Pending
  <2> QED BY <1>3, <2>1, <2>3, Looking DEF Objects!Find
<1> QED BY <1>1, <1>2, <1>3

(* A thread takes the next slot. *)
LEMMA ClaimStep ==
  ASSUME Objects!PoolAssumption, Objects!TypeOK, Good, NEW t \in Users, Objects!Claim(t)
  PROVE  Good'
<1> USE DEF Objects!PoolAssumption
<1> Counts /\ Taken /\ Ring /\ Alive /\ InUse BY DEF Good
<1>1. /\ step[t] = "idle" /\ slot' = [slot EXCEPT ![t] = currentAlloc]
      /\ currentAlloc' = currentAlloc + 1 /\ Objects!Go(t, "test")
      /\ UNCHANGED <<maxChunk, active, busy, free, existing, live, object, holder>>
  BY DEF Objects!Claim, Objects!Take
<1>2. /\ step'[t] = "test" /\ slot'[t] = currentAlloc /\ currentAlloc \in Nat
      /\ \A u \in Users \ {t} : step'[u] = step[u] /\ slot'[u] = slot[u]
  BY <1>1, GoFacts DEF Objects!TypeOK
<1>3. \A u \in Users : slot[u] \in Nat BY PoolTypes
<1>4. /\ Pending(t)' /\ ~Pending(t)
      /\ \A u \in Users \ {t} : (Pending(u)' <=> Pending(u)) /\ Objects!Idx(u)' = Objects!Idx(u)
      /\ \A u \in Users \ {t} : Pending(u) => slot[u] < currentAlloc
  BY <1>1, <1>2 DEF Pending, Objects!Idx, Taken
<1>5. ASSUME NEW c PROVE Gone(c)' = Gone(c)
  <2>1. \A n \in 0 .. currentAlloc - 1 :
          (\E u \in Users : Pending(u)' /\ slot'[u] = n)
             <=> \E u \in Users : Pending(u) /\ slot[u] = n
    BY <1>2, <1>4
  <2>2. 0 .. currentAlloc' - 1 = (0 .. currentAlloc - 1) \cup {currentAlloc} BY <1>1, <1>2
  <2>3. \E u \in Users : Pending(u)' /\ slot'[u] = currentAlloc BY <1>2, <1>4
  <2> QED BY <2>1, <2>2, <2>3 DEF Gone
<1>6. Counts' BY <1>1, <1>5 DEF Counts, Living
<1>7. UNCHANGED Top BY <1>1 DEF Top
<1>8. Taken'
  <2>1. \A u \in Users : step'[u] = "publish" <=> holder' = u BY <1>1, <1>2 DEF Taken
  <2>2. currentAlloc \div ChunkSize \in Nat /\ Objects!Idx(t)' = currentAlloc \div ChunkSize /\ Top \in Nat
    BY <1>2, Division, PoolTypes DEF Objects!Idx
  <2>3. Top > 0 => /\ 1 < ActiveSize /\ 0 < currentAlloc
                   /\ Top <= currentAlloc \div ChunkSize + 1
    <3>1. ASSUME Top > 0
          PROVE  currentAlloc - 1 \in Nat
                 /\ (currentAlloc - 1) \div ChunkSize <= currentAlloc \div ChunkSize
                 /\ (currentAlloc - 1) \div ChunkSize \in Nat
      <4>1. currentAlloc - 1 \in Nat /\ currentAlloc - 1 <= currentAlloc BY <1>2, <3>1 DEF Taken
      <4> QED BY <1>2, <4>1, Quotients, Division
    <3> QED BY <2>2, <3>1 DEF Taken
  <2>4. Top - Objects!Idx(t)' < ActiveSize BY <2>2, <2>3
  <2>5. \A u \in Users : Pending(u)' =>
          /\ slot'[u] < currentAlloc' /\ Top' - Objects!Idx(u)' < ActiveSize
          /\ \A v \in Users : Pending(v)' /\ slot'[v] = slot'[u] => v = u
    <3>1. \A u \in Users \ {t} : Pending(u)' =>
            slot'[u] < currentAlloc' /\ Top' - Objects!Idx(u)' < ActiveSize /\ slot'[u] # slot'[t]
      BY <1>1, <1>2, <1>3, <1>4, <1>7 DEF Taken
    <3>2. \A u, v \in Users \ {t} : Pending(u)' /\ Pending(v)' /\ slot'[v] = slot'[u] => v = u
      BY <1>2, <1>4 DEF Taken
    <3>3. slot'[t] < currentAlloc' /\ Top' - Objects!Idx(t)' < ActiveSize BY <1>1, <1>2, <1>7, <2>4
    <3> QED BY <3>1, <3>2, <3>3
  <2>6. \A u \in Users : /\ step'[u] \in {"find", "base"} => Objects!Idx(u)' < maxChunk'
                         /\ step'[u] = "publish" => Objects!Idx(u)' = maxChunk'
                         /\ step'[u] = "base" => object'[u] = Objects!Idx(u)'
    BY <1>1, <1>2, <1>4 DEF Taken
  <2>7. Top' > 0 => /\ 1 < ActiveSize /\ 0 < currentAlloc'
                    /\ Top' <= (currentAlloc' - 1) \div ChunkSize + 1
    <3>1. currentAlloc' - 1 = currentAlloc BY <1>1, <1>2
    <3> QED BY <1>1, <1>2, <1>7, <2>3, <3>1
  <2> QED BY <2>1, <2>5, <2>6, <2>7 DEF Taken
<1>9. Ring' BY <1>1, <1>7 DEF Ring
<1>10. Alive' BY <1>1, <1>2, <1>7 DEF Alive
<1>11. InUse' BY <1>1, <1>5 DEF InUse
<1> QED BY <1>6, <1>8, <1>9, <1>10, <1>11 DEF Good

(* The chunk that a new one replaces in the ring has handed out all its
   slots: nothing is deleted. *)
LEMMA NothingStale ==
  ASSUME Objects!PoolAssumption, Objects!TypeOK, Good, NEW t \in Users, Objects!Create(t),
         ~Objects!Overtaken(maxChunk),
         Objects!Entry(t) # NoChunk
  PROVE  busy[Objects!Entry(t)] = ChunkSize
<1> USE DEF Objects!PoolAssumption
<1> Counts /\ Taken /\ Ring /\ Alive /\ InUse BY DEF Good
<1> DEFINE s == Objects!Entry(t)
<1>1. step[t] = "lock" /\ holder = NoChunk /\ Objects!Idx(t) = maxChunk /\ Top = maxChunk
  BY DEF Objects!Create, Objects!Missing, Top
<1>2. maxChunk \in Nat /\ maxChunk % ActiveSize \in 0 .. ActiveSize - 1 /\ slot[t] \in Nat
  BY PoolTypes DEF Objects!TypeOK
<1>3. s \in existing /\ s % ActiveSize = maxChunk % ActiveSize /\ s < maxChunk
  BY <1>1, <1>2 DEF Ring, Alive, Objects!Entry
<1>4. s \in Objects!Chunks /\ s \in Nat BY <1>3, PoolTypes DEF Objects!TypeOK
<1>5. maxChunk - s >= ActiveSize BY <1>2, <1>3, <1>4, Apart
<1> HIDE DEF s
<1>6. \A u \in Users : Pending(u) => Objects!Idx(u) # s
  <2> SUFFICES ASSUME NEW u \in Users, Pending(u), Objects!Idx(u) = s PROVE FALSE OBVIOUS
  <2>1. step[u] # "publish" BY <1>1, PoolTypes DEF Taken
  <2>2. step[u] \in {"test", "lock", "find", "base"} BY <2>1 DEF Pending
  <2>3. ~(maxChunk + 1 - Objects!Idx(u) >= ActiveSize) BY <2>2 DEF Objects!Overtaken
  <2> QED BY <1>2, <1>4, <1>5, <2>3
<1>7. Of(s) \subseteq Gone(s)
  <2> SUFFICES ASSUME NEW n \in Of(s) PROVE n \in Gone(s) OBVIOUS
  <2>1. n \in Nat /\ n \div ChunkSize = s BY <1>4, ChunkSlots
  <2>2. slot[t] \div ChunkSize = maxChunk BY <1>1 DEF Objects!Idx
  <2>3. n < slot[t]
    <3>1. ~(slot[t] <= n)
      <4> SUFFICES ASSUME slot[t] <= n PROVE FALSE OBVIOUS
      <4>1. slot[t] \div ChunkSize <= n \div ChunkSize BY <1>2, <2>1, Quotients
      <4> QED BY <1>2, <1>3, <1>4, <2>1, <2>2, <4>1
    <3> QED BY <1>2, <2>1, <3>1
  <2>4. slot[t] < currentAlloc /\ currentAlloc \in Nat BY <1>1 DEF Taken, Pending, Objects!TypeOK
  <2>5. n \in 0 .. currentAlloc - 1 BY <1>2, <2>1, <2>3, <2>4
  <2>6. ~\E u \in Users : Pending(u) /\ slot[u] = n BY <1>6, <2>1 DEF Objects!Idx
  <2> QED BY <2>1, <2>5, <2>6 DEF Gone
<1>8. Gone(s) = Of(s) BY <1>4, <1>7, GoneFacts
<1>9. Cardinality(Gone(s)) = ChunkSize BY <1>4, <1>8, ChunkSlots
<1> QED BY <1>4, <1>9 DEF Counts, s

(* A thread creates the next chunk, under the lock. *)
LEMMA CreateStep ==
  ASSUME Objects!PoolAssumption, Objects!TypeOK, Good, NEW t \in Users, Objects!Create(t),
         ~stalled'
  PROVE  Good'
<1> USE DEF Objects!PoolAssumption
<1> Counts /\ Taken /\ Ring /\ Alive /\ InUse BY DEF Good
<1>1. /\ step[t] = "lock" /\ holder = NoChunk /\ Objects!Idx(t) = maxChunk /\ ~Objects!Overtaken(maxChunk)
      /\ active' = [active EXCEPT ![Objects!Idx(t) % ActiveSize] = Objects!Idx(t)]
      /\ holder' = t /\ Objects!Go(t, "publish")
      /\ UNCHANGED <<currentAlloc, maxChunk, busy, free, live, slot, object>>
  BY DEF Objects!Create, Objects!Missing
<1>2. existing' = existing \cup {maxChunk}
  <2>1. ~(Objects!Entry(t) # NoChunk /\ busy[Objects!Entry(t)] # ChunkSize /\ free[Objects!Entry(t)] = busy[Objects!Entry(t)])
    BY <1>1, NothingStale
  <2> QED BY <1>1, <2>1 DEF Objects!Create
<1>3. /\ maxChunk \in Nat /\ maxChunk \in Objects!Chunks /\ maxChunk % ActiveSize \in 0 .. ActiveSize - 1
      /\ slot[t] \in Nat /\ currentAlloc \in Nat /\ t # NoChunk
  BY <1>1, PoolTypes DEF Objects!TypeOK
<1>4. Top = maxChunk /\ Top' = maxChunk + 1 BY <1>1, <1>3 DEF Top
<1>5. step'[t] = "publish" /\ \A u \in Users \ {t} : step'[u] = step[u] BY <1>1, GoFacts
<1>6. \A u \in Users : (Pending(u)' <=> Pending(u)) /\ Objects!Idx(u)' = Objects!Idx(u)
  BY <1>1, <1>5 DEF Pending, Objects!Idx
<1>7. Counts' /\ \A c : Gone(c)' = Gone(c) BY <1>1, <1>6, CountsKept
<1>8. \A u \in Users : Pending(u) => Top' - Objects!Idx(u) < ActiveSize
  <2> SUFFICES ASSUME NEW u \in Users, Pending(u) PROVE Top' - Objects!Idx(u) < ActiveSize OBVIOUS
  <2>1. step[u] # "publish" BY <1>1, PoolTypes DEF Taken
  <2>2. step[u] \in {"test", "lock", "find", "base"} BY <2>1 DEF Pending
  <2>3. ~(maxChunk + 1 - Objects!Idx(u) >= ActiveSize) /\ Objects!Idx(u) \in Nat
    BY <1>1, <2>2, PoolTypes DEF Objects!Overtaken
  <2> QED BY <1>3, <1>4, <2>3
<1>9. Taken'
  <2>1. \A u \in Users : step'[u] = "publish" <=> holder' = u
    <3>1. \A u \in Users : step[u] # "publish" BY <1>1, PoolTypes DEF Taken
    <3> QED BY <1>1, <1>5, <3>1
  <2>2. \A u \in Users : Pending(u)' =>
          /\ slot'[u] < currentAlloc' /\ Top' - Objects!Idx(u)' < ActiveSize
          /\ \A v \in Users : Pending(v)' /\ slot'[v] = slot'[u] => v = u
    BY <1>1, <1>6, <1>8 DEF Taken
  <2>3. \A u \in Users : /\ step'[u] \in {"find", "base"} => Objects!Idx(u)' < maxChunk'
                         /\ step'[u] = "publish" => Objects!Idx(u)' = maxChunk'
                         /\ step'[u] = "base" => object'[u] = Objects!Idx(u)'
    <3>1. \A u \in Users \ {t} : step[u] # "publish" BY <1>1, PoolTypes DEF Taken
    <3> QED BY <1>1, <1>5, <1>6, <3>1 DEF Taken
  <2>4. /\ 1 < ActiveSize /\ 0 < currentAlloc'
        /\ Top' <= (currentAlloc' - 1) \div ChunkSize + 1
    <3>1. Pending(t) /\ slot[t] < currentAlloc BY <1>1 DEF Pending, Taken
    <3>2. Top' - maxChunk < ActiveSize BY <1>1, <1>8, <3>1
    <3>3. currentAlloc - 1 \in Nat /\ slot[t] <= currentAlloc - 1 BY <1>3, <3>1
    <3>4. maxChunk <= (currentAlloc - 1) \div ChunkSize /\ (currentAlloc - 1) \div ChunkSize \in Nat
      BY <1>1, <1>3, <3>3, Quotients, Division DEF Objects!Idx
    <3> QED BY <1>1, <1>3, <1>4, <3>2, <3>3, <3>4
  <2> QED BY <2>1, <2>2, <2>3, <2>4 DEF Taken
<1>10. ASSUME NEW i \in 0 .. ActiveSize - 1
       PROVE  active'[i] = IF i = maxChunk % ActiveSize THEN maxChunk ELSE active[i]
  BY <1>1, <1>3 DEF Objects!TypeOK
<1>11. Ring'
  <2>1. ASSUME NEW i \in 0 .. ActiveSize - 1, active'[i] # NoChunk
        PROVE  /\ active'[i] \in existing' /\ active'[i] % ActiveSize = i
               /\ Top' - active'[i] <= ActiveSize
    <3>1. CASE i = maxChunk % ActiveSize BY <1>2, <1>3, <1>4, <1>10, <3>1
    <3>2. CASE i # maxChunk % ActiveSize
      <4> DEFINE c == active[i]
      <4>1. active'[i] = c BY <1>10, <3>2
      <4>2. c \in existing /\ c % ActiveSize = i /\ maxChunk - c <= ActiveSize /\ c < maxChunk
        BY <1>4, <2>1, <4>1 DEF Ring, Alive
      <4>3. c \in Nat BY <4>2, PoolTypes DEF Objects!TypeOK
      <4>4. maxChunk - c # ActiveSize BY <1>3, <3>2, <4>2, <4>3, Behind
      <4> HIDE DEF c
      <4> QED BY <1>2, <1>3, <1>4, <4>1, <4>2, <4>3, <4>4
    <3> QED BY <3>1, <3>2
  <2>2. ASSUME NEW c \in Objects!Chunks, c < Top', Top' - c <= ActiveSize, free'[c] # 0
        PROVE  active'[c % ActiveSize] = c
    <3>1. c \in Nat /\ c % ActiveSize \in 0 .. ActiveSize - 1 BY PoolTypes
    <3>2. CASE c = maxChunk BY <1>3, <1>10, <3>2
    <3>3. CASE c # maxChunk
      <4>1. c < maxChunk /\ maxChunk - c < ActiveSize BY <1>3, <1>4, <2>2, <3>1, <3>3
      <4>2. c % ActiveSize # maxChunk % ActiveSize
        <5> SUFFICES ASSUME c % ActiveSize = maxChunk % ActiveSize PROVE FALSE OBVIOUS
        <5>1. maxChunk - c >= ActiveSize BY <1>3, <3>1, <4>1, Apart
        <5> QED BY <1>3, <3>1, <4>1, <5>1
      <4>3. active[c % ActiveSize] = c BY <1>1, <1>3, <1>4, <2>2, <3>1, <4>1 DEF Ring
      <4> QED BY <1>10, <3>1, <4>2, <4>3
    <3> QED BY <3>2, <3>3
  <2> QED BY <2>1, <2>2 DEF Ring
<1>12. free[maxChunk] # 0 BY <1>1, <1>3, Unfreed DEF Pending
<1>13. \A c \in existing : c \in Nat /\ c < maxChunk BY <1>4, PoolTypes DEF Alive, Objects!TypeOK
<1>14. Alive'
  <2>1. \A c \in existing' : c < Top' BY <1>2, <1>3, <1>4, <1>13
  <2>2. \A c \in Objects!Chunks : c < Top' /\ free'[c] # 0 => c \in existing'
    <3> SUFFICES ASSUME NEW c \in Objects!Chunks, c < Top', free[c] # 0
                 PROVE c \in existing \cup {maxChunk}
      BY <1>1, <1>2
    <3>1. c < maxChunk \/ c = maxChunk BY <1>3, <1>4, PoolTypes
    <3> QED BY <1>4, <3>1 DEF Alive
  <2>3. \A c \in existing' : free'[c] = 0 =>
          \E u \in Users : step'[u] \in {"unlist", "delete"} /\ object'[u] = c
    BY <1>1, <1>2, <1>5, <1>12 DEF Alive
  <2>4. \A u \in Users : step'[u] \in {"unlist", "delete"} =>
          /\ object'[u] \in existing' /\ free'[object'[u]] = 0
          /\ \A v \in Users : step'[v] \in {"unlist", "delete"} /\ object'[v] = object'[u] => v = u
    BY <1>1, <1>2, <1>5 DEF Alive
  <2>5. \A u \in Users : step'[u] = "delete" =>
          \A i \in 0 .. ActiveSize - 1 : active'[i] # object'[u]
    <3> SUFFICES ASSUME NEW u \in Users, step'[u] = "delete",
                        NEW i \in 0 .. ActiveSize - 1
                 PROVE  active'[i] # object[u]
      BY <1>1
    <3>1. step[u] = "delete" BY <1>5
    <3>2. active[i] # object[u] /\ object[u] \in existing BY <3>1 DEF Alive
    <3>3. object[u] # maxChunk BY <1>3, <1>13, <3>2
    <3> QED BY <1>10, <3>2, <3>3
  <2> QED BY <2>1, <2>2, <2>3, <2>4, <2>5 DEF Alive
<1>15. InUse' BY <1>1, <1>2, <1>7 DEF InUse
<1> QED BY <1>7, <1>9, <1>11, <1>14, <1>15 DEF Good

(* The others see the new chunk. *)
LEMMA PublishStep ==
  ASSUME Objects!PoolAssumption, Objects!TypeOK, Good, NEW t \in Users, Objects!Publish(t)
  PROVE  Good'
<1> USE DEF Objects!PoolAssumption
<1> Counts /\ Taken /\ Ring /\ Alive /\ InUse BY DEF Good
<1>1. /\ step[t] = "publish" /\ maxChunk' = maxChunk + 1 /\ holder' = NoChunk /\ Objects!Go(t, "test")
      /\ UNCHANGED <<currentAlloc, active, busy, free, existing, live, slot, object>>
  BY DEF Objects!Publish
<1>2. holder = t /\ t # NoChunk /\ maxChunk \in Nat BY <1>1, PoolTypes DEF Taken, Objects!TypeOK
<1>3. UNCHANGED Top BY <1>1, <1>2 DEF Top
<1>4. step'[t] = "test" /\ \A u \in Users \ {t} : step'[u] = step[u] BY <1>1, GoFacts
<1>5. \A u \in Users : (Pending(u)' <=> Pending(u)) /\ Objects!Idx(u)' = Objects!Idx(u)
  BY <1>1, <1>4 DEF Pending, Objects!Idx
<1>6. Counts' /\ \A c : Gone(c)' = Gone(c) BY <1>1, <1>5, CountsKept
<1>7. Taken'
  <2>1. \A u \in Users : step[u] = "publish" => u = t BY <1>2 DEF Taken
  <2>2. \A u \in Users : step'[u] = "publish" <=> holder' = u BY <1>1, <1>4, <2>1, PoolTypes
  <2>3. \A u \in Users : Pending(u)' =>
          /\ slot'[u] < currentAlloc' /\ Top' - Objects!Idx(u)' < ActiveSize
          /\ \A v \in Users : Pending(v)' /\ slot'[v] = slot'[u] => v = u
    BY <1>1, <1>3, <1>5 DEF Taken
  <2>4. \A u \in Users : /\ step'[u] \in {"find", "base"} => Objects!Idx(u)' < maxChunk'
                         /\ step'[u] = "publish" => Objects!Idx(u)' = maxChunk'
                         /\ step'[u] = "base" => object'[u] = Objects!Idx(u)'
    <3>1. \A u \in Users : Objects!Idx(u) \in Nat BY PoolTypes
    <3> QED BY <1>1, <1>2, <1>4, <1>5, <2>1, <3>1 DEF Taken
  <2>5. Top' > 0 => /\ 1 < ActiveSize /\ 0 < currentAlloc'
                    /\ Top' <= (currentAlloc' - 1) \div ChunkSize + 1
    BY <1>1, <1>3 DEF Taken
  <2> QED BY <2>2, <2>3, <2>4, <2>5 DEF Taken
<1>8. Ring' BY <1>1, <1>3 DEF Ring
<1>9. Alive' BY <1>1, <1>3, <1>4 DEF Alive
<1>10. InUse' BY <1>1, <1>6 DEF InUse
<1> QED BY <1>6, <1>7, <1>8, <1>9, <1>10 DEF Good

(* A slot is dropped only by a thread that was overtaken. *)
LEMMA DropSlotStep ==
  ASSUME Objects!PoolAssumption, Objects!TypeOK, Good, NEW t \in Users,
         Objects!DropSlot(t)
  PROVE  FALSE
<1>1. step[t] = "lock" /\ holder = NoChunk /\ maxChunk - Objects!Idx(t) >= ActiveSize
  BY DEF Objects!DropSlot
<1>2. Top = maxChunk /\ Top - Objects!Idx(t) < ActiveSize BY <1>1 DEF Top, Good, Taken, Pending
<1>3. maxChunk \in Nat /\ Objects!Idx(t) \in Nat BY PoolTypes DEF Objects!TypeOK
<1> QED BY <1>1, <1>2, <1>3 DEF Objects!PoolAssumption

(* A thread has its object, and counts it. *)
LEMMA SetBaseStep ==
  ASSUME Objects!PoolAssumption, Objects!TypeOK, Good, NEW t \in Users, Objects!SetBase(t)
  PROVE  Good'
<1> USE DEF Objects!PoolAssumption
<1> Counts /\ Taken /\ Ring /\ Alive /\ InUse BY DEF Good
<1> DEFINE k == Objects!Idx(t)
           n == slot[t]
           o == [chunk |-> k, slot |-> n % ChunkSize, base |-> k]
<1>1. /\ step[t] = "base" /\ object[t] = k /\ k \in Objects!Chunks /\ k \in Nat /\ n \in Nat
      /\ k < maxChunk /\ k # NoChunk
  BY PoolTypes DEF Objects!SetBase, Taken
<1>2. Objects!Entry(t) = k
  <2>1. k < Top BY <1>1 DEF Top, Objects!TypeOK
  <2> QED BY <1>1, <2>1, Shown DEF Pending
<1>3. /\ live' = live \cup {o} /\ busy' = [busy EXCEPT ![k] = @ + 1]
      /\ slot' = [slot EXCEPT ![t] = 0] /\ object' = [object EXCEPT ![t] = NoChunk]
      /\ Objects!Go(t, "idle")
      /\ UNCHANGED <<currentAlloc, maxChunk, active, free, existing, holder>>
  BY <1>1, <1>2 DEF Objects!SetBase
<1>4. n < currentAlloc /\ n \div ChunkSize = k /\ currentAlloc \in Nat
  BY <1>1 DEF Taken, Pending, Objects!Idx, Objects!TypeOK
<1>5. /\ step'[t] = "idle" /\ \A u \in Users \ {t} : step'[u] = step[u]
      /\ \A u \in Users \ {t} : slot'[u] = slot[u] /\ object'[u] = object[u]
  BY <1>3, GoFacts DEF Objects!TypeOK
<1>6. UNCHANGED Top BY <1>3 DEF Top
<1>7. /\ Pending(t) /\ ~Pending(t)'
      /\ \A u \in Users \ {t} : (Pending(u)' <=> Pending(u)) /\ Objects!Idx(u)' = Objects!Idx(u)
      /\ \A u \in Users \ {t} : Pending(u) => slot[u] # n
  BY <1>1, <1>5 DEF Pending, Objects!Idx, Taken
<1>8. free[k] # 0 /\ free[k] \in Nat BY <1>1, <1>7, Unfreed
<1>9. k \in existing
  <2>1. k < Top BY <1>1 DEF Top, Objects!TypeOK
  <2> QED BY <1>1, <1>8, <2>1 DEF Alive
<1> HIDE DEF k, n
<1>10. ASSUME NEW c PROVE Gone(c)' = IF c = k THEN Gone(c) \cup {n} ELSE Gone(c)
  <2>1. \A m \in 0 .. currentAlloc - 1 :
          (\E u \in Users : Pending(u)' /\ slot'[u] = m) <=>
             m # n /\ \E u \in Users : Pending(u) /\ slot[u] = m
    BY <1>5, <1>7 DEF n
  <2>2. n \in 0 .. currentAlloc - 1 BY <1>1, <1>4
  <2> QED BY <1>3, <1>4, <2>1, <2>2 DEF Gone
<1>11. n \notin Gone(k) BY <1>7 DEF Gone, n
<1>12. o \notin live
  <2> SUFFICES ASSUME o \in live PROVE FALSE OBVIOUS
  <2>1. PICK m \in Gone(k) : m % ChunkSize = n % ChunkSize BY DEF InUse
  <2>2. m \in Nat /\ m \div ChunkSize = k BY <2>1 DEF Gone, Objects!TypeOK
  <2>3. m = n BY <1>1, <1>4, <2>1, <2>2, Quotients
  <2> QED BY <1>11, <2>1, <2>3
<1>13. \A c : Living(c)' = IF c = k THEN Living(c) \cup {o} ELSE Living(c) BY <1>3 DEF Living
<1>14. Counts'
  <2>1. IsFiniteSet(live') BY <1>3, FS_AddElement DEF Counts
  <2>2. ASSUME NEW c \in Objects!Chunks
        PROVE  /\ busy'[c] = Cardinality(Gone(c)')
               /\ free'[c] = ChunkSize - busy'[c] + Cardinality(Living(c)')
    <3>1. /\ busy[c] = Cardinality(Gone(c)) /\ busy[c] \in Nat
          /\ free[c] = ChunkSize - busy[c] + Cardinality(Living(c)) /\ free[c] \in Int
      BY DEF Counts, Objects!TypeOK
    <3>2. CASE c = k
      <4>1. IsFiniteSet(Gone(c)) /\ IsFiniteSet(Living(c)) /\ Cardinality(Living(c)) \in Nat
        BY PoolTypes, GoneFacts, Unfreed
      <4>2. Cardinality(Gone(c)') = Cardinality(Gone(c)) + 1 BY <1>10, <1>11, <3>2, <4>1, FS_AddElement
      <4>3. o \notin Living(c) BY <1>12 DEF Living
      <4>4. Cardinality(Living(c)') = Cardinality(Living(c)) + 1
        <5> HIDE DEF o
        <5> QED BY <1>13, <3>2, <4>1, <4>3, FS_AddElement
      <4>5. busy'[c] = busy[c] + 1 /\ free'[c] = free[c] BY <1>3, <3>2 DEF Objects!TypeOK
      <4> QED BY <3>1, <4>1, <4>2, <4>4, <4>5
    <3>3. CASE c # k
      <4>1. busy'[c] = busy[c] /\ free'[c] = free[c] BY <1>3, <3>3 DEF Objects!TypeOK
      <4> QED BY <1>10, <1>13, <3>1, <3>3, <4>1
    <3> QED BY <3>2, <3>3
  <2> QED BY <2>1, <2>2 DEF Counts
<1>15. Taken'
  <2>1. \A u \in Users : step'[u] = "publish" <=> holder' = u BY <1>1, <1>3, <1>5 DEF Taken
  <2>2. \A u \in Users : Pending(u)' =>
          /\ slot'[u] < currentAlloc' /\ Top' - Objects!Idx(u)' < ActiveSize
          /\ \A v \in Users : Pending(v)' /\ slot'[v] = slot'[u] => v = u
    BY <1>3, <1>5, <1>6, <1>7 DEF Taken
  <2>3. \A u \in Users : /\ step'[u] \in {"find", "base"} => Objects!Idx(u)' < maxChunk'
                         /\ step'[u] = "publish" => Objects!Idx(u)' = maxChunk'
                         /\ step'[u] = "base" => object'[u] = Objects!Idx(u)'
    BY <1>3, <1>5, <1>7 DEF Taken
  <2>4. Top' > 0 => /\ 1 < ActiveSize /\ 0 < currentAlloc'
                    /\ Top' <= (currentAlloc' - 1) \div ChunkSize + 1
    BY <1>3, <1>6 DEF Taken
  <2> QED BY <2>1, <2>2, <2>3, <2>4 DEF Taken
<1>16. Ring' BY <1>3, <1>6 DEF Ring
<1>17. Alive' BY <1>1, <1>3, <1>5, <1>6 DEF Alive
<1>18. InUse'
  <2> SUFFICES ASSUME NEW x \in live'
               PROVE  /\ x.chunk = x.base /\ x.chunk \in existing
                      /\ \E m \in Gone(x.chunk)' : m % ChunkSize = x.slot
    BY <1>3 DEF InUse
  <2>1. CASE x \in live BY <1>10, <2>1 DEF InUse
  <2>2. CASE x = o
    <3>1. x.chunk = k /\ x.base = k /\ x.slot = n % ChunkSize BY <2>2
    <3>2. n \in Gone(x.chunk)' BY <1>10, <3>1
    <3> QED BY <1>9, <3>1, <3>2
  <2> QED BY <1>3, <2>1, <2>2
<1> QED BY <1>14, <1>15, <1>16, <1>17, <1>18 DEF Good

(* A thread frees an object, maybe the last of its chunk. *)
LEMMA PoolReleaseStep ==
  ASSUME Objects!PoolAssumption, Objects!TypeOK, Good, NEW t \in Users, Objects!Release(t)
  PROVE  Good'
<1> USE DEF Objects!PoolAssumption
<1> Counts /\ Taken /\ Ring /\ Alive /\ InUse BY DEF Good
<1>1. PICK o \in live :
        /\ live' = live \ {o} /\ free' = [free EXCEPT ![o.base] = @ - 1]
        /\ IF free[o.base] = 1
             THEN object' = [object EXCEPT ![t] = o.base] /\ Objects!Go(t, "unlist")
             ELSE UNCHANGED <<object, step>>
  BY DEF Objects!Release
<1>2. /\ step[t] = "idle"
      /\ UNCHANGED <<currentAlloc, maxChunk, active, busy, existing, slot, holder>>
  BY DEF Objects!Release
<1>3. PICK k \in Objects!Chunks : k = o.base /\ k = o.chunk /\ k \in existing BY DEF InUse, Objects!TypeOK
<1>4. free[k] \in Nat /\ free[k] # 0
  <2>1. o \in Living(k) BY <1>3 DEF Living
  <2> QED BY <2>1, Unfreed
<1>5. /\ free'[k] = free[k] - 1
      /\ \A c \in Objects!Chunks \ {k} : free'[c] = free[c]
  BY <1>1, <1>3 DEF Objects!TypeOK
<1>6. /\ \A u \in Users \ {t} : step'[u] = step[u] /\ object'[u] = object[u]
      /\ IF free[k] = 1 THEN step'[t] = "unlist" /\ object'[t] = k
                        ELSE step'[t] = "idle" /\ object'[t] = object[t]
  <2>1. CASE free[k] = 1
    <3>1. object' = [object EXCEPT ![t] = k] /\ Objects!Go(t, "unlist") BY <1>1, <1>3, <2>1
    <3> QED BY <2>1, <3>1, GoFacts DEF Objects!TypeOK
  <2>2. CASE free[k] # 1 BY <1>1, <1>2, <1>3, <2>2
  <2> QED BY <2>1, <2>2
<1>7. \A u \in Users : (Pending(u)' <=> Pending(u)) /\ Objects!Idx(u)' = Objects!Idx(u)
  BY <1>2, <1>6 DEF Pending, Objects!Idx
<1>8. \A c : Gone(c)' = Gone(c) BY <1>2, <1>7, CountsKept
<1>9. UNCHANGED Top BY <1>2 DEF Top
<1>10. \A c : Living(c)' = IF c = k THEN Living(c) \ {o} ELSE Living(c) BY <1>1, <1>3 DEF Living
<1>11. Counts'
  <2>1. IsFiniteSet(live') BY <1>1, FS_RemoveElement DEF Counts
  <2>2. ASSUME NEW c \in Objects!Chunks
        PROVE  /\ busy'[c] = Cardinality(Gone(c)')
               /\ free'[c] = ChunkSize - busy'[c] + Cardinality(Living(c)')
    <3>1. /\ busy[c] = Cardinality(Gone(c)) /\ busy[c] \in Nat
          /\ free[c] = ChunkSize - busy[c] + Cardinality(Living(c)) /\ free[c] \in Int
      BY DEF Counts, Objects!TypeOK
    <3>2. CASE c = k
      <4>1. IsFiniteSet(Living(c)) /\ Cardinality(Living(c)) \in Nat BY Unfreed
      <4>2. o \in Living(c) BY <1>3, <3>2 DEF Living
      <4>3. Cardinality(Living(c)') = Cardinality(Living(c)) - 1
        BY <1>10, <3>2, <4>1, <4>2, FS_RemoveElement
      <4> QED BY <1>2, <1>5, <1>8, <3>1, <3>2, <4>1, <4>3
    <3>3. CASE c # k BY <1>2, <1>5, <1>8, <1>10, <3>1, <3>3
    <3> QED BY <3>2, <3>3
  <2> QED BY <2>1, <2>2 DEF Counts
<1>12. Taken'
  <2>1. \A u \in Users : step'[u] = "publish" <=> holder' = u BY <1>2, <1>6 DEF Taken
  <2>2. \A u \in Users : Pending(u)' =>
          /\ slot'[u] < currentAlloc' /\ Top' - Objects!Idx(u)' < ActiveSize
          /\ \A v \in Users : Pending(v)' /\ slot'[v] = slot'[u] => v = u
    BY <1>2, <1>7, <1>9 DEF Taken
  <2>3. \A u \in Users : /\ step'[u] \in {"find", "base"} => Objects!Idx(u)' < maxChunk'
                         /\ step'[u] = "publish" => Objects!Idx(u)' = maxChunk'
                         /\ step'[u] = "base" => object'[u] = Objects!Idx(u)'
    BY <1>2, <1>6, <1>7 DEF Taken
  <2>4. Top' > 0 => /\ 1 < ActiveSize /\ 0 < currentAlloc'
                    /\ Top' <= (currentAlloc' - 1) \div ChunkSize + 1
    BY <1>2, <1>9 DEF Taken
  <2> QED BY <2>1, <2>2, <2>3, <2>4 DEF Taken
<1>13. \A c \in Objects!Chunks : free'[c] # 0 => free[c] # 0 BY <1>4, <1>5
<1>14. Ring' BY <1>2, <1>9, <1>13 DEF Ring
<1>15. \A u \in Users : step[u] \in {"unlist", "delete"} => object[u] # k /\ object[u] \in Objects!Chunks
  BY <1>4 DEF Alive, Objects!TypeOK
<1>16. Alive'
  <2>1. \A c \in existing' : c < Top' BY <1>2, <1>9 DEF Alive
  <2>2. \A c \in Objects!Chunks : c < Top' /\ free'[c] # 0 => c \in existing'
    BY <1>2, <1>9, <1>13 DEF Alive
  <2>3. ASSUME NEW c \in existing', free'[c] = 0
        PROVE  \E u \in Users : step'[u] \in {"unlist", "delete"} /\ object'[u] = c
    <3>1. c \in Objects!Chunks /\ c \in existing BY <1>2 DEF Objects!TypeOK
    <3>2. CASE c = k BY <1>4, <1>5, <1>6, <2>3, <3>2
    <3>3. CASE c # k
      <4>1. PICK u \in Users : step[u] \in {"unlist", "delete"} /\ object[u] = c
        BY <1>5, <2>3, <3>1, <3>3 DEF Alive
      <4>2. u # t BY <1>2, <4>1
      <4> QED BY <1>6, <4>1, <4>2
    <3> QED BY <3>2, <3>3
  <2>4. ASSUME NEW u \in Users, step'[u] \in {"unlist", "delete"}
        PROVE  /\ object'[u] \in existing' /\ free'[object'[u]] = 0
               /\ \A v \in Users :
                     step'[v] \in {"unlist", "delete"} /\ object'[v] = object'[u] => v = u
    <3>1. CASE u = t
      <4>1. free[k] = 1 /\ object'[t] = k BY <1>6, <2>4, <3>1
      <4>2. \A v \in Users \ {t} : step'[v] \in {"unlist", "delete"} => object'[v] # k BY <1>6, <1>15
      <4>3. free'[k] = 0 BY <1>5, <4>1
      <4> QED BY <1>2, <1>3, <3>1, <4>1, <4>2, <4>3
    <3>2. CASE u # t
      <4>1. step[u] \in {"unlist", "delete"} /\ object'[u] = object[u] BY <1>6, <2>4, <3>2
      <4>2. object[u] # k /\ object[u] \in Objects!Chunks /\ object[u] \in existing /\ free[object[u]] = 0
        BY <1>15, <4>1 DEF Alive
      <4>3. \A v \in Users \ {t} :
               step[v] \in {"unlist", "delete"} /\ object[v] = object[u] => v = u
        BY <4>1 DEF Alive
      <4>4. step'[t] \in {"unlist", "delete"} => object'[t] = k BY <1>6
      <4>5. free'[object[u]] = 0 BY <1>5, <4>2
      <4>6. \A v \in Users : step'[v] \in {"unlist", "delete"} /\ object'[v] = object'[u] => v = u
        BY <1>6, <4>1, <4>2, <4>3, <4>4
      <4> QED BY <1>2, <4>1, <4>2, <4>5, <4>6
    <3> QED BY <3>1, <3>2
  <2>5. \A u \in Users : step'[u] = "delete" =>
          \A i \in 0 .. ActiveSize - 1 : active'[i] # object'[u]
    BY <1>2, <1>6 DEF Alive
  <2> QED BY <2>1, <2>2, <2>3, <2>4, <2>5 DEF Alive
<1>17. InUse' BY <1>1, <1>2, <1>8 DEF InUse
<1> QED BY <1>11, <1>12, <1>14, <1>16, <1>17 DEF Good

(* The steps that neither take a slot nor touch a counter. *)
LEMMA Elsewhere ==
  ASSUME Objects!PoolAssumption, Objects!TypeOK, Good, NEW t \in Users,
         NEW l \in {"delete", "idle"},
         step[t] \in {"unlist", "delete"}, Objects!Go(t, l),
         \A u \in Users \ {t} : object'[u] = object[u],
         UNCHANGED <<currentAlloc, maxChunk, busy, free, live, slot, holder>>
  PROVE  /\ step'[t] = l /\ \A u \in Users \ {t} : step'[u] = step[u]
         /\ Counts' /\ Taken' /\ UNCHANGED Top /\ \A c : Gone(c)' = Gone(c)
<1> Counts /\ Taken BY DEF Good
<1>1. step'[t] = l /\ \A u \in Users \ {t} : step'[u] = step[u] BY GoFacts
<1>2. \A u \in Users : (Pending(u)' <=> Pending(u)) /\ Objects!Idx(u)' = Objects!Idx(u)
  BY <1>1 DEF Pending, Objects!Idx
<1>3. Counts' /\ \A c : Gone(c)' = Gone(c) BY <1>2, CountsKept
<1>4. UNCHANGED Top BY DEF Top
<1>5. Taken'
  <2>1. \A u \in Users : step'[u] = "publish" <=> holder' = u BY <1>1 DEF Taken
  <2>2. \A u \in Users : Pending(u)' =>
          /\ slot'[u] < currentAlloc' /\ Top' - Objects!Idx(u)' < ActiveSize
          /\ \A v \in Users : Pending(v)' /\ slot'[v] = slot'[u] => v = u
    BY <1>2, <1>4 DEF Taken
  <2>3. \A u \in Users : /\ step'[u] \in {"find", "base"} => Objects!Idx(u)' < maxChunk'
                         /\ step'[u] = "publish" => Objects!Idx(u)' = maxChunk'
                         /\ step'[u] = "base" => object'[u] = Objects!Idx(u)'
    BY <1>1, <1>2 DEF Taken
  <2>4. Top' > 0 => /\ 1 < ActiveSize /\ 0 < currentAlloc'
                    /\ Top' <= (currentAlloc' - 1) \div ChunkSize + 1
    BY <1>4 DEF Taken
  <2> QED BY <2>1, <2>2, <2>3, <2>4 DEF Taken
<1> QED BY <1>1, <1>3, <1>4, <1>5

(* A thread takes an emptied chunk from the ring. *)
LEMMA UnlistStep ==
  ASSUME Objects!PoolAssumption, Objects!TypeOK, Good, NEW t \in Users, Objects!Unlist(t)
  PROVE  Good'
<1> USE DEF Objects!PoolAssumption
<1> Ring /\ Alive /\ InUse BY DEF Good
<1>1. /\ step[t] = "unlist" /\ Objects!Go(t, "delete")
      /\ active' = [i \in DOMAIN active |-> IF active[i] = object[t] THEN NoChunk ELSE active[i]]
      /\ UNCHANGED <<currentAlloc, maxChunk, busy, free, existing, live, slot, object, holder>>
  BY DEF Objects!Unlist
<1>2. /\ step'[t] = "delete" /\ \A u \in Users \ {t} : step'[u] = step[u]
      /\ Counts' /\ Taken' /\ UNCHANGED Top /\ \A c : Gone(c)' = Gone(c)
  BY <1>1, Elsewhere
<1>3. \A i \in 0 .. ActiveSize - 1 :
        active'[i] = IF active[i] = object[t] THEN NoChunk ELSE active[i]
  BY <1>1 DEF Objects!TypeOK
<1>4. object[t] \in existing /\ free[object[t]] = 0 /\ object[t] \in Nat
  BY <1>1, PoolTypes DEF Alive, Objects!TypeOK
<1>5. Ring'
  <2>1. \A i \in 0 .. ActiveSize - 1 : active'[i] # NoChunk =>
          /\ active'[i] \in existing' /\ active'[i] % ActiveSize = i
          /\ Top' - active'[i] <= ActiveSize
    BY <1>1, <1>2, <1>3 DEF Ring
  <2>2. ASSUME NEW c \in Objects!Chunks, c < Top', Top' - c <= ActiveSize, free'[c] # 0
        PROVE  active'[c % ActiveSize] = c
    <3>1. active[c % ActiveSize] = c /\ c # object[t] BY <1>1, <1>2, <1>4, <2>2 DEF Ring
    <3> QED BY <1>3, <3>1, PoolTypes
  <2> QED BY <2>1, <2>2 DEF Ring
<1>6. Alive'
  <2>1. \A u \in Users : step'[u] \in {"unlist", "delete"} <=> step[u] \in {"unlist", "delete"}
    BY <1>1, <1>2
  <2>2. \A u \in Users : step'[u] = "delete" =>
          \A i \in 0 .. ActiveSize - 1 : active'[i] # object'[u]
    <3> SUFFICES ASSUME NEW u \in Users, step'[u] = "delete",
                        NEW i \in 0 .. ActiveSize - 1
                 PROVE  active'[i] # object[u]
      BY <1>1
    <3>1. object[u] \in existing BY <2>1 DEF Alive
    <3>2. object[u] # NoChunk BY <3>1, PoolTypes DEF Objects!TypeOK
    <3>3. CASE u = t BY <1>3, <3>2, <3>3
    <3>4. CASE u # t BY <1>2, <1>3, <3>2, <3>4 DEF Alive
    <3> QED BY <3>3, <3>4
  <2> QED BY <1>1, <1>2, <2>1, <2>2 DEF Alive
<1>7. InUse' BY <1>1, <1>2 DEF InUse
<1> QED BY <1>2, <1>5, <1>6, <1>7 DEF Good

(* A thread deletes an emptied chunk. *)
LEMMA DeleteStep ==
  ASSUME Objects!PoolAssumption, Objects!TypeOK, Good, NEW t \in Users, Objects!Delete(t)
  PROVE  Good'
<1> USE DEF Objects!PoolAssumption
<1> Counts /\ Ring /\ Alive /\ InUse BY DEF Good
<1>1. /\ step[t] = "delete" /\ Objects!Go(t, "idle")
      /\ existing' = existing \ {object[t]} /\ object' = [object EXCEPT ![t] = NoChunk]
      /\ UNCHANGED <<currentAlloc, maxChunk, active, busy, free, live, slot, holder>>
  BY DEF Objects!Delete
<1>2. \A u \in Users \ {t} : object'[u] = object[u] BY <1>1 DEF Objects!TypeOK
<1>3. /\ step'[t] = "idle" /\ \A u \in Users \ {t} : step'[u] = step[u]
      /\ Counts' /\ Taken' /\ UNCHANGED Top /\ \A c : Gone(c)' = Gone(c)
  BY <1>1, <1>2, Elsewhere
<1>4. object[t] \in existing /\ free[object[t]] = 0 /\ object[t] \in Objects!Chunks
  BY <1>1 DEF Alive, Objects!TypeOK
<1>5. Ring' BY <1>1, <1>3 DEF Ring, Alive
<1>6. Alive'
  <2>1. \A c \in existing' : c < Top' BY <1>1, <1>3 DEF Alive
  <2>2. \A c \in Objects!Chunks : c < Top' /\ free'[c] # 0 => c \in existing'
    BY <1>1, <1>3, <1>4 DEF Alive
  <2>3. ASSUME NEW c \in existing', free'[c] = 0
        PROVE  \E u \in Users : step'[u] \in {"unlist", "delete"} /\ object'[u] = c
    <3>1. PICK u \in Users : step[u] \in {"unlist", "delete"} /\ object[u] = c BY <1>1, <2>3 DEF Alive
    <3>2. u # t BY <1>1, <3>1
    <3> QED BY <1>2, <1>3, <3>1, <3>2
  <2>4. \A u \in Users : step'[u] \in {"unlist", "delete"} =>
          /\ object'[u] \in existing' /\ free'[object'[u]] = 0
          /\ \A v \in Users : step'[v] \in {"unlist", "delete"} /\ object'[v] = object'[u] => v = u
    <3> SUFFICES ASSUME NEW u \in Users, step'[u] \in {"unlist", "delete"}
                 PROVE  /\ object'[u] \in existing' /\ free'[object'[u]] = 0
                        /\ \A v \in Users :
                              step'[v] \in {"unlist", "delete"} /\ object'[v] = object'[u] => v = u
      OBVIOUS
    <3>1. u # t /\ step[u] \in {"unlist", "delete"} /\ object'[u] = object[u] BY <1>2, <1>3
    <3>2. object[u] # object[t] /\ object[u] \in existing /\ free[object[u]] = 0 BY <1>1, <3>1 DEF Alive
    <3>3. \A v \in Users : step'[v] \in {"unlist", "delete"} /\ object'[v] = object'[u] => v = u
      BY <1>2, <1>3, <3>1 DEF Alive
    <3> QED BY <1>1, <3>1, <3>2, <3>3
  <2>5. \A u \in Users : step'[u] = "delete" =>
          \A i \in 0 .. ActiveSize - 1 : active'[i] # object'[u]
    BY <1>1, <1>2, <1>3 DEF Alive
  <2> QED BY <2>1, <2>2, <2>3, <2>4, <2>5 DEF Alive
<1>7. InUse'
  <2>1. Living(object[t]) = {} BY <1>4, Unfreed
  <2>2. \A o \in live : o.chunk # object[t] BY <2>1 DEF InUse, Living
  <2> QED BY <1>1, <1>3, <2>2 DEF InUse
<1> QED BY <1>3, <1>5, <1>6, <1>7 DEF Good

----------------------------------------
(* Every step keeps the invariant. *)
LEMMA PoolStepInv == ASSUME Objects!PoolAssumption, PoolInv,
    [Objects!Next]_(Objects!vars) PROVE PoolInv'
<1> Objects!TypeOK /\ Objects!TypeOK' BY PoolTypeStep DEF PoolInv
<1> SUFFICES ASSUME ~stalled' PROVE Good' BY DEF PoolInv
<1>1. CASE UNCHANGED Objects!vars
  <2>1. Good /\ UNCHANGED <<currentAlloc, maxChunk, active, busy, free, existing, live, slot,
                           object, step, holder>>
    BY <1>1 DEF Objects!vars, PoolInv
  <2>2. /\ \A c : Gone(c)' = Gone(c) /\ Living(c)' = Living(c)
        /\ \A u \in Users : (Pending(u)' <=> Pending(u)) /\ Objects!Idx(u)' = Objects!Idx(u)
        /\ UNCHANGED Top
    BY <2>1 DEF Gone, Living, Top, Pending, Objects!Idx
  <2>3. Counts' /\ Taken' BY <2>1, <2>2 DEF Good, Counts, Taken
  <2>4. Ring' /\ Alive' /\ InUse' BY <2>1, <2>2 DEF Good, Ring, Alive, InUse
  <2> QED BY <2>3, <2>4 DEF Good
<1>2. ASSUME NEW t \in Users,
             \/ Objects!Claim(t) \/ Objects!Test(t) \/ Objects!Create(t) \/ Objects!Publish(t) \/ Objects!LookAgain(t)
             \/ Objects!DropSlot(t) \/ Objects!Find(t) \/ Objects!SetBase(t)
             \/ Objects!Release(t) \/ Objects!Unlist(t) \/ Objects!Delete(t)
      PROVE  Good'
  <2>1. ~stalled
    BY <1>2 DEF Objects!Claim, Objects!Test, Objects!Create, Objects!Publish,
       Objects!LookAgain, Objects!DropSlot, Objects!Find, Objects!SetBase,
           Objects!Release,
                Objects!Unlist, Objects!Delete
  <2>2. Good BY <2>1 DEF PoolInv
  <2> QED
    BY <1>2, <2>2, ClaimStep, LookingSteps, CreateStep, PublishStep, DropSlotStep,
       SetBaseStep,
       PoolReleaseStep, UnlistStep, DeleteStep
<1> QED BY <1>1, <1>2 DEF Objects!Next

(* The variables of the pool keep their types. *)
THEOREM PoolTypeCorrectness == ASSUME Objects!PoolAssumption
    PROVE Objects!Spec => []Objects!TypeOK
<1>1. Objects!Init => Objects!TypeOK BY PoolInitInv DEF PoolInv
<1>2. Objects!TypeOK /\ [Objects!Next]_(Objects!vars) => Objects!TypeOK' BY PoolTypeStep
<1> QED BY <1>1, <1>2, PTL DEF Objects!Spec

(* Every object is handed out once, from a chunk that exists, the ring that
   Alloc() reads without the lock shows no deleted chunk, and a chunk is
   deleted once, as soon as its objects are gone. *)
THEOREM SlotsStaySafe == ASSUME Objects!PoolAssumption
    PROVE Objects!Spec => []Objects!SlotsAreSafe
<1>1. Objects!Init => PoolInv BY PoolInitInv
<1>2. PoolInv /\ [Objects!Next]_(Objects!vars) => PoolInv' BY PoolStepInv
<1>3. PoolInv => Objects!SlotsAreSafe BY InvImpliesSafe
<1> QED BY <1>1, <1>2, <1>3, PTL DEF Objects!Spec

----------------------------------------
(* Proofs about the memory pool of a HIP device, for any streams, blocks
   events and amount of work: a block that is handed out again, or given
   back to the system, has no use left that its next user would not wait
   for, unless this user is excused. *)

(* How much work of each stream. *)
Clock == [Streams -> Nat]

(* All work up to clock u is complete. *)
Past(u) == \A r \in Streams : u[r] <= done[r]

(* Who waits for clock c waits for all work up to clock u. *)
Before(u, c) == \A r \in Streams : u[r] <= c[r] \/ u[r] <= done[r]

(* The values of the variables. *)
MemTypes ==
  /\ pending \in [Streams -> Seq(Clock)]
  /\ done \in Clock /\ sees \in [Streams -> Clock]
  /\ heap \in [Blocks -> {"none", "busy", "free"}]
  /\ safe \in [Blocks -> SUBSET Streams]
  /\ event \in [Blocks -> (Streams \X Nat) \cup {Memory!NoEvent}]
  /\ user \in [Blocks -> (Streams \X Nat) \cup {Memory!Nobody}]
  /\ used \in [Blocks -> Clock]
  /\ mark \in [Events -> (Streams \X Nat) \cup {Memory!NoEvent}]
  /\ waiting \in SUBSET (Streams \X {e \in Events : mark[e] # Memory!NoEvent})
  /\ excused \in [Blocks -> SUBSET Streams]

(* Nothing waits for work that was not issued, nor a unit for a later one
   of its stream. *)
Bounded ==
  /\ \A s, r \in Streams : sees[s][r] <= Memory!Issued(r)
  /\ \A b \in Blocks, r \in Streams : used[b][r] <= Memory!Issued(r)
  /\ \A s \in Streams : \A i \in DOMAIN pending[s] : pending[s][i][s] <= done[s] + i
  /\ \A s \in Streams : \A i \in DOMAIN pending[s] :
        \A r \in Streams : pending[s][i][r] <= Memory!Issued(r)
  /\ \A e \in Events, s \in Streams, p \in Nat : mark[e] = <<s, p>> => p <= Memory!Issued(s)

(* The last unit of a stream waits for all that the stream has seen. *)
Latest ==
  \A s \in Streams :
      /\ pending[s] = <<>> => Past(sees[s])
      /\ pending[s] # <<>> => Before(sees[s], pending[s][Len(pending[s])])

(* The event of a free block comes after the uses of the block. *)
Covered(b, e, p) ==
  /\ p <= Memory!Issued(e)
  /\ p <= done[e] => Past(used[b])
  /\ p > done[e] => Before(used[b], pending[e][p - done[e]])

(* Somebody waits for clock c: a unit, or the next unit of a stream. *)
Held(c) ==
  \/ \E s \in Streams : c = sees[s]
  \/ \E s \in Streams : \E i \in DOMAIN pending[s] : c = pending[s][i]

(* Who waits for the event, as the next unit of its stream does, waits for
   the uses of the block. *)
Followed(b, e, p) ==
  /\ p > done[e] => p <= sees[e][e]
  /\ \A c \in Clock : Held(c) /\ p <= c[e] => Before(used[b], c)

(* So its event, or the lack of one, tells when the uses are complete. *)
Timed(b) ==
  /\ event[b] = Memory!NoEvent => Past(used[b])
  /\ event[b] # Memory!NoEvent =>
        Covered(b, event[b][1], event[b][2]) /\ Followed(b, event[b][1], event[b][2])

(* Stream s waits for the free of block b, or has an excuse. *)
Entitled(b, s) == s \in excused[b] \/ Memory!AfterFree(s, b)

(* And the streams it is safe for wait for the event, or are excused. *)
Freed ==
  \A b \in Blocks : heap[b] = "free" =>
      Timed(b) /\ \A s \in safe[b] : Entitled(b, s)

(* A block in use is safe for the stream it was allocated on alone. *)
Owned ==
  \A b \in Blocks : heap[b] = "busy" => user[b] # Memory!Nobody /\ safe[b] = {user[b][1]}

(* The inductive invariant. *)
MemInv == MemTypes /\ Bounded /\ Latest /\ Freed /\ Owned

----------------------------------------
(* Every non-empty set of natural numbers has a least element. *)
LEMMA Least ==
  ASSUME NEW S \in SUBSET Nat, S # {}
  PROVE  \E x \in S : \A y \in S : x <= y
<1> DEFINE Lt == {ss \in Nat \X Nat : ss[1] < ss[2]}
<1>1. IsWellFoundedOn(Lt, Nat) BY NatLessThanWellFounded DEF OpToRel
<1>2. \A x, y \in Nat : ~(<<y, x>> \in Lt) => x <= y OBVIOUS
<1> HIDE DEF Lt
<1>3. S \subseteq Nat OBVIOUS
<1>4. \E x \in S : \A y \in S : ~(<<y, x>> \in Lt) BY <1>1, <1>3, WFMin
<1>5. PICK x \in S : \A y \in S : ~(<<y, x>> \in Lt) BY <1>4
<1>6. \A y \in S : x <= y BY <1>2, <1>3, <1>5
<1> QED BY <1>6

(* The larger of two numbers. *)
LEMMA MaxOfTwo ==
  ASSUME NEW a \in Nat, NEW b \in Nat
  PROVE  Memory!Max({a, b}) = IF a >= b THEN a ELSE b
<1>1. \E x \in {a, b} : \A y \in {a, b} : x >= y OBVIOUS
<1>2. Memory!Max({a, b}) \in {a, b} /\ \A y \in {a, b} : Memory!Max({a, b}) >= y BY <1>1 DEF Memory!Max
<1> QED BY <1>2

(* The smallest number of a set is in it. *)
LEMMA MinOfSet ==
  ASSUME NEW S \in SUBSET Nat, S # {}
  PROVE  Memory!Min(S) \in S
<1>1. \E x \in S : \A y \in S : x =< y BY Least
<1> QED BY <1>1 DEF Memory!Min

(* Clocks keep their type. *)
LEMMA ClockFacts ==
  ASSUME MemTypes, NEW s \in Streams
  PROVE  /\ Memory!Issued(s) \in Nat /\ done[s] \in Nat /\ done[s] <= Memory!Issued(s)
         /\ Memory!Ticked(s) \in Clock
         /\ \A r \in Streams : Memory!Ticked(s)[r] = IF r = s THEN Memory!Issued(s) + 1 ELSE sees[s][r]
         /\ \A c \in Clock : Memory!Settled(c, s) \in Clock
         /\ \A c, d \in Clock : /\ Memory!Join(c, d) \in Clock
                                 /\ \A r \in Streams :
                                        Memory!Join(c, d)[r] = IF c[r] >= d[r] THEN c[r] ELSE d[r]
<1>1. pending[s] \in Seq(Clock) /\ done[s] \in Nat /\ sees[s] \in Clock BY DEF MemTypes, Clock
<1>2. Memory!Issued(s) \in Nat /\ done[s] <= Memory!Issued(s) BY <1>1 DEF Memory!Issued
<1>3. /\ Memory!Ticked(s) \in Clock
      /\ \A r \in Streams : Memory!Ticked(s)[r] = IF r = s THEN Memory!Issued(s) + 1 ELSE sees[s][r]
  BY <1>1, <1>2 DEF Memory!Ticked, Clock
<1>4. \A c \in Clock : Memory!Settled(c, s) \in Clock BY DEF Memory!Settled, Clock
<1>5. ASSUME NEW c \in Clock, NEW d \in Clock
      PROVE  /\ Memory!Join(c, d) \in Clock
             /\ \A r \in Streams : Memory!Join(c, d)[r] = IF c[r] >= d[r] THEN c[r] ELSE d[r]
  <2>1. \A r \in Streams : c[r] \in Nat /\ d[r] \in Nat BY DEF Clock
  <2>2. \A r \in Streams : Memory!Max({c[r], d[r]}) = IF c[r] >= d[r] THEN c[r] ELSE d[r]
    BY <2>1, MaxOfTwo
  <2> QED BY <2>1, <2>2 DEF Memory!Join, Clock
<1> QED BY <1>1, <1>2, <1>3, <1>4, <1>5

(* What the types and bounds say of numbers. *)
LEMMA StateFacts ==
  ASSUME MemTypes, Bounded
  PROVE  /\ pending \in [Streams -> Seq(Clock)] /\ sees \in [Streams -> Clock]
         /\ \A q \in Streams : Memory!Issued(q) \in Nat /\ done[q] \in Nat /\ Len(pending[q]) \in Nat
         /\ \A q, p \in Streams : sees[q][p] \in Nat /\ sees[q][p] <= Memory!Issued(p)
         /\ \A b \in Blocks, q \in Streams : used[b][q] \in Nat /\ used[b][q] <= Memory!Issued(q)
<1>1. \A q \in Streams : Memory!Issued(q) \in Nat /\ done[q] \in Nat BY ClockFacts
<1>2. pending \in [Streams -> Seq(Clock)] /\ \A q \in Streams : Len(pending[q]) \in Nat BY DEF MemTypes
<1>3. /\ sees \in [Streams -> Clock]
      /\ \A q, p \in Streams : sees[q][p] \in Nat
      /\ \A b \in Blocks, q \in Streams : used[b][q] \in Nat
  BY DEF MemTypes, Clock
<1> QED BY <1>1, <1>2, <1>3 DEF Bounded

(* What the pool takes for ordered is ordered. *)
LEMMA OrderedIsBefore ==
  ASSUME MemTypes, NEW s \in Streams, NEW c \in Clock
  PROVE  Memory!Ordered(c, s) <=> Before(c, sees[s])
<1>1. \A r \in Streams : sees[s][r] \in Nat /\ done[r] \in Nat /\ c[r] \in Nat BY DEF MemTypes, Clock
<1> QED BY <1>1 DEF Memory!Ordered, Memory!Follows, Before

(* A block whose event has retired has no use left, nor has one of whose
   event nothing is known. *)
LEMMA RetiredIsPast ==
  ASSUME MemTypes, Freed, NEW b \in Blocks, heap[b] = "free", Memory!Retired(b)
  PROVE  Past(used[b])
BY DEF MemTypes, Freed, Timed, Memory!Retired, Covered

(* Who waits for the free of a block waits for its uses. *)
LEMMA AfterIsOrdered ==
  ASSUME MemTypes, Freed, NEW b \in Blocks, heap[b] = "free", NEW s \in Streams,
         Memory!AfterFree(s, b)
  PROVE  Before(used[b], sees[s])
<1>1. CASE Memory!Retired(b) BY <1>1, RetiredIsPast DEF Past, Before
<1>2. CASE ~Memory!Retired(b)
  <2>1. event[b] # Memory!NoEvent /\ event[b] \in (Streams \X Nat) \cup {Memory!NoEvent}
    BY <1>2 DEF Memory!Retired, MemTypes
  <2>2. PICK e \in Streams, p \in Nat : event[b] = <<e, p>> BY <2>1
  <2>3. done[e] \in Nat /\ sees[s][e] \in Nat /\ sees[s] \in Clock BY DEF MemTypes, Clock
  <2>4. p <= sees[s][e] BY <1>2, <2>1, <2>2, <2>3 DEF Memory!AfterFree, Memory!Follows, Memory!Retired
  <2> QED BY <2>1, <2>2, <2>3, <2>4 DEF Freed, Timed, Followed, Held
<1> QED BY <1>1, <1>2

(* That stays so while the free and the events of the application do. *)
LEMMA AfterKept ==
  ASSUME MemTypes, NEW b \in Blocks, NEW s \in Streams, Memory!AfterFree(s, b),
         event'[b] = event[b], \A r \in Streams : done'[r] \in Nat /\ done[r] <= done'[r],
         \A r \in Streams :
            sees'[s][r] \in Nat /\ (sees[s][r] <= sees'[s][r] \/ sees[s][r] <= done'[r])
  PROVE  Memory!AfterFree(s, b)'
<1>1. CASE event[b] = Memory!NoEvent BY <1>1 DEF Memory!AfterFree, Memory!Retired
<1>2. CASE event[b] # Memory!NoEvent
  <2>1. PICK e \in Streams, p \in Nat : event[b] = <<e, p>> BY <1>2 DEF MemTypes
  <2>2. done[e] \in Nat /\ sees[s][e] \in Nat BY DEF MemTypes, Clock
  <2>3. p <= done[e] \/ p <= sees[s][e]
    BY <1>2, <2>1, <2>2 DEF Memory!AfterFree, Memory!Follows, Memory!Retired
  <2>4. p <= done'[e] \/ p <= sees'[s][e] BY <2>2, <2>3
  <2> QED BY <2>1, <2>4 DEF Memory!AfterFree, Memory!Follows, Memory!Retired
<1> QED BY <1>1, <1>2

----------------------------------------
(* In the beginning there is no work and no block. *)
LEMMA MemInitInv == ASSUME Memory!Init PROVE MemInv
<1>1. Memory!Zero \in Clock /\ \A r \in Streams : Memory!Zero[r] = 0 BY DEF Memory!Zero, Clock
<1>2. MemTypes BY <1>1 DEF Memory!Init, MemTypes
<1>3. \A s \in Streams : Memory!Issued(s) = 0 /\ pending[s] = <<>> BY <1>1 DEF Memory!Init, Memory!Issued
<1>4. Bounded /\ Latest
  <2>1. \A e \in Events, s \in Streams, p \in Nat : mark[e] # <<s, p>> BY DEF Memory!Init, Memory!NoEvent
  <2> QED BY <1>1, <1>3, <2>1 DEF Memory!Init, Bounded, Latest, Past
<1>5. Freed /\ Owned BY DEF Memory!Init, Freed, Owned
<1> QED BY <1>2, <1>4, <1>5 DEF MemInv

(* The units of a stream when one of stream s is complete. *)
Rest(r, s) == IF r = s THEN Tail(pending[r]) ELSE pending[r]
Left(rest, s) == [i \in DOMAIN rest |-> Memory!Settled(rest[i], s)]

(* They are clocks, one for each unit that is left. *)
LEMMA LeftFacts ==
  ASSUME MemTypes, NEW s \in Streams, NEW rest \in Seq(Clock)
  PROVE  /\ Left(rest, s) \in Seq(Clock) /\ Len(Left(rest, s)) = Len(rest)
         /\ DOMAIN Left(rest, s) = DOMAIN rest
         /\ \A i \in DOMAIN rest : Left(rest, s)[i] = Memory!Settled(rest[i], s)
<1>1. DOMAIN rest = 1 .. Len(rest) /\ Len(rest) \in Nat /\ \A i \in DOMAIN rest : rest[i] \in Clock
  OBVIOUS
<1>2. \A i \in 1 .. Len(rest) : Memory!Settled(rest[i], s) \in Clock BY <1>1, ClockFacts
<1>3. Left(rest, s) \in [1 .. Len(rest) -> Clock] BY <1>1, <1>2 DEF Left
<1>4. Left(rest, s) \in Seq(Clock) /\ Len(Left(rest, s)) = Len(rest) BY <1>1, <1>3, IsASeq, LenProperties
<1> QED BY <1>1, <1>4 DEF Left

(* What the completion of a unit of stream s leaves of the units. *)
LEMMA UnitsLeft ==
  ASSUME MemTypes, NEW s \in Streams, Memory!Complete(s)
  PROVE  /\ done'[s] = done[s] + 1 /\ \A r \in Streams : r # s => done'[r] = done[r]
         /\ pending[s] # <<>> /\ Head(pending[s]) \in Clock
         /\ Head(pending[s]) = pending[s][1] /\ 1 \in DOMAIN pending[s]
         /\ \A r \in Streams :
               Len(pending'[r]) = IF r = s THEN Len(pending[r]) - 1 ELSE Len(pending[r])
         /\ \A r \in Streams : pending'[r] \in Seq(Clock)
         /\ \A r \in Streams : \A i \in DOMAIN pending'[r] :
               /\ r = s => /\ i + 1 \in DOMAIN pending[s]
                           /\ pending'[s][i] = Memory!Settled(pending[s][i + 1], s)
               /\ r # s => i \in DOMAIN pending[r] /\ pending'[r][i] = Memory!Settled(pending[r][i], s)
<1>1. /\ done \in [Streams -> Nat] /\ \A r \in Streams : pending[r] \in Seq(Clock)
      /\ pending[s] # <<>>
  BY DEF MemTypes, Clock, Memory!Complete
<1>2. done'[s] = done[s] + 1 /\ \A r \in Streams : r # s => done'[r] = done[r] BY <1>1 DEF Memory!Complete
<1>3. /\ Head(pending[s]) \in Clock /\ Head(pending[s]) = pending[s][1] /\ 1 \in DOMAIN pending[s]
      /\ Tail(pending[s]) \in Seq(Clock) /\ Len(Tail(pending[s])) = Len(pending[s]) - 1
      /\ \A i \in DOMAIN Tail(pending[s]) :
            i + 1 \in DOMAIN pending[s] /\ Tail(pending[s])[i] = pending[s][i + 1]
  BY <1>1
<1>4. \A r \in Streams : pending'[r] = Left(Rest(r, s), s) BY DEF Memory!Complete, Left, Rest
<1>5. /\ \A r \in Streams : r # s => pending'[r] = Left(pending[r], s)
      /\ pending'[s] = Left(Tail(pending[s]), s)
  BY <1>4 DEF Rest
<1>6. ASSUME NEW r \in Streams, r # s
      PROVE  /\ pending'[r] \in Seq(Clock) /\ Len(pending'[r]) = Len(pending[r])
             /\ DOMAIN pending'[r] = DOMAIN pending[r]
             /\ \A i \in DOMAIN pending[r] : pending'[r][i] = Memory!Settled(pending[r][i], s)
  <2>1. pending'[r] = Left(pending[r], s) /\ pending[r] \in Seq(Clock) BY <1>1, <1>5, <1>6
  <2> QED BY <2>1, LeftFacts
<1>7. /\ pending'[s] \in Seq(Clock) /\ Len(pending'[s]) = Len(pending[s]) - 1
      /\ DOMAIN pending'[s] = DOMAIN Tail(pending[s])
      /\ \A i \in DOMAIN pending'[s] : pending'[s][i] = Memory!Settled(Tail(pending[s])[i], s)
  <2>1. /\ Left(Tail(pending[s]), s) \in Seq(Clock)
        /\ Len(Left(Tail(pending[s]), s)) = Len(Tail(pending[s]))
        /\ DOMAIN Left(Tail(pending[s]), s) = DOMAIN Tail(pending[s])
        /\ \A i \in DOMAIN Tail(pending[s]) :
              Left(Tail(pending[s]), s)[i] = Memory!Settled(Tail(pending[s])[i], s)
    BY <1>3, LeftFacts
  <2> QED BY <1>3, <1>5, <2>1
<1>8. \A i \in DOMAIN pending'[s] :
         /\ i + 1 \in DOMAIN pending[s]
         /\ pending'[s][i] = Memory!Settled(pending[s][i + 1], s)
  BY <1>3, <1>7
<1> QED BY <1>1, <1>2, <1>3, <1>6, <1>7, <1>8

(* The clocks stay in order, and who had only to wait for the unit waits
   for nothing now. *)
LEMMA ClocksSettle ==
  ASSUME MemTypes, Bounded, NEW s \in Streams, Memory!Complete(s)
  PROVE  /\ \A r \in Streams : Memory!Issued(r)' = Memory!Issued(r) /\ done[r] <= done'[r]
         /\ \A c \in Clock, r \in Streams : Memory!Settled(c, s)[r] <= c[r]
         /\ \A c \in Clock, r \in Streams : Memory!Settled(c, s)[r] = c[r] \/ c[r] <= done'[r]
         /\ \A c \in Clock : Held(c)' => \E d \in Clock : Held(d) /\ c = Memory!Settled(d, s)
         /\ \A u, v \in Clock : Past(u) /\ v = Memory!Settled(u, s) => Past(v)'
         /\ \A u, v \in Clock : Before(u, Head(pending[s])) /\ v = Memory!Settled(u, s) => Past(v)'
         /\ \A u, c, v, d \in Clock :
               Before(u, c) /\ v = Memory!Settled(u, s) /\ d = Memory!Settled(c, s) => Before(v, d)'
<1>1. /\ done'[s] = done[s] + 1 /\ \A r \in Streams : r # s => done'[r] = done[r]
      /\ \A r \in Streams : done[r] \in Nat /\ done'[r] \in Nat /\ pending[r] \in Seq(Clock)
  <2>1. done'[s] = done[s] + 1 /\ \A r \in Streams : r # s => done'[r] = done[r] BY UnitsLeft
  <2>2. \A r \in Streams : done[r] \in Nat /\ pending[r] \in Seq(Clock) BY DEF MemTypes, Clock
  <2> QED BY <2>1, <2>2
<1>2. \A r \in Streams : Memory!Issued(r)' = Memory!Issued(r) /\ done[r] <= done'[r]
  <2>1. \A r \in Streams : Len(pending'[r]) = IF r = s THEN Len(pending[r]) - 1 ELSE Len(pending[r])
    BY UnitsLeft
  <2> QED BY <1>1, <2>1, SMTT(30) DEF Memory!Issued
<1>3. ASSUME NEW c \in Clock
      PROVE  /\ \A r \in Streams : c[r] \in Nat /\ Memory!Settled(c, s)[r] \in Nat
             /\ \A r \in Streams : r # s => Memory!Settled(c, s)[r] = c[r]
             /\ Memory!Settled(c, s)[s] = IF c[s] = done'[s] THEN 0 ELSE c[s]
  BY <1>1 DEF Memory!Settled, Clock
<1>4. ASSUME NEW u \in Clock, Past(u)
      PROVE  \A r \in Streams : Memory!Settled(u, s)[r] <= done'[r]
  <2> TAKE r \in Streams
  <2>1. u[r] <= done[r] BY <1>4 DEF Past
  <2> QED BY <1>1, <1>3, <2>1
<1>5. /\ \A r \in Streams : r # s => Head(pending[s])[r] <= done[r]
      /\ Head(pending[s])[s] <= done'[s] /\ Head(pending[s]) \in Clock
  BY <1>1, UnitsLeft DEF Bounded, Memory!Complete
<1>6. ASSUME NEW u \in Clock, Before(u, Head(pending[s]))
      PROVE  \A r \in Streams : Memory!Settled(u, s)[r] <= done'[r]
  <2> TAKE r \in Streams
  <2>1. u[r] <= Head(pending[s])[r] \/ u[r] <= done[r] BY <1>6 DEF Before
  <2>2. Head(pending[s])[r] \in Nat BY <1>5 DEF Clock
  <2> QED BY <1>1, <1>3, <1>5, <2>1, <2>2, SMTT(30)
<1>7. ASSUME NEW u \in Clock, NEW c \in Clock, Before(u, c)
      PROVE  \A r \in Streams : Memory!Settled(u, s)[r] <= Memory!Settled(c, s)[r] \/ Memory!Settled(u, s)[r] <= done'[r]
  <2> TAKE r \in Streams
  <2>1. u[r] <= c[r] \/ u[r] <= done[r] BY <1>7 DEF Before
  <2> QED BY <1>1, <1>3, <2>1
<1>8. \A c \in Clock, r \in Streams : /\ Memory!Settled(c, s)[r] <= c[r]
                                      /\ Memory!Settled(c, s)[r] = c[r] \/ c[r] <= done'[r]
  BY <1>1, <1>3
<1>9. /\ \A u, v \in Clock : Past(u) /\ v = Memory!Settled(u, s) => Past(v)'
      /\ \A u, v \in Clock : Before(u, Head(pending[s])) /\ v = Memory!Settled(u, s) => Past(v)'
  BY <1>4, <1>6 DEF Past
<1>10. \A u, c, v, d \in Clock :
          Before(u, c) /\ v = Memory!Settled(u, s) /\ d = Memory!Settled(c, s) => Before(v, d)'
  BY <1>7 DEF Before
<1>11. ASSUME NEW c \in Clock, Held(c)' PROVE \E d \in Clock : Held(d) /\ c = Memory!Settled(d, s)
  <2>1. CASE \E r \in Streams : c = sees'[r] BY <2>1 DEF Held, MemTypes, Memory!Complete
  <2>2. CASE \E r \in Streams : \E i \in DOMAIN pending'[r] : c = pending'[r][i]
    <3>1. PICK r \in Streams : \E i \in DOMAIN pending'[r] : c = pending'[r][i] BY <2>2
    <3>2. PICK i \in DOMAIN pending'[r] : c = pending'[r][i] BY <3>1
    <3>3. \E j \in DOMAIN pending[r] : c = Memory!Settled(pending[r][j], s) BY <3>2, UnitsLeft
    <3> QED BY <1>1, <3>3 DEF Held
  <2> QED BY <1>11, <2>1, <2>2 DEF Held
<1> QED BY <1>2, <1>8, <1>9, <1>10, <1>11

(* The GPU completes a unit. *)
LEMMA CompleteStep ==
  ASSUME MemInv, NEW s \in Streams, Memory!Complete(s)
  PROVE  MemInv'
<1>1. MemTypes /\ Bounded /\ Latest /\ Freed /\ Owned BY DEF MemInv
<1>2. /\ \A r \in Streams : Memory!Issued(r)' = Memory!Issued(r) /\ done[r] <= done'[r]
      /\ \A c \in Clock, r \in Streams : Memory!Settled(c, s)[r] <= c[r]
      /\ \A c \in Clock, r \in Streams : Memory!Settled(c, s)[r] = c[r] \/ c[r] <= done'[r]
      /\ \A c \in Clock : Held(c)' => \E d \in Clock : Held(d) /\ c = Memory!Settled(d, s)
      /\ \A u, v \in Clock : Past(u) /\ v = Memory!Settled(u, s) => Past(v)'
      /\ \A u, v \in Clock : Before(u, Head(pending[s])) /\ v = Memory!Settled(u, s) => Past(v)'
      /\ \A u, c, v, d \in Clock :
            Before(u, c) /\ v = Memory!Settled(u, s) /\ d = Memory!Settled(c, s) => Before(v, d)'
  BY <1>1, ClocksSettle
<1>3. /\ done'[s] = done[s] + 1 /\ \A r \in Streams : r # s => done'[r] = done[r]
      /\ pending[s] # <<>> /\ Head(pending[s]) \in Clock
      /\ Head(pending[s]) = pending[s][1] /\ 1 \in DOMAIN pending[s]
      /\ \A r \in Streams :
            Len(pending'[r]) = IF r = s THEN Len(pending[r]) - 1 ELSE Len(pending[r])
      /\ \A r \in Streams : pending'[r] \in Seq(Clock)
      /\ \A r \in Streams : \A i \in DOMAIN pending'[r] :
            /\ r = s => /\ i + 1 \in DOMAIN pending[s]
                        /\ pending'[s][i] = Memory!Settled(pending[s][i + 1], s)
            /\ r # s => i \in DOMAIN pending[r] /\ pending'[r][i] = Memory!Settled(pending[r][i], s)
  BY <1>1, UnitsLeft
<1>4. /\ \A r \in Streams : /\ sees[r] \in Clock /\ sees'[r] \in Clock
                           /\ sees'[r] = Memory!Settled(sees[r], s)
      /\ \A b \in Blocks : used[b] \in Clock /\ used'[b] \in Clock /\ used'[b] = Memory!Settled(used[b], s)
      /\ \A r \in Streams : pending[r] \in Seq(Clock) /\ done[r] \in Nat
      /\ \A c \in Clock : \A r \in Streams : c[r] \in Nat
      /\ UNCHANGED <<heap, safe, event, user, mark, waiting, excused>>
  <2>1. \A c \in Clock : Memory!Settled(c, s) \in Clock BY <1>1, ClockFacts
  <2> QED BY <1>1, <2>1 DEF MemTypes, Memory!Complete, Clock
<1>5. MemTypes'
  <2>1. done' \in Clock BY <1>1, <1>3, <1>4 DEF MemTypes, Clock, Memory!Complete
  <2>2. /\ pending' \in [Streams -> Seq(Clock)] /\ sees' \in [Streams -> Clock]
        /\ used' \in [Blocks -> Clock]
    BY <1>3, <1>4 DEF Memory!Complete
  <2> QED BY <1>1, <1>4, <2>1, <2>2 DEF MemTypes
<1>6. Bounded'
  <2>1. \A r, q \in Streams : sees'[r][q] <= sees[r][q] /\ sees[r][q] <= Memory!Issued(q)
    BY <1>1, <1>2, <1>4 DEF Bounded
  <2>2. \A b \in Blocks,
      q \in Streams : used'[b][q] <= used[b][q] /\ used[b][q] <= Memory!Issued(q)
    BY <1>1, <1>2, <1>4 DEF Bounded
  <2>3. \A q \in Streams : Memory!Issued(q) \in Nat BY <1>1, ClockFacts
  <2>4. ASSUME NEW r \in Streams, NEW i \in DOMAIN pending'[r]
        PROVE  pending'[r][i][r] <= done'[r] + i
    <3>1. CASE r = s
      <4>1. pending[s][i + 1] \in Clock /\ pending[s][i + 1][s] <= done[s] + (i + 1)
        BY <1>1, <1>3, <1>4, <2>4, <3>1, SMTT(30) DEF Bounded
      <4>2. pending'[s][i] = Memory!Settled(pending[s][i + 1], s) BY <1>3, <2>4, <3>1
      <4>3. pending'[s][i][s] <= pending[s][i + 1][s] /\ Memory!Settled(pending[s][i + 1], s) \in Clock
        BY <1>1, <1>2, <4>1, <4>2, ClockFacts
      <4>4. i \in Int /\ pending'[s][i][s] \in Nat /\ pending[s][i + 1][s] \in Nat
        BY <1>3, <1>4, <2>4, <3>1, <4>1, <4>2, <4>3
      <4>5. done'[s] = done[s] + 1 /\ done[s] \in Nat BY <1>3, <1>4
      <4> QED BY <3>1, <4>1, <4>3, <4>4, <4>5
    <3>2. CASE r # s
      <4>1. pending[r][i] \in Clock /\ pending[r][i][r] <= done[r] + i
        BY <1>1, <1>3, <1>4, <2>4, <3>2 DEF Bounded
      <4>2. pending'[r][i] = Memory!Settled(pending[r][i], s) BY <1>3, <2>4, <3>2
      <4>3. pending'[r][i][r] <= pending[r][i][r] /\ Memory!Settled(pending[r][i], s) \in Clock
        BY <1>1, <1>2, <4>1, <4>2, ClockFacts
      <4>4. i \in Int /\ pending'[r][i][r] \in Nat /\ pending[r][i][r] \in Nat
        BY <1>3, <1>4, <2>4, <3>2, <4>1, <4>2, <4>3
      <4> QED BY <1>3, <1>4, <3>2, <4>1, <4>3, <4>4, SMTT(30)
    <3> QED BY <3>1, <3>2
  <2>5. \A r, q \in Streams : sees'[r][q] <= Memory!Issued(q)' BY <1>2, <1>4, <2>1, <2>3
  <2>6. \A b \in Blocks, q \in Streams : used'[b][q] <= Memory!Issued(q)' BY <1>2, <1>4, <2>2, <2>3
  <2>7. ASSUME NEW r \in Streams, NEW i \in DOMAIN pending'[r], NEW q \in Streams
        PROVE  pending'[r][i][q] <= Memory!Issued(q)'
    <3>1. PICK j \in DOMAIN pending[r] : pending'[r][i] = Memory!Settled(pending[r][j], s) BY <1>3, <2>7
    <3>2. pending[r][j] \in Clock /\ pending[r][j][q] <= Memory!Issued(q) BY <1>1, <1>4, <3>1 DEF Bounded
    <3>3. pending'[r][i][q] <= pending[r][j][q] /\ Memory!Settled(pending[r][j], s) \in Clock
      BY <1>1, <1>2, <3>1, <3>2, ClockFacts
    <3>4. pending'[r][i][q] \in Nat /\ pending[r][j][q] \in Nat BY <1>4, <3>1, <3>2, <3>3
    <3> QED BY <1>2, <2>3, <3>2, <3>3, <3>4
  <2>8. \A e \in Events, q \in Streams, p \in Nat : mark'[e] = <<q, p>> => p <= Memory!Issued(q)'
    BY <1>1, <1>2, <1>4 DEF Bounded
  <2> QED BY <2>4, <2>5, <2>6, <2>7, <2>8 DEF Bounded
<1>7. Latest'
  <2> SUFFICES ASSUME NEW r \in Streams
               PROVE  /\ pending'[r] = <<>> => Past(sees[r])'
                      /\ pending'[r] # <<>> => Before(sees[r], pending[r][Len(pending[r])])'
    BY DEF Latest
  <2>1. /\ pending[r] = <<>> => Past(sees[r])
        /\ pending[r] # <<>> => Before(sees[r], pending[r][Len(pending[r])])
    BY <1>1 DEF Latest
  <2>2. PICK v \in Clock : v = sees'[r] BY <1>4
  <2>3. v = Memory!Settled(sees[r], s) /\ sees[r] \in Clock BY <1>4, <2>2
  <2>4. Len(pending[r]) \in Nat /\ Len(pending'[r]) \in Nat BY <1>3, <1>4
  <2>5. CASE pending'[r] = <<>>
    <3>1. CASE r = s
      <4>1. Len(pending[s]) = 1 /\ pending[s] # <<>>
        <5>1. Len(pending'[s]) = Len(pending[s]) - 1 /\ pending[s] # <<>> BY <1>3
        <5>2. Len(pending'[s]) = 0 BY <2>5, <3>1
        <5>3. Len(pending[s]) \in Nat BY <1>4
        <5>4. \A n \in Nat : 0 = n - 1 => n = 1 OBVIOUS
        <5> QED BY <5>1, <5>2, <5>3, <5>4, Zenon
      <4>2. Before(sees[r], Head(pending[s])) BY <1>3, <2>1, <3>1, <4>1
      <4>3. Past(v)' BY <1>2, <2>3, <4>2
      <4> QED BY <2>2, <2>5, <4>3 DEF Past
    <3>2. CASE r # s
      <4>1. pending[r] = <<>> BY <1>3, <1>4, <2>5, <3>2
      <4>2. Past(v)' BY <1>2, <2>1, <2>3, <4>1
      <4> QED BY <2>2, <2>5, <4>2 DEF Past
    <3> QED BY <3>1, <3>2
  <2>6. CASE pending'[r] # <<>>
    <3>1. Len(pending'[r]) \in DOMAIN pending'[r] BY <1>3, <2>6
    <3>2. PICK d : d = pending'[r][Len(pending'[r])] OBVIOUS
    <3>3. /\ d \in Clock /\ d = Memory!Settled(pending[r][Len(pending[r])], s)
          /\ Len(pending[r]) \in DOMAIN pending[r] /\ pending[r] # <<>>
      <4>1. CASE r = s BY <1>3, <2>4, <3>1, <3>2, <4>1
      <4>2. CASE r # s BY <1>3, <2>4, <3>1, <3>2, <4>2
      <4> QED BY <4>1, <4>2
    <3>4. pending[r][Len(pending[r])] \in Clock BY <1>4, <3>3
    <3>5. Before(v, d)' BY <1>2, <2>1, <2>3, <3>3, <3>4
    <3> QED BY <2>2, <2>6, <3>2, <3>5 DEF Before
  <2> QED BY <2>5, <2>6
<1>8. Freed'
  <2> SUFFICES ASSUME NEW b \in Blocks, heap[b] = "free"
               PROVE  /\ event[b] = Memory!NoEvent => Past(used[b])'
                      /\ event[b] # Memory!NoEvent =>
                            Covered(b, event[b][1], event[b][2])' /\ Followed(b, event[b][1], event[b][2])'
                      /\ \A r \in safe[b] : Entitled(b, r)'
    BY <1>4 DEF Freed, Timed
  <2>1. /\ event[b] = Memory!NoEvent => Past(used[b])
        /\ event[b] # Memory!NoEvent =>
              Covered(b, event[b][1], event[b][2]) /\ Followed(b, event[b][1], event[b][2])
        /\ \A r \in safe[b] : Entitled(b, r)
        /\ event[b] \in (Streams \X Nat) \cup {Memory!NoEvent} /\ safe[b] \subseteq Streams
    BY <1>1 DEF Freed, Timed, MemTypes
  <2>2. PICK v \in Clock : v = used'[b] BY <1>4
  <2>3. v = Memory!Settled(used[b], s) /\ used[b] \in Clock BY <1>4, <2>2
  <2>4. Past(used[b]) => Past(v)' BY <1>2, <2>3
  <2>5. ASSUME NEW r \in safe[b] PROVE Entitled(b, r)'
    <3>1. CASE r \in excused[b] BY <1>4, <3>1 DEF Entitled
    <3>2. CASE Memory!AfterFree(r, b)
      <4>1. r \in Streams /\ event'[b] = event[b] /\ sees[r] \in Clock BY <1>4, <2>1
      <4>2. \A q \in Streams : sees'[r][q] \in Nat /\ (sees[r][q] <= sees'[r][q] \/ sees[r][q] <= done'[q])
        BY <1>2, <1>4, <4>1
      <4>3. \A q \in Streams : done'[q] \in Nat /\ done[q] <= done'[q] BY <1>2, <1>5 DEF MemTypes, Clock
      <4> QED BY <1>1, <3>2, <4>1, <4>2, <4>3, AfterKept DEF Entitled
    <3> QED BY <2>1, <3>1, <3>2 DEF Entitled
  <2>6. ASSUME event[b] # Memory!NoEvent 
        PROVE  Covered(b, event[b][1], event[b][2])' /\ Followed(b, event[b][1], event[b][2])'
    <3>1. PICK e \in Streams, p \in Nat : event[b] = <<e, p>> BY <2>1, <2>6
    <3>2. /\ p <= Memory!Issued(e)
          /\ p <= done[e] => Past(used[b])
          /\ p > done[e] => Before(used[b], pending[e][p - done[e]])
      BY <2>1, <2>6, <3>1 DEF Covered
    <3>3. /\ Len(pending[e]) \in Nat /\ Len(pending'[e]) \in Nat /\ done[e] \in Nat
          /\ Memory!Issued(e) = done[e] + Len(pending[e]) /\ DOMAIN pending'[e] = 1 .. Len(pending'[e])
      BY <1>3, <1>4 DEF Memory!Issued
    <3>4. ASSUME p <= done'[e] PROVE Past(v)'
      <4>1. CASE p <= done[e] BY <2>4, <3>2, <4>1
      <4>2. CASE p > done[e]
        <5>1. e = s /\ p - done[e] = 1 BY <1>3, <3>3, <3>4, <4>2
        <5>2. Before(used[b], Head(pending[s])) BY <1>3, <3>2, <4>2, <5>1
        <5> QED BY <1>2, <2>3, <5>2
      <4> QED BY <3>3, <4>1, <4>2
    <3>5. ASSUME p > done'[e] PROVE Before(used[b], pending[e][p - done[e]])'
      <4>1. p > done[e] /\ p - done'[e] \in 1 .. Len(pending'[e]) BY <1>3, <3>2, <3>3, <3>5, SMTT(30)
      <4>2. PICK d : d = pending'[e][p - done'[e]] OBVIOUS
      <4>3. /\ d \in Clock /\ d = Memory!Settled(pending[e][p - done[e]], s)
            /\ pending[e][p - done[e]] \in Clock
        <5>1. CASE e = s
          <6>1. (p - done'[s]) + 1 = p - done[s] BY <1>3, <3>3, <5>1
          <6>2. PICK i : i = p - done'[s] OBVIOUS
          <6>3. i \in DOMAIN pending'[s] /\ pending'[s] \in Seq(Clock) /\ d = pending'[s][i]
            BY <1>3, <3>3, <4>1, <4>2, <5>1, <6>2
          <6>4. i + 1 \in DOMAIN pending[s] /\ pending'[s][i] = Memory!Settled(pending[s][i + 1], s)
            BY <1>3, <6>3
          <6>5. d \in Clock /\ pending[s][i + 1] \in Clock BY <1>4, <6>3, <6>4
          <6> QED BY <5>1, <6>1, <6>2, <6>3, <6>4, <6>5
        <5>2. CASE e # s
          <6>1. done'[e] = done[e] BY <1>3, <5>2
          <6> QED BY <1>3, <1>4, <3>3, <4>1, <4>2, <5>2, <6>1
        <5> QED BY <5>1, <5>2
      <4>4. Before(v, d)' BY <1>2, <2>3, <3>2, <4>1, <4>3
      <4> QED BY <2>2, <4>2, <4>4 DEF Before
    <3>6. Memory!Issued(e)' = Memory!Issued(e) BY <1>2
    <3>7. event'[b] = <<e, p>> BY <1>4, <3>1
    <3>8. p <= done'[e] => Past(used[b])' BY <2>2, <3>4 DEF Past
    <3>9. /\ p > done[e] => p <= sees[e][e]
          /\ \A d \in Clock : Held(d) /\ p <= d[e] => Before(used[b], d)
      BY <2>1, <2>6, <3>1 DEF Followed
    <3>10. p > done'[e] => p <= sees'[e][e]
      <4>1. sees'[e][e] = sees[e][e] \/ sees[e][e] <= done'[e] BY <1>2, <1>4
      <4>2. done'[e] \in Nat /\ done[e] <= done'[e] /\ sees[e][e] \in Nat
        BY <1>2, <1>4, <1>5 DEF MemTypes, Clock
      <4> QED BY <3>3, <3>9, <4>1, <4>2
    <3>11. ASSUME NEW c \in Clock, Held(c)', p <= c[e] PROVE Before(v, c)'
      <4>1. PICK d \in Clock : Held(d) /\ c = Memory!Settled(d, s) BY <1>2, <3>11
      <4>2. p <= d[e] BY <1>2, <1>4, <3>11, <4>1
      <4> QED BY <1>2, <2>3, <3>9, <4>1, <4>2
    <3>12. \A c \in Clock : Held(c)' /\ p <= c[e] => Before(used[b], c)' BY <2>2, <3>11 DEF Before
    <3> QED BY <3>2, <3>5, <3>6, <3>7, <3>8, <3>10, <3>12 DEF Covered, Followed
  <2>7. event[b] = Memory!NoEvent => Past(used[b])' BY <2>1, <2>2, <2>4 DEF Past
  <2> QED BY <1>4, <2>5, <2>6, <2>7
<1>9. Owned' BY <1>1, <1>4 DEF Owned
<1> QED BY <1>5, <1>6, <1>7, <1>8, <1>9 DEF MemInv

(* Clock w joins what stream q sees with clock c, for the next unit of q. *)
Joins(w, c, q) ==
  /\ w[q] = Memory!Issued(q) + 1
  /\ \A r \in Streams : /\ sees[q][r] <= w[r] /\ c[r] <= w[r]
                        /\ r # q => w[r] = c[r] \/ w[r] = sees[q][r]

(* Some streams are given a unit, which waits for what they saw before and
   see from now on. *)
Given(q) ==
  \/ pending'[q] = pending[q] /\ sees'[q] = sees[q]
  \/ /\ pending'[q] = Append(pending[q], sees'[q])
     /\ \A r \in Streams : sees'[q][r] <= Memory!Issued(r)'
     /\ \E c \in Clock : Held(c) /\ Joins(sees'[q], c, q)

(* Nothing that was issued before is disturbed. *)
LEMMA Issuing ==
  ASSUME MemTypes, Bounded, Latest, UNCHANGED done, sees' \in [Streams -> Clock],
         \A q \in Streams : Given(q)
  PROVE  /\ \A q \in Streams : pending'[q] \in Seq(Clock) /\ Memory!Issued(q) <= Memory!Issued(q)'
         /\ \A q \in Streams : \A i \in DOMAIN pending[q] :
               i \in DOMAIN pending'[q] /\ pending'[q][i] = pending[q][i]
         /\ \A q \in Streams : \A i \in DOMAIN pending'[q] : pending'[q][i][q] <= done'[q] + i
         /\ \A q \in Streams : \A i \in DOMAIN pending'[q] : \A r \in Streams :
               pending'[q][i][r] <= Memory!Issued(r)'
         /\ \A q, r \in Streams :
               /\ sees'[q][r] <= Memory!Issued(r)'
               /\ sees[q][r] <= sees'[q][r] /\ sees'[q][r] \in Nat
         /\ \A c \in Clock : Held(c)' =>
               Held(c) \/ \E q \in Streams, d \in Clock : Held(d) /\ c = sees'[q] /\ Joins(c, d, q)
         /\ Latest'
         /\ \A u \in Clock : \A q \in Streams : Before(u, sees[q]) =>
               \A r \in Streams : u[r] <= sees'[q][r] \/ u[r] <= done[r]
<1>1. /\ \A q \in Streams : pending[q] \in Seq(Clock) /\ sees[q] \in Clock /\ sees'[q] \in Clock
      /\ \A q \in Streams : done[q] \in Nat /\ Memory!Issued(q) \in Nat
      /\ \A c \in Clock : \A r \in Streams : c[r] \in Nat
  BY ClockFacts DEF MemTypes, Clock
<1>2. ASSUME NEW q \in Streams
      PROVE  /\ pending'[q] \in Seq(Clock) /\ Memory!Issued(q) <= Memory!Issued(q)'
             /\ pending'[q] = pending[q] \/ Memory!Issued(q)' = Memory!Issued(q) + 1
             /\ \A i \in DOMAIN pending[q] :
                    i \in DOMAIN pending'[q] /\ pending'[q][i] = pending[q][i]
             /\ \A i \in DOMAIN pending'[q] :
                   \/ i \in DOMAIN pending[q]
                   \/ done[q] + i = Memory!Issued(q) + 1 /\ pending'[q][i] = sees'[q]
             /\ pending'[q] # pending[q] =>
                   pending'[q] # <<>> /\ pending'[q][Len(pending'[q])] = sees'[q]
  <2>1. CASE pending'[q] = pending[q] BY <1>1, <2>1 DEF Memory!Issued
  <2>2. CASE pending'[q] = Append(pending[q], sees'[q])
    <3>1. /\ pending'[q] \in Seq(Clock) /\ Len(pending'[q]) = Len(pending[q]) + 1
          /\ \A i \in 1 .. Len(pending[q]) : pending'[q][i] = pending[q][i]
          /\ pending'[q][Len(pending[q]) + 1] = sees'[q]
      BY <1>1, <2>2, AppendProperties
    <3>2. Len(pending[q]) \in Nat /\ DOMAIN pending[q] = 1 .. Len(pending[q]) BY <1>1
    <3>3. DOMAIN pending'[q] = 1 .. Len(pending[q]) + 1 /\ pending'[q] # <<>> BY <3>1, <3>2
    <3>4. Memory!Issued(q) = done[q] + Len(pending[q]) /\ Memory!Issued(q)' = done[q] + (Len(pending[q]) + 1)
      BY <3>1 DEF Memory!Issued
    <3>5. \A i \in DOMAIN pending'[q] :
             i \in DOMAIN pending[q] \/ (done[q] + i = Memory!Issued(q) + 1 /\ pending'[q][i] = sees'[q])
      <4>1. \A n \in Nat : \A i \in 1 .. n + 1 : i \in 1 .. n \/ i = n + 1 OBVIOUS
      <4>2. \A i \in DOMAIN pending'[q] : i \in DOMAIN pending[q] \/ i = Len(pending[q]) + 1
        BY <3>2, <3>3, <4>1
      <4>3. done[q] + (Len(pending[q]) + 1) = Memory!Issued(q) + 1 BY <1>1, <3>2, <3>4
      <4> QED BY <3>1, <4>2, <4>3
    <3>6. Memory!Issued(q)' = Memory!Issued(q) + 1 BY <1>1, <3>2, <3>4
    <3>7. \A i \in DOMAIN pending[q] : i \in DOMAIN pending'[q] /\ pending'[q][i] = pending[q][i]
      BY <3>1, <3>2, <3>3
    <3>8. pending'[q][Len(pending'[q])] = sees'[q] BY <3>1
    <3> QED BY <1>1, <3>1, <3>3, <3>5, <3>6, <3>7, <3>8
  <2> QED BY <2>1, <2>2 DEF Given
<1>3. ASSUME NEW q \in Streams, NEW i \in DOMAIN pending'[q]
      PROVE  pending'[q][i][q] <= done'[q] + i
  <2>1. CASE i \in DOMAIN pending[q] BY <1>2, <1>3, <2>1 DEF Bounded
  <2>2. CASE i \notin DOMAIN pending[q]
    <3>1. pending'[q][i] = sees'[q] /\ done[q] + i = Memory!Issued(q) + 1 /\ pending'[q] # pending[q]
      BY <1>2, <1>3, <2>2
    <3>2. sees'[q][q] = Memory!Issued(q) + 1 BY <3>1 DEF Given, Joins
    <3> QED BY <1>1, <3>1, <3>2
  <2> QED BY <2>1, <2>2
<1>4. ASSUME NEW q \in Streams, NEW r \in Streams PROVE sees'[q][r] <= Memory!Issued(r)'
  <2>1. CASE sees'[q] = sees[q]
    <3>1. sees[q][r] <= Memory!Issued(r) /\ Memory!Issued(r) <= Memory!Issued(r)' /\ sees[q][r] \in Nat
      BY <1>1, <1>2 DEF Bounded
    <3>2. Memory!Issued(r)' = Memory!Issued(r) \/ Memory!Issued(r)' = Memory!Issued(r) + 1
      BY <1>1, <1>2 DEF Memory!Issued
    <3> QED BY <1>1, <2>1, <3>1, <3>2
  <2>2. CASE sees'[q] # sees[q] BY <2>2 DEF Given
  <2> QED BY <2>1, <2>2
<1>5. ASSUME NEW q \in Streams
      PROVE  /\ pending'[q] = <<>> => Past(sees[q])'
             /\ pending'[q] # <<>> => Before(sees[q], pending[q][Len(pending[q])])'
  <2>1. CASE pending'[q] = pending[q] /\ sees'[q] = sees[q] BY <2>1 DEF Latest, Past, Before
  <2>2. CASE ~(pending'[q] = pending[q] /\ sees'[q] = sees[q])
    <3>1. pending'[q] = Append(pending[q], sees'[q]) BY <2>2 DEF Given
    <3>2. pending'[q] # pending[q]
      <4>1. Len(pending'[q]) = Len(pending[q]) + 1 /\ Len(pending[q]) \in Nat
        BY <1>1, <3>1, AppendProperties
      <4> QED BY <4>1
    <3>3. pending'[q] # <<>> /\ pending'[q][Len(pending'[q])] = sees'[q] BY <1>2, <3>2
    <3>4. \A r \in Streams : sees'[q][r] <= sees'[q][r] BY <1>1
    <3> QED BY <3>3, <3>4 DEF Before
  <2> QED BY <2>1, <2>2
<1>6. ASSUME NEW u \in Clock, NEW q \in Streams, Before(u, sees[q]), NEW r \in Streams
      PROVE  u[r] <= sees'[q][r] \/ u[r] <= done[r]
  <2>1. u[r] <= sees[q][r] \/ u[r] <= done[r] BY <1>6 DEF Before
  <2>2. sees[q][r] <= sees'[q][r] BY <1>1 DEF Given, Joins
  <2> QED BY <1>1, <2>1, <2>2
<1>7. Latest' BY <1>5 DEF Latest
<1>8. ASSUME NEW q \in Streams, NEW i \in DOMAIN pending'[q], NEW r \in Streams
      PROVE  pending'[q][i][r] <= Memory!Issued(r)'
  <2>1. CASE i \in DOMAIN pending[q]
    <3>1. pending[q][i] \in Clock /\ pending[q][i][r] <= Memory!Issued(r) BY <1>1, <2>1 DEF Bounded
    <3>2. Memory!Issued(r)' = Memory!Issued(r) \/ Memory!Issued(r)' = Memory!Issued(r) + 1
      BY <1>1, <1>2 DEF Memory!Issued
    <3> QED BY <1>1, <1>2, <2>1, <3>1, <3>2
  <2>2. CASE i \notin DOMAIN pending[q] BY <1>2, <1>4, <1>8, <2>2
  <2> QED BY <2>1, <2>2
<1>9. ASSUME NEW q \in Streams, NEW r \in Streams
      PROVE  sees[q][r] <= sees'[q][r] /\ sees'[q][r] \in Nat
  BY <1>1 DEF Given, Joins
<1>10. ASSUME NEW c \in Clock, Held(c)'
       PROVE  Held(c) \/ \E q \in Streams, d \in Clock : Held(d) /\ c = sees'[q] /\ Joins(c, d, q)
  <2>1. \A q \in Streams : c = sees'[q] =>
           Held(c) \/ \E d \in Clock : Held(d) /\ Joins(c, d, q)
    BY DEF Given, Held
  <2>2. \A q \in Streams : \A i \in DOMAIN pending'[q] :
           pending'[q][i] = sees'[q] \/ (i \in DOMAIN pending[q] /\ pending'[q][i] = pending[q][i])
    BY <1>2
  <2>3. (\E q \in Streams : c = sees'[q]) \/ Held(c) BY <1>10, <2>2 DEF Held
  <2> QED BY <2>1, <2>3
<1> QED BY <1>2, <1>3, <1>4, <1>6, <1>7, <1>8, <1>9, <1>10

(* So the event of a free block is still worth what it was. *)
LEMMA TimedKept ==
  ASSUME MemTypes, Bounded, Latest, UNCHANGED done, sees' \in [Streams -> Clock],
         \A q \in Streams : Given(q),
         NEW b \in Blocks, event'[b] = event[b], used'[b] = used[b], Timed(b)
  PROVE  Timed(b)'
<1>1. event[b] = Memory!NoEvent => Past(used[b])' BY DEF Timed, Past
<1>2. ASSUME event[b] # Memory!NoEvent 
      PROVE  Covered(b, event[b][1], event[b][2])' /\ Followed(b, event[b][1], event[b][2])'
  <2>1. PICK e \in Streams, p \in Nat : event[b] = <<e, p>> BY <1>2 DEF MemTypes
  <2>2. /\ p <= Memory!Issued(e)
        /\ p <= done[e] => Past(used[b])
        /\ p > done[e] => Before(used[b], pending[e][p - done[e]])
        /\ p > done[e] => p <= sees[e][e]
        /\ \A d \in Clock : Held(d) /\ p <= d[e] => Before(used[b], d)
    BY <1>2, <2>1 DEF Timed, Covered, Followed
  <2>3. /\ Memory!Issued(e) <= Memory!Issued(e)'
        /\ \A i \in DOMAIN pending[e] : pending'[e][i] = pending[e][i]
        /\ pending'[e] \in Seq(Clock)
    BY Issuing
  <2>4. /\ Len(pending[e]) \in Nat /\ Len(pending'[e]) \in Nat /\ done[e] \in Nat
        /\ Memory!Issued(e) = done[e] + Len(pending[e]) /\ Memory!Issued(e)' = done[e] + Len(pending'[e])
        /\ DOMAIN pending[e] = 1 .. Len(pending[e])
    BY <2>3 DEF MemTypes, Clock, Memory!Issued
  <2>5. p > done[e] => p - done[e] \in DOMAIN pending[e] BY <2>2, <2>4
  <2>6. p > done[e] => pending'[e][p - done[e]] = pending[e][p - done[e]] BY <2>3, <2>5
  <2>7. p <= Memory!Issued(e)' BY <2>2, <2>3, <2>4
  <2>8. p <= done[e] => Past(used[b])' BY <2>2 DEF Past
  <2>9. p > done[e] => Before(used[b], pending[e][p - done[e]])' BY <2>2, <2>6 DEF Before
  <2>10. /\ used[b] \in Clock /\ \A q \in Streams : sees[q] \in Clock /\ sees'[q] \in Clock
         /\ \A c \in Clock, r \in Streams : c[r] \in Nat
         /\ \A q, r \in Streams : sees[q][r] <= sees'[q][r]
    BY Issuing DEF MemTypes, Clock
  <2>11. p > done[e] => p <= sees'[e][e] BY <2>2, <2>10
  <2>12. ASSUME NEW c \in Clock, Held(c)', p <= c[e] PROVE Before(used[b], c)
    <3>1. CASE Held(c) BY <2>2, <2>12, <3>1
    <3>2. CASE p <= done[e] BY <2>2, <3>2 DEF Past, Before
    <3>3. CASE ~Held(c) /\ p > done[e]
      <4>1. PICK q \in Streams, d \in Clock : Held(d) /\ c = sees'[q] /\ Joins(c, d, q)
        BY <2>12, <3>3, Issuing
      <4>2. PICK f \in {d, sees[q]} : p <= f[e]
        <5>1. CASE e = q BY <2>2, <3>3, <5>1
        <5>2. CASE e # q BY <2>12, <4>1, <5>2 DEF Joins
        <5> QED BY <5>1, <5>2
      <4>3. Before(used[b], f) /\ f \in Clock BY <2>2, <2>10, <4>1, <4>2 DEF Held
      <4>4. \A r \in Streams : f[r] <= c[r] BY <4>1, <4>2 DEF Joins
      <4> QED BY <2>10, <4>3, <4>4 DEF Before
    <3> QED BY <2>4, <3>1, <3>2, <3>3
  <2>13. \A c \in Clock : Held(c)' /\ p <= c[e] => Before(used[b], c)' BY <2>12 DEF Before
  <2> QED BY <2>1, <2>7, <2>8, <2>9, <2>11, <2>13 DEF Covered, Followed
<1> QED BY <1>1, <1>2 DEF Timed

(* What the steps of the pool and of the application have to keep. *)
LEMMA PoolStep ==
  ASSUME MemInv, MemTypes', Owned', UNCHANGED done, \A q \in Streams : Given(q),
         \A b \in Blocks, r \in Streams : used'[b][r] <= Memory!Issued(r)',
         \A e \in Events, q \in Streams, p \in Nat :
            mark'[e] = <<q, p>> => mark[e] = <<q, p>> \/ p <= Memory!Issued(q)',
         \A b \in Blocks : heap'[b] = "free" =>
            Timed(b)' /\ \A s \in safe'[b] : Entitled(b, s)'
  PROVE  MemInv'
<1>1. MemTypes /\ Bounded /\ Latest /\ sees' \in [Streams -> Clock] BY DEF MemInv, MemTypes
<1>2. /\ \A q \in Streams : \A i \in DOMAIN pending'[q] : pending'[q][i][q] <= done'[q] + i
      /\ \A q \in Streams : \A i \in DOMAIN pending'[q] : \A r \in Streams :
            pending'[q][i][r] <= Memory!Issued(r)'
      /\ \A q, r \in Streams : sees'[q][r] <= Memory!Issued(r)'
      /\ \A q \in Streams : Memory!Issued(q) <= Memory!Issued(q)'
      /\ Latest'
  BY <1>1, Issuing
<1>3. Bounded'
  <2>1. ASSUME NEW e \in Events, NEW q \in Streams, NEW p \in Nat, mark'[e] = <<q, p>>
        PROVE  p <= Memory!Issued(q)'
    <3>1. CASE mark[e] = <<q, p>>
      <4>1. p <= Memory!Issued(q) /\ Memory!Issued(q) <= Memory!Issued(q)' /\ Memory!Issued(q) \in Nat
        BY <1>1, <1>2, <3>1, StateFacts DEF Bounded
      <4>2. Memory!Issued(q)' \in Nat
        <5>1. Len(pending'[q]) \in Nat /\ done'[q] \in Nat BY DEF MemTypes, Clock
        <5> QED BY <5>1 DEF Memory!Issued
      <4> QED BY <4>1, <4>2
    <3> QED BY <2>1, <3>1
  <2> QED BY <1>2, <2>1 DEF Bounded
<1>4. Freed' BY DEF Freed
<1> QED BY <1>2, <1>3, <1>4 DEF MemInv

(* Stream s is given one unit, which waits for clock w. *)
LEMMA AddFacts ==
  ASSUME MemTypes, Bounded, NEW s \in Streams, UNCHANGED done,
         NEW w \in Clock, NEW c \in Clock, Held(c), Joins(w, c, s),
         pending' = [pending EXCEPT ![s] = Append(@, w)], sees' = [sees EXCEPT ![s] = w]
  PROVE  /\ pending' \in [Streams -> Seq(Clock)] /\ sees' \in [Streams -> Clock]
         /\ \A q \in Streams : Given(q)
         /\ sees'[s] = w
         /\ Len(pending'[s]) = Len(pending[s]) + 1
         /\ pending'[s][Len(pending[s]) + 1] = w
         /\ \A q \in Streams : Memory!Issued(q)' = IF q = s THEN Memory!Issued(q) + 1 ELSE Memory!Issued(q)
<1>1. /\ pending \in [Streams -> Seq(Clock)] /\ sees \in [Streams -> Clock]
      /\ \A q \in Streams : Memory!Issued(q) \in Nat
  BY ClockFacts DEF MemTypes
<1>2. /\ pending'[s] = Append(pending[s], w)
      /\ \A q \in Streams : q # s => pending'[q] = pending[q]
  BY <1>1
<1>3. /\ pending'[s] \in Seq(Clock) /\ Len(pending'[s]) = Len(pending[s]) + 1
      /\ pending'[s][Len(pending[s]) + 1] = w
  BY <1>1, <1>2, AppendProperties
<1>4. sees'[s] = w /\ \A q \in Streams : q # s => sees'[q] = sees[q] BY <1>1
<1>5. \A q \in Streams : Memory!Issued(q)' = IF q = s THEN Memory!Issued(q) + 1 ELSE Memory!Issued(q)
  <2>1. Len(pending[s]) \in Nat /\ done[s] \in Nat BY <1>1 DEF MemTypes, Clock
  <2>2. Memory!Issued(s)' = done[s] + (Len(pending[s]) + 1) BY <1>3 DEF Memory!Issued
  <2>3. Memory!Issued(s)' = Memory!Issued(s) + 1
    <3>1. \A m, n \in Nat : m + (n + 1) = (m + n) + 1 OBVIOUS
    <3> QED BY <2>1, <2>2, <3>1, Zenon DEF Memory!Issued
  <2>4. \A q \in Streams : q # s => Memory!Issued(q)' = Memory!Issued(q) BY <1>2 DEF Memory!Issued
  <2> QED BY <2>3, <2>4
<1>6. pending' \in [Streams -> Seq(Clock)] /\ sees' \in [Streams -> Clock] BY <1>1, <1>2, <1>3
<1>7. Given(s)
  <2>1. \A r \in Streams : sees[s][r] <= Memory!Issued(r) /\ c[r] <= Memory!Issued(r) BY DEF Bounded, Held
  <2>2. \A r \in Streams : w[r] <= Memory!Issued(r)'
    <3> TAKE r \in Streams
    <3>1. CASE r = s BY <1>1, <1>5, <3>1 DEF Joins
    <3>2. CASE r # s BY <1>5, <2>1, <3>2 DEF Joins
    <3> QED BY <3>1, <3>2
  <2> QED BY <1>2, <1>4, <2>2 DEF Given
<1>8. \A q \in Streams : q # s => Given(q) BY <1>2, <1>4 DEF Given
<1> QED BY <1>3, <1>4, <1>5, <1>6, <1>7, <1>8

(* Such a unit is the one that waits for what the stream sees. *)
LEMMA GiveFacts ==
  ASSUME MemTypes, Bounded, NEW s \in Streams, Memory!Give(s), UNCHANGED done
  PROVE  /\ pending' \in [Streams -> Seq(Clock)] /\ sees' \in [Streams -> Clock]
         /\ \A q \in Streams : Given(q)
         /\ sees'[s] = Memory!Ticked(s)
         /\ Len(pending'[s]) = Len(pending[s]) + 1
         /\ pending'[s][Len(pending[s]) + 1] = Memory!Ticked(s)
         /\ \A q \in Streams : Memory!Issued(q)' = IF q = s THEN Memory!Issued(q) + 1 ELSE Memory!Issued(q)
<1>1. /\ Memory!Ticked(s) \in Clock /\ sees[s] \in Clock /\ Held(sees[s])
      /\ \A r \in Streams : Memory!Ticked(s)[r] = IF r = s THEN Memory!Issued(s) + 1 ELSE sees[s][r]
  BY ClockFacts DEF MemTypes, Held
<1>2. \A r \in Streams : sees[s][r] \in Nat /\ sees[s][r] <= Memory!Issued(r) /\ Memory!Issued(r) \in Nat
  BY StateFacts
<1>3. Joins(Memory!Ticked(s), sees[s], s) BY <1>1, <1>2 DEF Joins
<1> QED BY <1>1, <1>3, AddFacts DEF Memory!Give

(* A free block that stays as it is. *)
LEMMA KeptFree ==
  ASSUME MemTypes, Bounded, Latest, Freed, UNCHANGED done, sees' \in [Streams -> Clock],
         \A q \in Streams : Given(q),
         NEW b \in Blocks, heap[b] = "free",
         event'[b] = event[b], used'[b] = used[b], safe'[b] = safe[b], excused'[b] = excused[b]
  PROVE  Timed(b)' /\ \A s \in safe'[b] : Entitled(b, s)'
<1>1. Timed(b) /\ safe[b] \subseteq Streams /\ \A s \in safe[b] : Entitled(b, s) BY DEF Freed, MemTypes
<1>2. Timed(b)' BY <1>1, TimedKept
<1>3. ASSUME NEW s \in Streams, Memory!AfterFree(s, b) PROVE Memory!AfterFree(s, b)'
  <2>1. \A r \in Streams : done'[r] \in Nat /\ done[r] <= done'[r] BY DEF MemTypes, Clock
  <2>2. \A r \in Streams : sees'[s][r] \in Nat /\ sees[s][r] <= sees'[s][r] BY Issuing
  <2> QED BY <1>3, <2>1, <2>2, AfterKept
<1> QED BY <1>1, <1>2, <1>3 DEF Entitled

(* A block without a use left is as good as one that was never used. *)
LEMMA PastIsSafe ==
  ASSUME NEW b \in Blocks, UNCHANGED done, Past(used[b]), used'[b] = used[b],
         event'[b] = Memory!NoEvent
  PROVE  Timed(b)' /\ \A s \in safe'[b] : Entitled(b, s)'
BY DEF Past, Timed, Entitled, Memory!AfterFree, Memory!Retired

(* A step of the pool that gives the GPU nothing. *)
LEMMA Given0 == ASSUME UNCHANGED <<pending, sees>> PROVE \A q \in Streams : Given(q)
BY DEF Given

----------------------------------------
(* The application uses a block on a stream. *)
LEMMA UseStep ==
  ASSUME MemInv, NEW s \in Streams, NEW b \in Blocks, Memory!Use(s, b)
  PROVE  MemInv'
<1>1. MemTypes /\ Bounded /\ Latest /\ Freed /\ Owned BY DEF MemInv
<1>2. /\ heap[b] = "busy" /\ Memory!Give(s) /\ UNCHANGED <<done, heap, safe, event, user, mark, waiting, excused>>
      /\ used' = [used EXCEPT ![b] = [@ EXCEPT ![s] = Memory!Issued(s) + 1]]
  BY DEF Memory!Use
<1>3. /\ pending' \in [Streams -> Seq(Clock)] /\ sees' \in [Streams -> Clock]
      /\ \A q \in Streams : Given(q)
      /\ \A q \in Streams : Memory!Issued(q)' = IF q = s THEN Memory!Issued(q) + 1 ELSE Memory!Issued(q)
  BY <1>1, <1>2, GiveFacts
<1>4. \A q \in Streams : Memory!Issued(q) \in Nat BY <1>1, ClockFacts
<1>5. \A c \in Blocks : c # b => used'[c] = used[c] BY <1>1, <1>2 DEF MemTypes
<1>6. /\ used'[b] \in Clock /\ used'[b][s] = Memory!Issued(s) + 1
      /\ \A r \in Streams : r # s => used'[b][r] = used[b][r]
  <2>1. used[b] \in Clock BY <1>1 DEF MemTypes
  <2>2. used'[b] = [used[b] EXCEPT ![s] = Memory!Issued(s) + 1] BY <1>1, <1>2 DEF MemTypes
  <2> QED BY <1>4, <2>1, <2>2 DEF Clock
<1>7. MemTypes'
  <2>1. used' \in [Blocks -> Clock] BY <1>1, <1>2, <1>6 DEF MemTypes
  <2> QED BY <1>1, <1>2, <1>3, <2>1 DEF MemTypes
<1>8. Owned' BY <1>1, <1>2 DEF Owned
<1>9. ASSUME NEW c \in Blocks, NEW r \in Streams PROVE used'[c][r] <= Memory!Issued(r)'
  <2>1. used[c][r] <= Memory!Issued(r) /\ used[c][r] \in Nat /\ Memory!Issued(r) \in Nat
    BY <1>1, <1>4 DEF Bounded, MemTypes, Clock
  <2>2. Memory!Issued(r)' = Memory!Issued(r) \/ Memory!Issued(r)' = Memory!Issued(r) + 1 BY <1>3
  <2>3. used'[c][r] = used[c][r] \/ (r = s /\ used'[c][r] = Memory!Issued(r) + 1) BY <1>5, <1>6
  <2>4. CASE used'[c][r] = used[c][r] BY <2>1, <2>2, <2>4
  <2>5. CASE r = s /\ used'[c][r] = Memory!Issued(r) + 1 BY <1>3, <2>1, <2>5
  <2> QED BY <2>3, <2>4, <2>5
<1>10. ASSUME NEW c \in Blocks, heap'[c] = "free"
       PROVE  Timed(c)' /\ \A q \in safe'[c] : Entitled(c, q)'
  <2>1. /\ c # b /\ heap[c] = "free" /\ used'[c] = used[c] /\ event'[c] = event[c]
        /\ safe'[c] = safe[c] /\ excused'[c] = excused[c]
    BY <1>2, <1>5, <1>10
  <2> QED BY <1>1, <1>2, <1>3, <2>1, KeptFree
<1> QED BY <1>2, <1>3, <1>7, <1>8, <1>9, <1>10, PoolStep

(* The application records an event. *)
LEMMA RecordStep ==
  ASSUME MemInv, NEW s \in Streams, NEW e \in Events, Memory!Record(s, e)
  PROVE  MemInv'
<1>1. MemTypes /\ Bounded /\ Latest /\ Freed /\ Owned BY DEF MemInv
<1>2. /\ Memory!Give(s) /\ UNCHANGED <<done, heap, safe, event, waiting, user, used, excused>>
      /\ mark' = [mark EXCEPT ![e] = <<s, Memory!Issued(s) + 1>>]
  BY DEF Memory!Record
<1>3. /\ pending' \in [Streams -> Seq(Clock)] /\ sees' \in [Streams -> Clock]
      /\ \A q \in Streams : Given(q)
      /\ \A q \in Streams : Memory!Issued(q)' = IF q = s THEN Memory!Issued(q) + 1 ELSE Memory!Issued(q)
  BY <1>1, <1>2, GiveFacts
<1>4. PICK p \in Nat : p = Memory!Issued(s) + 1 BY <1>1, ClockFacts
<1>5. mark'[e] = <<s, p>> /\ \A f \in Events : f # e => mark'[f] = mark[f]
  BY <1>1, <1>2, <1>4 DEF MemTypes
<1>6. MemTypes'
  <2>1. mark' \in [Events -> (Streams \X Nat) \cup {Memory!NoEvent}] BY <1>1, <1>2, <1>4 DEF MemTypes
  <2>2. \A f \in Events : mark[f] # Memory!NoEvent => mark'[f] # Memory!NoEvent BY <1>5 DEF Memory!NoEvent
  <2>3. waiting' \in SUBSET (Streams \X {f \in Events : mark'[f] # Memory!NoEvent})
    BY <1>1, <1>2, <2>2 DEF MemTypes
  <2> QED BY <1>1, <1>2, <1>3, <2>1, <2>3 DEF MemTypes
<1>7. Owned' BY <1>1, <1>2 DEF Owned
<1>8. \A c \in Blocks, r \in Streams : used'[c][r] <= Memory!Issued(r)'
  <2> TAKE c \in Blocks, r \in Streams
  <2>1. Memory!Issued(r)' = Memory!Issued(r) \/ Memory!Issued(r)' = Memory!Issued(r) + 1 BY <1>3
  <2> QED BY <1>1, <1>2, <2>1, StateFacts
<1>9. ASSUME NEW c \in Blocks, heap'[c] = "free"
      PROVE  Timed(c)' /\ \A q \in safe'[c] : Entitled(c, q)'
  BY <1>1, <1>2, <1>3, <1>9, KeptFree
<1>10. \A f \in Events, q \in Streams, n \in Nat :
          mark'[f] = <<q, n>> => mark[f] = <<q, n>> \/ n <= Memory!Issued(q)'
  <2>1. p = Memory!Issued(s)' BY <1>3, <1>4
  <2>2. \A q \in Streams, n \in Nat : mark'[e] = <<q, n>> => q = s /\ n = p BY <1>5
  <2>3. ASSUME NEW f \in Events, NEW q \in Streams, NEW n \in Nat, mark'[f] = <<q, n>>, f = e
        PROVE  n <= Memory!Issued(q)'
    <3>1. q = s /\ n = p BY <2>2, <2>3
    <3> QED BY <2>1, <3>1
  <2> QED BY <1>5, <2>3
<1> QED BY <1>2, <1>3, <1>6, <1>7, <1>8, <1>9, <1>10, PoolStep

(* Another stream becomes safe wherever the stream of an event is. *)
LEMMA WaitStep ==
  ASSUME MemInv, NEW r \in Streams, NEW e \in Events, Memory!Wait(r, e)
  PROVE  MemInv'
<1>1. MemTypes /\ Bounded /\ Latest /\ Freed /\ Owned BY DEF MemInv
<1>2. PICK s \in Streams : s = mark[e][1]
  <2>1. mark[e] \in Streams \X Nat BY <1>1 DEF MemTypes, Memory!Wait
  <2> QED BY <2>1
<1>3. /\ UNCHANGED <<pending, done, sees, heap, event, mark, user, used>>
      /\ mark[e] # Memory!NoEvent /\ waiting' = waiting \cup {<<r, e>>}
      /\ safe' = [b \in Blocks |-> Memory!Joined(s, r, b)]
      /\ excused' = [b \in Blocks |->
            IF heap[b] = "free" /\ Entitled(b, s) THEN excused[b] \cup {r} ELSE excused[b]]
  BY <1>2 DEF Memory!Wait, Entitled
<1>4. \A b \in Blocks :
         /\ safe'[b] = safe[b] \/ (heap[b] = "free" /\ s \in safe[b] /\ safe'[b] = safe[b] \cup {r})
         /\ excused[b] \subseteq excused'[b]
         /\ heap[b] = "free" /\ Entitled(b, s) => r \in excused'[b]
  BY <1>3 DEF Memory!Joined
<1>5. MemTypes'
  <2>1. safe' \in [Blocks -> SUBSET Streams] /\ excused' \in [Blocks -> SUBSET Streams]
    BY <1>1, <1>3 DEF Memory!Joined, MemTypes
  <2>2. waiting' \in SUBSET (Streams \X {f \in Events : mark'[f] # Memory!NoEvent})
    BY <1>1, <1>3 DEF MemTypes
  <2> QED BY <1>1, <1>3, <2>1, <2>2 DEF MemTypes
<1>6. Owned' BY <1>1, <1>3, <1>4 DEF Owned
<1>7. \A b \in Blocks, q \in Streams : used'[b][q] <= Memory!Issued(q)'
  BY <1>1, <1>3 DEF Bounded, Memory!Issued
<1>8. ASSUME NEW b \in Blocks, heap'[b] = "free"
      PROVE  Timed(b)' /\ \A q \in safe'[b] : Entitled(b, q)'
  <2>1. heap[b] = "free" /\ Timed(b) /\ \A q \in safe[b] : Entitled(b, q) BY <1>1, <1>3, <1>8 DEF Freed
  <2>2. Timed(b)' BY <1>3, <2>1 DEF Timed, Covered, Followed, Held, Past, Before, Memory!Issued
  <2>3. ASSUME NEW q \in safe[b] PROVE Entitled(b, q)'
    BY <1>3, <1>4, <2>1
       DEF Entitled, Memory!AfterFree, Memory!Retired, Memory!Follows
  <2>4. s \in safe[b] => Entitled(b, r)' BY <1>4, <2>1 DEF Entitled
  <2> QED BY <1>4, <2>2, <2>3, <2>4
<1> QED BY <1>3, <1>5, <1>6, <1>7, <1>8, Given0, PoolStep

(* And then waits for the event. *)
LEMMA StreamWaitStep ==
  ASSUME MemInv, NEW r \in Streams, NEW e \in Events, Memory!StreamWait(r, e)
  PROVE  MemInv'
<1>1. MemTypes /\ Bounded /\ Latest /\ Freed /\ Owned BY DEF MemInv
<1>2. PICK s \in Streams, p \in Nat : mark[e] = <<s, p>>
  <2>1. mark[e] \in Streams \X Nat
    <3>1. mark[e] # Memory!NoEvent BY <1>1 DEF MemTypes, Memory!StreamWait
    <3> QED BY <1>1, <3>1 DEF MemTypes
  <2> QED BY <2>1
<1>3. /\ UNCHANGED <<done, heap, safe, event, mark, user, used, excused>>
      /\ waiting' = waiting \ {<<r, e>>}
  BY DEF Memory!StreamWait
<1>4. /\ pending' \in [Streams -> Seq(Clock)] /\ sees' \in [Streams -> Clock]
      /\ \A q \in Streams : Given(q)
      /\ \A q \in Streams : Memory!Issued(q) <= Memory!Issued(q)'
  <2>1. CASE UNCHANGED <<pending, sees>>
    <3>1. \A q \in Streams : Memory!Issued(q)' = Memory!Issued(q) /\ Memory!Issued(q) \in Nat
      BY <1>1, <1>3, <2>1, ClockFacts DEF Memory!Issued
    <3> QED BY <1>1, <2>1, <3>1, Given0 DEF MemTypes
  <2>2. CASE ~UNCHANGED <<pending, sees>>
    <3>1. PICK c : c = pending[s][p - done[s]] OBVIOUS
    <3>2. PICK w : w = Memory!Join(c, Memory!Ticked(r)) OBVIOUS
    <3>3. /\ s # r /\ ~(p <= done[s])
          /\ pending' = [pending EXCEPT ![r] = Append(@, w)] /\ sees' = [sees EXCEPT ![r] = w]
      BY <1>2, <2>2, <3>1, <3>2 DEF Memory!StreamWait
    <3>4. c \in Clock /\ Held(c) /\ \A q \in Streams : c[q] <= Memory!Issued(q) /\ c[q] \in Nat
      <4>1. p <= Memory!Issued(s) BY <1>1, <1>2 DEF Bounded
      <4>2. done[s] \in Nat /\ pending[s] \in Seq(Clock) BY <1>1 DEF MemTypes, Clock
      <4>3. p - done[s] \in DOMAIN pending[s] BY <3>3, <4>1, <4>2 DEF Memory!Issued
      <4>4. c \in Clock BY <3>1, <4>2, <4>3
      <4> QED BY <1>1, <3>1, <4>3, <4>4 DEF Bounded, Held, Clock
    <3>5. /\ Memory!Ticked(r) \in Clock
          /\ \A q \in Streams : Memory!Ticked(r)[q] = IF q = r THEN Memory!Issued(r) + 1 ELSE sees[r][q]
          /\ \A q \in Streams : sees[r][q] \in Nat /\ sees[r][q] <= Memory!Issued(q) /\ Memory!Issued(q) \in Nat
      BY <1>1, ClockFacts, StateFacts
    <3>6. /\ w \in Clock
          /\ \A q \in Streams : w[q] = IF c[q] >= Memory!Ticked(r)[q] THEN c[q] ELSE Memory!Ticked(r)[q]
      BY <1>1, <3>2, <3>4, <3>5, ClockFacts
    <3>7. Joins(w, c, r)
      <4>1. w[r] = Memory!Issued(r) + 1 BY <3>4, <3>5, <3>6
      <4>2. ASSUME NEW q \in Streams
            PROVE  /\ sees[r][q] <= w[q] /\ c[q] <= w[q]
                   /\ q # r => w[q] = c[q] \/ w[q] = sees[r][q]
        <5>1. CASE q = r BY <3>4, <3>5, <4>1, <5>1
        <5>2. CASE q # r BY <3>4, <3>5, <3>6, <5>2
        <5> QED BY <5>1, <5>2
      <4> QED BY <4>1, <4>2 DEF Joins
    <3>8. /\ pending' \in [Streams -> Seq(Clock)] /\ sees' \in [Streams -> Clock]
          /\ \A q \in Streams : Given(q)
          /\ \A q \in Streams : Memory!Issued(q)' = IF q = r THEN Memory!Issued(q) + 1 ELSE Memory!Issued(q)
      BY <1>1, <1>3, <3>3, <3>4, <3>6, <3>7, AddFacts
    <3> QED BY <3>5, <3>8
  <2> QED BY <2>1, <2>2
<1>5. MemTypes'
  <2>1. waiting' \in SUBSET (Streams \X {f \in Events : mark'[f] # Memory!NoEvent})
    BY <1>1, <1>3 DEF MemTypes
  <2> QED BY <1>1, <1>3, <1>4, <2>1 DEF MemTypes
<1>6. Owned' BY <1>1, <1>3 DEF Owned
<1>7. \A b \in Blocks, q \in Streams : used'[b][q] <= Memory!Issued(q)'
  <2> TAKE b \in Blocks, q \in Streams
  <2>1. /\ used[b][q] \in Nat /\ used[b][q] <= Memory!Issued(q)
        /\ Memory!Issued(q) <= Memory!Issued(q)' /\ Memory!Issued(q) \in Nat
    BY <1>1, <1>4, StateFacts
  <2>2. Memory!Issued(q)' \in Nat
    <3>1. Len(pending'[q]) \in Nat /\ done'[q] \in Nat BY <1>5 DEF MemTypes, Clock
    <3> QED BY <3>1 DEF Memory!Issued
  <2> QED BY <1>3, <2>1, <2>2
<1>8. ASSUME NEW b \in Blocks, heap'[b] = "free"
      PROVE  Timed(b)' /\ \A q \in safe'[b] : Entitled(b, q)'
  BY <1>1, <1>3, <1>4, <1>8, KeptFree
<1> QED BY <1>3, <1>4, <1>5, <1>6, <1>7, <1>8, PoolStep

(* What is left where blocks B are freed and blocks E given back. *)
LEMMA PutAwayFacts ==
  ASSUME MemTypes, NEW B \in SUBSET Blocks, NEW E \in SUBSET Blocks,
         Memory!PutAway(B, E),
         \A c \in E : c \notin B
  PROVE  /\ heap' \in [Blocks -> {"none", "busy", "free"}]
         /\ user' \in [Blocks -> (Streams \X Nat) \cup {Memory!Nobody}]
         /\ used' \in [Blocks -> Clock]
         /\ \A c \in B : heap'[c] = "free"
         /\ \A c \in E : heap'[c] = "none"
         /\ \A c \in E : \A r \in Streams : used'[c][r] = 0
         /\ \A c \in Blocks \ E : used'[c] = used[c]
         /\ \A c \in Blocks \ B : user'[c] = user[c]
         /\ \A c \in Blocks \ (B \cup E) : heap'[c] = heap[c]
<1>1. Memory!Zero \in Clock /\ \A r \in Streams : Memory!Zero[r] = 0 BY DEF Memory!Zero, Clock
<1>2. /\ heap' \in [Blocks -> {"none", "busy", "free"}]
      /\ \A c \in B : heap'[c] = "free"
      /\ \A c \in E : heap'[c] = "none"
      /\ \A c \in Blocks \ (B \cup E) : heap'[c] = heap[c]
  BY DEF Memory!PutAway, MemTypes
<1>3. /\ user' \in [Blocks -> (Streams \X Nat) \cup {Memory!Nobody}]
      /\ \A c \in Blocks \ B : user'[c] = user[c]
  BY DEF Memory!PutAway, MemTypes
<1>4. /\ used' \in [Blocks -> Clock] /\ \A c \in Blocks \ E : used'[c] = used[c]
      /\ \A c \in E : used'[c] = Memory!Zero
  BY <1>1 DEF Memory!PutAway, MemTypes
<1> QED BY <1>1, <1>2, <1>3, <1>4

----------------------------------------
(* What is left where a block goes to stream s. *)
LEMMA BusyFacts ==
  ASSUME MemTypes, Bounded, NEW s \in Streams, NEW b \in Blocks, Memory!MakeBusy(b, s)
  PROVE  /\ heap' \in [Blocks -> {"none", "busy", "free"}]
         /\ safe' \in [Blocks -> SUBSET Streams] /\ excused' \in [Blocks -> SUBSET Streams]
         /\ user' \in [Blocks -> (Streams \X Nat) \cup {Memory!Nobody}]
         /\ used' \in [Blocks -> Clock]
         /\ UNCHANGED <<pending, done, sees, mark, waiting>>
         /\ heap'[b] = "busy" /\ safe'[b] = {s} /\ user'[b] = <<s, Memory!Issued(s)>>
         /\ \A c \in Blocks : c # b => /\ heap'[c] = heap[c] /\ safe'[c] = safe[c]
                                      /\ user'[c] = user[c] /\ used'[c] = used[c]
                                      /\ excused'[c] = excused[c]
         /\ \A c \in Blocks, r \in Streams : used'[c][r] <= Memory!Issued(r)'
<1>1. /\ UNCHANGED <<pending, done, sees, mark, waiting>>
      /\ heap' = [heap EXCEPT ![b] = "busy"] /\ safe' = [safe EXCEPT ![b] = {s}]
      /\ user' = [user EXCEPT ![b] = <<s, Memory!Issued(s)>>]
      /\ excused' = [excused EXCEPT ![b] = {}]
      /\ used' = [used EXCEPT ![b] = [r \in Streams |-> IF Memory!Follows(s, r, @[r]) THEN @[r] ELSE 0]]
  BY DEF Memory!MakeBusy, Memory!SafeOnce
<1>2. Memory!Issued(s) \in Nat BY ClockFacts
<1>3. /\ heap' \in [Blocks -> {"none", "busy", "free"}]
      /\ safe' \in [Blocks -> SUBSET Streams] /\ excused' \in [Blocks -> SUBSET Streams]
      /\ user' \in [Blocks -> (Streams \X Nat) \cup {Memory!Nobody}]
      /\ heap'[b] = "busy" /\ safe'[b] = {s} /\ user'[b] = <<s, Memory!Issued(s)>>
      /\ \A c \in Blocks : c # b => /\ heap'[c] = heap[c] /\ safe'[c] = safe[c]
                                   /\ user'[c] = user[c] /\ excused'[c] = excused[c]
  BY <1>1, <1>2 DEF MemTypes
<1>4. /\ used \in [Blocks -> Clock] /\ \A c \in Blocks, r \in Streams : used[c][r] \in Nat
  BY DEF MemTypes, Clock
<1>5. PICK f : f = [r \in Streams |-> IF Memory!Follows(s, r, used[b][r]) THEN used[b][r] ELSE 0] OBVIOUS
<1>6. f \in Clock /\ \A r \in Streams : f[r] = used[b][r] \/ f[r] = 0 BY <1>4, <1>5 DEF Clock
<1>7. used' = [used EXCEPT ![b] = f] BY <1>1, <1>5
<1>8. /\ used' \in [Blocks -> Clock] /\ used'[b] = f
      /\ \A c \in Blocks : c # b => used'[c] = used[c]
  BY <1>4, <1>6, <1>7
<1>9. ASSUME NEW c \in Blocks, NEW r \in Streams PROVE used'[c][r] <= Memory!Issued(r)'
  <2>1. Memory!Issued(r)' = Memory!Issued(r) BY <1>1 DEF Memory!Issued
  <2>2. used[c][r] <= Memory!Issued(r) /\ Memory!Issued(r) \in Nat BY StateFacts
  <2> QED BY <1>6, <1>8, <2>1, <2>2
<1> QED BY <1>1, <1>3, <1>8, <1>9

(* AllocateMemory() takes a free block. *)
LEMMA ReuseStep ==
  ASSUME Memory!MemoryAssumption, MemInv, NEW s \in Streams, NEW n, Memory!Reuse(s, n)
  PROVE  /\ MemInv'
         /\ \A b \in Blocks : heap[b] = "free" =>
               /\ heap'[b] = "busy" =>
                     /\ user'[b][1] = s
                     /\ Memory!Ordered(used[b], s) \/ (s \in excused[b] /\ ~Memory!AfterFree(s, b))
               /\ heap'[b] # "none"
<1>1. MemTypes /\ Bounded /\ Latest /\ Freed /\ Owned BY DEF MemInv
<1>2. Memory!Accepted(s, n) \subseteq Memory!Free /\ Memory!Free \subseteq Blocks
  BY DEF Memory!Accepted, Memory!Free
<1>3. Memory!Min(Memory!Accepted(s, n)) \in Memory!Accepted(s, n)
  <2>1. Memory!Accepted(s, n) \in SUBSET Nat /\ Memory!Accepted(s, n) # {}
    BY <1>2 DEF Memory!MemoryAssumption, Memory!Reuse
  <2> QED BY <2>1, MinOfSet
<1>4. PICK b \in Blocks : b = Memory!Min(Memory!Accepted(s, n)) BY <1>2, <1>3
<1>5. heap[b] = "free" /\ (s \in safe[b] \/ Memory!Retired(b))
  BY <1>3, <1>4 DEF Memory!Accepted, Memory!Free, Memory!IsSafeFind, Memory!Retired
<1>6. Memory!MakeBusy(b, s) /\ UNCHANGED event BY <1>4 DEF Memory!Reuse
<1>7. /\ heap' \in [Blocks -> {"none", "busy", "free"}]
      /\ safe' \in [Blocks -> SUBSET Streams] /\ excused' \in [Blocks -> SUBSET Streams]
      /\ user' \in [Blocks -> (Streams \X Nat) \cup {Memory!Nobody}]
      /\ used' \in [Blocks -> Clock]
      /\ UNCHANGED <<pending, done, sees, mark, waiting>>
      /\ heap'[b] = "busy" /\ safe'[b] = {s} /\ user'[b] = <<s, Memory!Issued(s)>>
      /\ \A c \in Blocks : c # b => /\ heap'[c] = heap[c] /\ safe'[c] = safe[c]
                                   /\ user'[c] = user[c] /\ used'[c] = used[c]
                                   /\ excused'[c] = excused[c]
      /\ \A c \in Blocks, r \in Streams : used'[c][r] <= Memory!Issued(r)'
  BY <1>1, <1>6, BusyFacts
<1>8. MemTypes' BY <1>1, <1>6, <1>7 DEF MemTypes
<1>9. Owned' BY <1>1, <1>7 DEF Owned, Memory!Nobody
<1>10. Memory!Ordered(used[b], s) \/ (s \in excused[b] /\ ~Memory!AfterFree(s, b))
  <2>1. CASE Memory!AfterFree(s, b)
    <3>1. Before(used[b], sees[s]) /\ used[b] \in Clock BY <1>1, <1>5, <2>1, AfterIsOrdered DEF MemTypes
    <3> QED BY <1>1, <3>1, OrderedIsBefore
  <2>2. CASE ~Memory!AfterFree(s, b) BY <1>1, <1>5, <2>2 DEF Freed, Entitled, Memory!AfterFree
  <2> QED BY <2>1, <2>2
<1>11. ASSUME NEW c \in Blocks, heap'[c] = "free"
       PROVE  Timed(c)' /\ \A q \in safe'[c] : Entitled(c, q)'
  <2>1. /\ heap[c] = "free" /\ safe'[c] = safe[c] /\ event'[c] = event[c]
        /\ used'[c] = used[c] /\ excused'[c] = excused[c]
    BY <1>6, <1>7, <1>11
  <2>2. sees' \in [Streams -> Clock] BY <1>8 DEF MemTypes
  <2> QED BY <1>1, <1>7, <2>1, <2>2, Given0, KeptFree
<1>12. MemInv' BY <1>7, <1>8, <1>9, <1>11, Given0, PoolStep
<1> QED BY <1>7, <1>10, <1>12

(* AllocateMemory() makes a new block. *)
LEMMA AllocateStep ==
  ASSUME MemInv, NEW s \in Streams, NEW n, Memory!Allocate(s, n)
  PROVE  /\ MemInv'
         /\ \A b \in Blocks : heap[b] = "free" => heap'[b] = "free"
<1>1. MemTypes /\ Bounded /\ Latest /\ Freed /\ Owned BY DEF MemInv
<1>2. PICK b \in Blocks : /\ heap[b] = "none" /\ Memory!MakeBusy(b, s)
                          /\ event' = [event EXCEPT ![b] = Memory!NoEvent]
  BY DEF Memory!Allocate
<1>3. /\ heap' \in [Blocks -> {"none", "busy", "free"}]
      /\ safe' \in [Blocks -> SUBSET Streams] /\ excused' \in [Blocks -> SUBSET Streams]
      /\ user' \in [Blocks -> (Streams \X Nat) \cup {Memory!Nobody}]
      /\ used' \in [Blocks -> Clock]
      /\ UNCHANGED <<pending, done, sees, mark, waiting>>
      /\ heap'[b] = "busy" /\ safe'[b] = {s} /\ user'[b] = <<s, Memory!Issued(s)>>
      /\ \A c \in Blocks : c # b => /\ heap'[c] = heap[c] /\ safe'[c] = safe[c]
                                   /\ user'[c] = user[c] /\ used'[c] = used[c]
                                   /\ excused'[c] = excused[c]
      /\ \A c \in Blocks, r \in Streams : used'[c][r] <= Memory!Issued(r)'
  BY <1>1, <1>2, BusyFacts
<1>4. /\ event' \in [Blocks -> (Streams \X Nat) \cup {Memory!NoEvent}]
      /\ \A c \in Blocks : c # b => event'[c] = event[c]
  BY <1>1, <1>2 DEF MemTypes
<1>5. MemTypes' BY <1>1, <1>3, <1>4 DEF MemTypes
<1>6. Owned' BY <1>1, <1>3 DEF Owned, Memory!Nobody
<1>7. ASSUME NEW c \in Blocks, heap'[c] = "free"
      PROVE  Timed(c)' /\ \A q \in safe'[c] : Entitled(c, q)'
  <2>1. /\ heap[c] = "free" /\ safe'[c] = safe[c] /\ event'[c] = event[c]
        /\ used'[c] = used[c] /\ excused'[c] = excused[c]
    BY <1>3, <1>4, <1>7
  <2>2. sees' \in [Streams -> Clock] BY <1>5 DEF MemTypes
  <2> QED BY <1>1, <1>3, <2>1, <2>2, Given0, KeptFree
<1>8. MemInv' BY <1>3, <1>5, <1>6, <1>7, Given0, PoolStep
<1> QED BY <1>2, <1>3, <1>8

(* FreeMemory() puts a block into the free heap, with a marker of the
   stream that frees it, and gives back some that have retired. *)
LEMMA FreeAsyncStep ==
  ASSUME MemInv, NEW s \in Streams, NEW b \in Blocks, NEW low,
         Memory!FreeAsync(b, s, low)
  PROVE  /\ MemInv'
         /\ \A c \in Blocks : heap[c] = "free" =>
               heap'[c] # "busy" /\ (heap'[c] = "none" => Past(used[c]))
<1>1. MemTypes /\ Bounded /\ Latest /\ Freed /\ Owned BY DEF MemInv
<1>2. PICK E \in SUBSET Memory!Free : E = Memory!Shrunk(low) BY DEF Memory!Shrunk
<1>3. /\ heap[b] = "busy" /\ Memory!Ordered(used[b], s)
      /\ Memory!Give(s) /\ Memory!PutAway({b}, E) /\ UNCHANGED <<done, mark, waiting>>
      /\ \A c \in E : Memory!Retired(c)
      /\ safe' = [c \in Blocks |-> IF c = b THEN safe[c] \cup {s}
                                   ELSE IF c \in E THEN {} ELSE safe[c]]
      /\ event' = [c \in Blocks |-> IF c = b THEN <<s, Memory!Issued(s) + 1>>
                                    ELSE IF c \in E THEN Memory!NoEvent ELSE event[c]]
      /\ excused' = [c \in Blocks |-> IF c = b THEN {user[b][1]}
                                      ELSE IF c \in E THEN {} ELSE excused[c]]
  BY <1>2 DEF Memory!FreeAsync
<1>4. E \subseteq Blocks /\ b \notin E /\ \A c \in E : heap[c] = "free" BY <1>2, <1>3 DEF Memory!Free
<1>5. \A c \in E : Past(used[c]) BY <1>1, <1>3, <1>4, RetiredIsPast
<1>6. /\ heap' \in [Blocks -> {"none", "busy", "free"}]
      /\ user' \in [Blocks -> (Streams \X Nat) \cup {Memory!Nobody}]
      /\ used' \in [Blocks -> Clock]
      /\ heap'[b] = "free" /\ \A c \in E : heap'[c] = "none"
      /\ \A c \in E : \A r \in Streams : used'[c][r] = 0
      /\ \A c \in Blocks \ E : used'[c] = used[c]
      /\ \A c \in Blocks \ {b} : user'[c] = user[c]
      /\ \A c \in Blocks \ ({b} \cup E) : heap'[c] = heap[c]
  <2>1. PICK B \in SUBSET Blocks : B = {b} OBVIOUS
  <2>2. Memory!PutAway(B, E) /\ E \in SUBSET Blocks /\ \A c \in E : c \notin B BY <1>3, <1>4, <2>1
  <2>3. /\ heap' \in [Blocks -> {"none", "busy", "free"}]
        /\ user' \in [Blocks -> (Streams \X Nat) \cup {Memory!Nobody}]
        /\ used' \in [Blocks -> Clock]
        /\ \A c \in B : heap'[c] = "free"
        /\ \A c \in E : heap'[c] = "none"
        /\ \A c \in E : \A r \in Streams : used'[c][r] = 0
        /\ \A c \in Blocks \ E : used'[c] = used[c]
        /\ \A c \in Blocks \ B : user'[c] = user[c]
        /\ \A c \in Blocks \ (B \cup E) : heap'[c] = heap[c]
    BY <1>1, <2>2, PutAwayFacts
  <2> QED BY <2>1, <2>3
<1>7. /\ pending' \in [Streams -> Seq(Clock)] /\ sees' \in [Streams -> Clock]
      /\ \A q \in Streams : Given(q)
      /\ sees'[s] = Memory!Ticked(s)
      /\ Len(pending'[s]) = Len(pending[s]) + 1
      /\ pending'[s][Len(pending[s]) + 1] = Memory!Ticked(s)
      /\ \A q \in Streams : Memory!Issued(q)' = IF q = s THEN Memory!Issued(q) + 1 ELSE Memory!Issued(q)
  BY <1>1, <1>3, GiveFacts
<1>8. /\ safe'[b] = {user[b][1], s} /\ excused'[b] = {user[b][1]} /\ user[b][1] \in Streams
      /\ event'[b] = <<s, Memory!Issued(s) + 1>>
      /\ \A c \in Blocks \ ({b} \cup E) :
            safe'[c] = safe[c] /\ event'[c] = event[c] /\ excused'[c] = excused[c]
  BY <1>1, <1>3 DEF Owned, MemTypes
<1>9. MemTypes'
  <2>1. Memory!Issued(s) + 1 \in Nat BY <1>1, ClockFacts
  <2>2. event' \in [Blocks -> (Streams \X Nat) \cup {Memory!NoEvent}] BY <1>1, <1>3, <2>1 DEF MemTypes
  <2>3. safe' \in [Blocks -> SUBSET Streams] /\ excused' \in [Blocks -> SUBSET Streams]
    BY <1>1, <1>3, <1>8 DEF MemTypes
  <2> QED BY <1>1, <1>3, <1>6, <1>7, <2>2, <2>3 DEF MemTypes
<1>10. Owned'
  <2> SUFFICES ASSUME NEW c \in Blocks, heap'[c] = "busy"
               PROVE  user'[c] # Memory!Nobody /\ safe'[c] = {user'[c][1]}
    BY DEF Owned
  <2>1. c # b /\ c \notin E BY <1>6
  <2> QED BY <1>1, <1>6, <1>8, <2>1 DEF Owned
<1>11. ASSUME NEW c \in Blocks, NEW r \in Streams PROVE used'[c][r] <= Memory!Issued(r)'
  <2>1. Memory!Issued(r)' = Memory!Issued(r) \/ Memory!Issued(r)' = Memory!Issued(r) + 1 BY <1>7
  <2>2. used[c][r] <= Memory!Issued(r) /\ used[c][r] \in Nat /\ Memory!Issued(r) \in Nat
    BY <1>1, StateFacts
  <2>3. used'[c][r] = used[c][r] \/ used'[c][r] = 0 BY <1>6
  <2> QED BY <2>1, <2>2, <2>3
<1>12. Timed(b)' /\ \A q \in safe'[b] : Entitled(b, q)'
  <2>1. used[b] \in Clock /\ used'[b] = used[b] /\ Before(used[b], sees[s])
    <3>1. used[b] \in Clock BY <1>1 DEF MemTypes
    <3> QED BY <1>1, <1>3, <1>4, <1>6, <3>1, OrderedIsBefore
  <2>2. \A r \in Streams : used[b][r] <= Memory!Ticked(s)[r] \/ used[b][r] <= done[r]
    BY <1>1, <1>3, <1>7, <2>1, Issuing
  <2>4. Memory!Issued(s) + 1 <= Memory!Issued(s)' /\ Memory!Issued(s) + 1 > done'[s]
    BY <1>1, <1>3, <1>7, ClockFacts
  <2>5. (Memory!Issued(s) + 1) - done'[s] = Len(pending[s]) + 1
    <3>1. done[s] \in Nat /\ Len(pending[s]) \in Nat /\ Memory!Issued(s) = done[s] + Len(pending[s])
      BY <1>1, StateFacts DEF Memory!Issued
    <3>2. \A m, n \in Nat : ((m + n) + 1) - m = n + 1 OBVIOUS
    <3> QED BY <1>3, <3>1, <3>2, Zenon
  <2>6. PICK p \in Nat : p = Memory!Issued(s) + 1 BY <1>1, ClockFacts
  <2>7. Before(used[b], pending[s][p - done[s]])' BY <1>3, <1>7, <2>1, <2>2, <2>5, <2>6 DEF Before
  <2>3. sees'[s][s] = p BY <1>1, <1>7, <2>6, ClockFacts
  <2>8. Covered(b, s, p)'
    <3>1. p <= Memory!Issued(s)' /\ ~(p <= done'[s]) BY <1>1, <1>3, <2>4, <2>6, StateFacts
    <3> QED BY <2>7, <3>1 DEF Covered
  <2>9. event'[b] = <<s, p>> /\ <<s, p>> # Memory!NoEvent BY <1>8, <2>6 DEF Memory!NoEvent
  <2>10. ASSUME NEW c \in Clock, Held(c)', p <= c[s] PROVE Before(used[b], c)'
    <3>1. CASE Held(c)
      <4>1. c[s] <= Memory!Issued(s) /\ c[s] \in Nat /\ Memory!Issued(s) \in Nat
        BY <1>1, <3>1, StateFacts DEF Bounded, Held, Clock
      <4> QED BY <2>6, <2>10, <4>1
    <3>2. CASE ~Held(c)
      <4>1. PICK q \in Streams, d \in Clock : Held(d) /\ c = sees'[q] /\ Joins(c, d, q)
        BY <1>1, <1>3, <1>7, <2>10, <3>2, Issuing
      <4>2. CASE q = s BY <1>3, <1>7, <2>1, <2>2, <4>1, <4>2 DEF Before
      <4>3. CASE q # s
        <5>1. c = sees[q] BY <1>1, <1>3, <4>1, <4>3 DEF Memory!Give, MemTypes
        <5> QED BY <3>2, <5>1 DEF Held
      <4> QED BY <4>2, <4>3
    <3> QED BY <3>1, <3>2
  <2>11. Followed(b, s, p)'
    <3>1. \A c \in Clock : Held(c)' /\ p <= c[s] => Before(used[b], c)' BY <2>10
    <3>2. p <= sees'[s][s] BY <2>3
    <3> QED BY <3>1, <3>2 DEF Followed
  <2>12. Timed(b)' BY <2>8, <2>9, <2>11 DEF Timed
  <2>13. Memory!AfterFree(s, b)' BY <2>3, <2>9 DEF Memory!AfterFree, Memory!Follows
  <2> QED BY <1>8, <2>12, <2>13 DEF Entitled
<1>13. ASSUME NEW c \in Blocks, heap'[c] = "free"
       PROVE  Timed(c)' /\ \A q \in safe'[c] : Entitled(c, q)'
  <2>1. CASE c = b BY <1>12, <2>1
  <2>2. CASE c # b
    <3>1. c \notin E BY <1>6, <1>13
    <3>2. /\ heap[c] = "free" /\ safe'[c] = safe[c] /\ event'[c] = event[c]
          /\ used'[c] = used[c] /\ excused'[c] = excused[c]
      BY <1>6, <1>8, <1>13, <2>2, <3>1
    <3> QED BY <1>1, <1>3, <1>7, <3>2, KeptFree
  <2> QED BY <2>1, <2>2
<1>14. MemInv' BY <1>3, <1>7, <1>9, <1>10, <1>11, <1>13, PoolStep
<1>15. ASSUME NEW c \in Blocks, heap[c] = "free"
       PROVE  heap'[c] # "busy" /\ (heap'[c] = "none" => Past(used[c]))
  BY <1>3, <1>5, <1>6, <1>15
<1> QED BY <1>14, <1>15

(* ReleaseFreedMemory() gives back what has retired, and hipFree() frees a
   block once the device is idle. *)
LEMMA MemReleaseStep ==
  ASSUME MemInv, NEW B \in SUBSET Blocks,
         \A b \in B : heap[b] = "busy" /\ Past(used[b]),
         Memory!Release(Memory!Releasable, B)
  PROVE  /\ MemInv'
         /\ \A c \in Blocks : heap[c] = "free" =>
               heap'[c] # "busy" /\ (heap'[c] = "none" => Past(used[c]))
<1>1. MemTypes /\ Bounded /\ Latest /\ Freed /\ Owned BY DEF MemInv
<1>2. PICK E \in SUBSET Blocks : E = Memory!Releasable BY DEF Memory!Releasable, Memory!Free
<1>3. \A c \in E : heap[c] = "free" /\ c \notin B /\ Past(used[c])
  BY <1>1, <1>2, RetiredIsPast DEF Memory!Releasable, Memory!Free
<1>4. /\ Memory!PutAway(B, E) /\ UNCHANGED <<pending, done, sees, mark, waiting>>
      /\ safe' = [b \in Blocks |-> IF b \in E THEN {} ELSE safe[b]]
      /\ event' = [b \in Blocks |-> IF b \in E \cup B THEN Memory!NoEvent ELSE event[b]]
      /\ excused' = [b \in Blocks |-> IF b \in E THEN {} ELSE excused[b]]
  BY <1>2 DEF Memory!Release
<1>5. /\ heap' \in [Blocks -> {"none", "busy", "free"}]
      /\ user' \in [Blocks -> (Streams \X Nat) \cup {Memory!Nobody}]
      /\ used' \in [Blocks -> Clock]
      /\ \A c \in B : heap'[c] = "free"
      /\ \A c \in E : heap'[c] = "none"
      /\ \A c \in E : \A r \in Streams : used'[c][r] = 0
      /\ \A c \in Blocks \ E : used'[c] = used[c]
      /\ \A c \in Blocks \ B : user'[c] = user[c]
      /\ \A c \in Blocks \ (B \cup E) : heap'[c] = heap[c]
  BY <1>1, <1>3, <1>4, PutAwayFacts
<1>6. MemTypes'
  <2>1. /\ event' \in [Blocks -> (Streams \X Nat) \cup {Memory!NoEvent}]
        /\ safe' \in [Blocks -> SUBSET Streams] /\ excused' \in [Blocks -> SUBSET Streams]
    BY <1>1, <1>4 DEF MemTypes
  <2> QED BY <1>1, <1>4, <1>5, <2>1 DEF MemTypes
<1>7. Owned'
  <2> SUFFICES ASSUME NEW c \in Blocks, heap'[c] = "busy"
               PROVE  user'[c] # Memory!Nobody /\ safe'[c] = {user'[c][1]}
    BY DEF Owned
  <2>1. c \notin B /\ c \notin E BY <1>5
  <2>2. heap[c] = "busy" /\ user'[c] = user[c] /\ safe'[c] = safe[c] BY <1>4, <1>5, <2>1
  <2> QED BY <1>1, <2>2 DEF Owned
<1>8. ASSUME NEW c \in Blocks, NEW r \in Streams PROVE used'[c][r] <= Memory!Issued(r)'
  <2>1. Memory!Issued(r)' = Memory!Issued(r) BY <1>4 DEF Memory!Issued
  <2>2. used[c][r] <= Memory!Issued(r) /\ used[c][r] \in Nat /\ Memory!Issued(r) \in Nat
    BY <1>1, StateFacts
  <2>3. used'[c][r] = used[c][r] \/ used'[c][r] = 0 BY <1>5
  <2> QED BY <2>1, <2>2, <2>3
<1>9. ASSUME NEW c \in Blocks, heap'[c] = "free"
      PROVE  Timed(c)' /\ \A q \in safe'[c] : Entitled(c, q)'
  <2>1. c \notin E BY <1>5, <1>9
  <2>2. CASE c \in B
    <3>1. Past(used[c]) /\ used'[c] = used[c] /\ event'[c] = Memory!NoEvent BY <1>4, <1>5, <2>1, <2>2
    <3> QED BY <1>4, <3>1, PastIsSafe
  <2>3. CASE c \notin B
    <3>1. /\ heap[c] = "free" /\ safe'[c] = safe[c] /\ event'[c] = event[c]
          /\ used'[c] = used[c] /\ excused'[c] = excused[c]
      BY <1>4, <1>5, <1>9, <2>1, <2>3
    <3>2. sees' \in [Streams -> Clock] BY <1>6 DEF MemTypes
    <3> QED BY <1>1, <1>4, <3>1, <3>2, Given0, KeptFree
  <2> QED BY <2>2, <2>3
<1>10. MemInv' BY <1>4, <1>6, <1>7, <1>8, <1>9, Given0, PoolStep
<1>11. ASSUME NEW c \in Blocks, heap[c] = "free"
       PROVE  heap'[c] # "busy" /\ (heap'[c] = "none" => Past(used[c]))
  BY <1>3, <1>5, <1>11
<1> QED BY <1>10, <1>11

(* What an idle device has done is all there was. *)
LEMMA IdleIsPast ==
  ASSUME MemTypes, Bounded, \A s \in Streams : pending[s] = <<>>, NEW b \in Blocks
  PROVE  Past(used[b])
<1>1. ASSUME NEW r \in Streams PROVE used[b][r] <= done[r]
  <2>1. Len(pending[r]) = 0 /\ done[r] \in Nat BY StateFacts
  <2>2. Memory!Issued(r) = done[r] BY <2>1 DEF Memory!Issued
  <2> QED BY <2>2, StateFacts
<1> QED BY <1>1 DEF Past

(* A stream without work is destroyed and another one takes its place. *)
LEMMA RecreateStep ==
  ASSUME MemInv, NEW s \in Streams, Memory!Recreate(s)
  PROVE  MemInv'
<1>1. MemTypes /\ Bounded /\ Latest /\ Freed /\ Owned BY DEF MemInv
<1>2. /\ pending[s] = <<>> /\ sees' = [sees EXCEPT ![s] = Memory!Zero]
      /\ UNCHANGED <<pending, done, heap, safe, event, mark, waiting, user, used, excused>>
  BY DEF Memory!Recreate, Memory!Drained
<1>3. Memory!Zero \in Clock /\ \A r \in Streams : Memory!Zero[r] = 0 BY DEF Memory!Zero, Clock
<1>4. /\ sees' \in [Streams -> Clock] /\ sees'[s] = Memory!Zero
      /\ \A q \in Streams : q # s => sees'[q] = sees[q]
  BY <1>1, <1>2, <1>3 DEF MemTypes
<1>5. \A r \in Streams : Memory!Issued(r)' = Memory!Issued(r) /\ Memory!Issued(r) \in Nat /\ done[r] \in Nat
  BY <1>1, <1>2, StateFacts DEF Memory!Issued
<1>6. MemTypes' /\ Owned' BY <1>1, <1>2, <1>4 DEF MemTypes, Owned
<1>7. Bounded'
  <2>1. \A q, r \in Streams : sees'[q][r] <= Memory!Issued(r)'
    <3> TAKE q \in Streams, r \in Streams
    <3>1. sees'[q][r] = 0 \/ sees'[q][r] = sees[q][r] BY <1>3, <1>4
    <3>2. sees[q][r] <= Memory!Issued(r) BY <1>1 DEF Bounded
    <3> QED BY <1>5, <3>1, <3>2
  <2>2. \A b \in Blocks, r \in Streams : used'[b][r] <= Memory!Issued(r)' BY <1>1, <1>2, <1>5 DEF Bounded
  <2>3. \A q \in Streams : \A i \in DOMAIN pending'[q] : pending'[q][i][q] <= done'[q] + i
    BY <1>1, <1>2 DEF Bounded
  <2>4. \A q \in Streams : \A i \in DOMAIN pending'[q] :
           \A r \in Streams : pending'[q][i][r] <= Memory!Issued(r)'
    BY <1>1, <1>2, <1>5 DEF Bounded
  <2>5. \A e \in Events, q \in Streams, p \in Nat : mark'[e] = <<q, p>> => p <= Memory!Issued(q)'
    BY <1>1, <1>2, <1>5 DEF Bounded
  <2> QED BY <2>1, <2>2, <2>3, <2>4, <2>5 DEF Bounded
<1>8. Latest'
  <2> SUFFICES ASSUME NEW q \in Streams
               PROVE  /\ pending'[q] = <<>> => Past(sees[q])'
                      /\ pending'[q] # <<>> => Before(sees[q], pending[q][Len(pending[q])])'
    BY DEF Latest
  <2>1. CASE q = s BY <1>2, <1>3, <1>4, <1>5, <2>1 DEF Past
  <2>2. CASE q # s BY <1>1, <1>2, <1>4, <2>2 DEF Latest, Past, Before
  <2> QED BY <2>1, <2>2
<1>9. Freed'
  <2> SUFFICES ASSUME NEW b \in Blocks, heap[b] = "free"
               PROVE  Timed(b)' /\ \A q \in safe'[b] : Entitled(b, q)'
    BY <1>2 DEF Freed
  <2>1. /\ Timed(b) /\ \A q \in safe[b] : Entitled(b, q)
        /\ safe[b] \subseteq Streams /\ used[b] \in Clock
        /\ event[b] \in (Streams \X Nat) \cup {Memory!NoEvent}
    BY <1>1 DEF Freed, MemTypes
  <2>2. CASE event[b] = Memory!NoEvent
    BY <1>2, <2>1, <2>2 DEF Timed, Past, Entitled, Memory!AfterFree, Memory!Retired
  <2>3. CASE event[b] # Memory!NoEvent
    <3>1. PICK e \in Streams, p \in Nat : event[b] = <<e, p>> BY <2>1, <2>3
    <3>2. Covered(b, e, p) /\ Followed(b, e, p) BY <2>1, <2>3, <3>1 DEF Timed
    <3>3. Covered(b, e, p)' BY <1>2, <3>2 DEF Covered, Past, Before, Memory!Issued
    <3>4. p > done[e] => p <= sees'[e][e]
      <4>1. CASE e = s
        <5>1. Memory!Issued(s) = done[s]
          <6>1. Len(pending[s]) = 0 /\ done[s] \in Nat BY <1>2, <1>5
          <6> QED BY <6>1 DEF Memory!Issued
        <5> QED BY <1>5, <3>2, <4>1, <5>1 DEF Covered
      <4>2. CASE e # s BY <1>4, <3>2, <4>2 DEF Followed
      <4> QED BY <4>1, <4>2
    <3>5. ASSUME NEW c \in Clock, Held(c)', p <= c[e] PROVE Before(used[b], c)'
      <4>1. CASE Held(c) BY <1>2, <3>2, <3>5, <4>1 DEF Followed, Before
      <4>2. CASE ~Held(c)
        <5>1. c = Memory!Zero BY <1>2, <1>4, <3>5, <4>2 DEF Held
        <5>2. p <= done[e] BY <1>3, <1>5, <3>5, <5>1
        <5>3. Past(used[b]) BY <3>2, <5>2 DEF Covered
        <5> QED BY <1>2, <5>3 DEF Past, Before
      <4> QED BY <4>1, <4>2
    <3>6. Timed(b)'
      <4>1. \A c \in Clock : Held(c)' /\ p <= c[e] => Before(used[b], c)' BY <3>5
      <4>2. Followed(b, e, p)' BY <1>2, <3>4, <4>1 DEF Followed
      <4>3. event'[b] = <<e, p>> BY <1>2, <3>1
      <4> QED BY <2>3, <3>1, <3>3, <4>2, <4>3 DEF Timed
    <3>7. ASSUME NEW q \in Streams, Memory!AfterFree(q, b) PROVE Memory!AfterFree(q, b)'
      <4>1. \A r \in Streams : sees[q][r] <= sees'[q][r] \/ sees[q][r] <= done'[r]
        <5>1. CASE q = s BY <1>1, <1>2, <5>1 DEF Latest, Past
        <5>2. CASE q # s BY <1>1, <1>4, <5>2, StateFacts
        <5> QED BY <5>1, <5>2
      <4>2. \A r \in Streams : sees'[q][r] \in Nat BY <1>4 DEF Clock
      <4>3. \A r \in Streams : done'[r] \in Nat /\ done[r] <= done'[r] BY <1>2, <1>5
      <4> QED BY <1>1, <1>2, <3>7, <4>1, <4>2, <4>3, AfterKept
    <3> QED BY <1>2, <2>1, <3>6, <3>7 DEF Entitled
  <2> QED BY <2>2, <2>3
<1> QED BY <1>6, <1>7, <1>8, <1>9 DEF MemInv

----------------------------------------
(* What may become of a free block in a step. *)
ReuseStepIsSafe ==
  \A b \in Blocks : heap[b] = "free" =>
     /\ heap'[b] = "busy" =>
           \/ Memory!Ordered(used[b], user'[b][1])
           \/ user'[b][1] \in excused[b] /\ ~Memory!AfterFree(user'[b][1], b)
     /\ heap'[b] = "none" => \A s \in Streams : used[b][s] <= done[s]

(* Every step keeps the invariant, and reuses blocks safely. *)
LEMMA MemStepInv ==
  ASSUME Memory!MemoryAssumption, MemInv, [Memory!Next]_(Memory!vars)
  PROVE  MemInv' /\ ReuseStepIsSafe
<1>1. ASSUME NEW s \in Streams, Memory!Complete(s) PROVE MemInv' /\ ReuseStepIsSafe
  BY <1>1, CompleteStep DEF Memory!Complete, ReuseStepIsSafe
<1>2. ASSUME NEW s \in Streams, Memory!Recreate(s) PROVE MemInv' /\ ReuseStepIsSafe
  BY <1>2, RecreateStep DEF Memory!Recreate, ReuseStepIsSafe
<1>3. ASSUME NEW s \in Streams, NEW e \in Events,
             Memory!Record(s, e) \/ Memory!Wait(s, e) \/ Memory!StreamWait(s, e)
      PROVE  MemInv' /\ ReuseStepIsSafe
  <2>1. UNCHANGED heap BY <1>3 DEF Memory!Record, Memory!Wait, Memory!StreamWait
  <2>2. MemInv' BY <1>3, RecordStep, WaitStep, StreamWaitStep
  <2> QED BY <2>1, <2>2 DEF ReuseStepIsSafe
<1>4. ASSUME NEW s \in Streams, NEW b \in Blocks, Memory!Use(s, b)
      PROVE  MemInv' /\ ReuseStepIsSafe
  BY <1>4, UseStep DEF Memory!Use, ReuseStepIsSafe
<1>5. ASSUME NEW s \in Streams, NEW n, Memory!Reuse(s, n)
      PROVE  MemInv' /\ ReuseStepIsSafe
  BY <1>5, ReuseStep DEF ReuseStepIsSafe
<1>6. ASSUME NEW s \in Streams, NEW n, Memory!Allocate(s, n)
      PROVE  MemInv' /\ ReuseStepIsSafe
  BY <1>6, AllocateStep DEF ReuseStepIsSafe
<1>7. ASSUME NEW s \in Streams, NEW b \in Blocks, NEW low, Memory!FreeAsync(b, s, low)
      PROVE  MemInv' /\ ReuseStepIsSafe
  BY <1>7, FreeAsyncStep DEF ReuseStepIsSafe, Past
<1>8. ASSUME NEW b \in Blocks, Memory!HipFree(b) PROVE MemInv' /\ ReuseStepIsSafe
  <2>1. Past(used[b]) BY <1>8, IdleIsPast DEF Memory!HipFree, MemInv
  <2> QED BY <1>8, <2>1, MemReleaseStep DEF Memory!HipFree, ReuseStepIsSafe, Past
<1>9. ASSUME Memory!Trim PROVE MemInv' /\ ReuseStepIsSafe
  <2>1. Memory!Release(Memory!Releasable, {}) BY <1>9 DEF Memory!Trim
  <2>2. {} \in SUBSET Blocks /\ \A b \in {} : heap[b] = "busy" /\ Past(used[b]) OBVIOUS
  <2>3. MemInv' /\ \A c \in Blocks : heap[c] = "free" =>
           heap'[c] # "busy" /\ (heap'[c] = "none" => Past(used[c]))
    BY <2>1, <2>2, MemReleaseStep
  <2> QED BY <2>3 DEF ReuseStepIsSafe, Past
<1>10. CASE UNCHANGED Memory!vars
  <2>1. UNCHANGED <<pending, done, sees, heap, safe, event, mark, waiting, user, used, excused>>
    BY <1>10 DEF Memory!vars
  <2>2. MemInv'
    BY <2>1 DEF MemInv, MemTypes, Bounded, Latest, Freed, Owned, Timed, Covered, Followed,
       Held, Entitled, Past, Before, Memory!Issued, Memory!AfterFree, Memory!Retired, Memory!Follows
  <2> QED BY <2>1, <2>2 DEF ReuseStepIsSafe
<1> QED BY <1>1, <1>2, <1>3, <1>4, <1>5, <1>6, <1>7, <1>8, <1>9, <1>10 DEF Memory!Next

(* A block that was freed goes to a stream only when each earlier use of
   it is complete or comes before the stream's next work, or to an excused
   one whose work does not follow the free, and back to the system only
   when each use is complete, for any streams, blocks and events. *)
THEOREM ReuseStaysSafe ==
  ASSUME Memory!MemoryAssumption
  PROVE  Memory!Spec => Memory!ReuseIsSafe
<1>1. Memory!Init => MemInv BY MemInitInv
<1>2. MemInv /\ [Memory!Next]_(Memory!vars) => MemInv' /\ [ReuseStepIsSafe]_(Memory!vars) BY MemStepInv
<1>3. [ReuseStepIsSafe]_(Memory!vars) =>
         [\A b \in Blocks : heap[b] = "free" =>
            /\ heap'[b] = "busy" =>
                  LET s == user'[b][1]
                  IN Memory!Ordered(used[b], s) \/ (s \in excused[b] /\ ~Memory!AfterFree(s, b))
            /\ heap'[b] = "none" => \A s \in Streams : used[b][s] <= done[s]]_(Memory!vars)
  BY DEF ReuseStepIsSafe
<1> QED BY <1>1, <1>2, <1>3, PTL DEF Memory!Spec, Memory!ReuseIsSafe

----------------------------------------
(* What Parts composes. *)

(* A behavior of the parts is a behavior of each of them. *)
LEMMA EachPart == Spec => Callbacks!Spec /\ Objects!Spec /\ Memory!Spec
<1>1. Init => Callbacks!Init /\ Objects!Init /\ Memory!Init BY DEF Init
<1>2. [Next]_<<part, eventVars, objectVars, memoryVars, graphVars>>
         => [Callbacks!Next]_(Callbacks!vars)
  BY DEF Next, eventVars, Callbacks!vars
<1>3. [Next]_<<part, eventVars, objectVars, memoryVars, graphVars>>
         => [Objects!Next]_(Objects!vars)
  BY DEF Next, objectVars, Objects!vars
<1>4. [Next]_<<part, eventVars, objectVars, memoryVars, graphVars>>
         => [Memory!Next]_(Memory!vars)
  BY DEF Next, memoryVars, Memory!vars
<1> QED BY <1>1, <1>2, <1>3, <1>4, PTL DEF Spec, Callbacks!Spec, Objects!Spec, Memory!Spec

(* Whatever the other parts do, the callbacks of an event run when they
   should (setStatus(), setCallback() and processCallbacks()). *)
THEOREM EventsAreHeard == ASSUME Callbacks!HistoriesAreSane PROVE Spec => []CallbacksRun
<1>1. Callbacks!CallbacksRun => CallbacksRun BY DEF CallbacksRun
<1> QED BY <1>1, EachPart, CallbacksAreRun, PTL

(* Whatever the other parts do, the commands' pool hands an object out
   once and deletes a chunk once (object.hpp, Alloc() and Free()). *)
THEOREM ObjectsStaySafe == ASSUME Objects!PoolAssumption PROVE Spec => []SlotsAreSafe
<1>1. Objects!SlotsAreSafe => SlotsAreSafe BY DEF SlotsAreSafe
<1> QED BY <1>1, EachPart, SlotsStaySafe, PTL

(* Whatever the other parts do, a block is reused and released after its
   earlier uses, but for an excused stream (hip_mempool_impl.cpp). *)
THEOREM MemoryStaysSafe == ASSUME Memory!MemoryAssumption PROVE Spec => ReuseIsSafe
  BY EachPart, ReuseStaysSafe DEF ReuseIsSafe
=============================================================================
