---------------------------- MODULE MonitorProofs ----------------------------
(* Proofs about the legacy monitor, for any set of threads, recursive or
   not, with or without spurious failures of compare_exchange_weak: the
   invariant IInv of module Monitor is inductive, what follows from it for
   the lock and for the nodes of the contender list, and what the monitor
   does for its clients: it implements AbstractMonitor, and, where
   compare_exchange_weak does not fail on an equal word, it loses no wakeup. *)
EXTENDS Monitor, FiniteSetTheorems, TLAPS

(* Semaphores are told apart by their thread and their role, and from the
   two sentinels of the on-deck word. *)
LEMMA SemFacts ==
  /\ \A t \in Threads : /\ LockSem(t) \in Sems /\ SuspendSem(t) \in Sems
                        /\ Mine(t) \in Sems
  /\ \A t, u \in Threads : Mine(t) = Mine(u) => t = u
  /\ None \notin Sems /\ Mark \notin Sems /\ None # Mark
  /\ None \notin Threads /\ Semaphores = Sems
BY SentinelAssumption, SemaphoresAssumption
   DEF LockSem, SuspendSem, Mine, Sems

(* Each role of each thread has a semaphore of its own. *)
LEMMA RoleFacts ==
  /\ \A t, u \in Threads : /\ LockSem(t) = LockSem(u) => t = u
                           /\ SuspendSem(t) = SuspendSem(u) => t = u
                           /\ LockSem(t) # SuspendSem(u)
  /\ \A t \in Threads : LockSem(t) \in Sems /\ SuspendSem(t) \in Sems
BY DEF LockSem, SuspendSem, Sems

(* Taking the head off a list of nodes or pushing one leaves such a list. *)
LEMMA ListFacts ==
  /\ <<>> \in Seq(Sems)
  /\ \A list \in Seq(Sems) :
       /\ list # <<>> => Head(list) \in Sems /\ Tail(list) \in Seq(Sems)
       /\ \A s \in Sems : <<s>> \o list \in Seq(Sems)
OBVIOUS

(* Initially nobody holds or wants anything. *)
LEMMA InitInv == Init => IInv
<1> SUFFICES ASSUME Init PROVE IInv OBVIOUS
<1> USE SemFacts, ListFacts DEF Init
<1>1. TypeOK
  <2>1. SemTypeOK /\ lockCount \in Nat BY DEF SemInit, SemTypeOK
  <2>2. pc \in [Threads -> Labels] BY DEF Labels
  <2>3. mode \in [Threads -> {"lock", "suspend"}] /\ rest \in [Threads -> Seq(Sems)] OBVIOUS
  <2>4. saved \in [Threads -> Nat] /\ depth \in [Threads -> Nat] OBVIOUS
  <2> QED BY <2>1, <2>2, <2>3, <2>4 DEF TypeOK
<1>2. PhaseInv /\ OwnerInv /\ MicrolockInv BY DEF PhaseInv, OwnerInv, MicrolockInv, Inside, Holds
<1>3. MutualExclusion /\ OnDeckIsStable BY DEF MutualExclusion, OnDeckIsStable, Inside, Holds
<1> QED BY <1>1, <1>2, <1>3 DEF IInv

----------------------------------------
(* The operations of a semaphore keep its counter an integer and its token
   count a natural number. *)
LEMMA SemaphoreOps ==
  ASSUME SemTypeOK, NEW s \in Semaphores
  PROVE  /\ Reset(s) => SemTypeOK'
         /\ Decrement(s) => SemTypeOK'
         /\ Take(s) => SemTypeOK'
         /\ Increment(s) => SemTypeOK'
         /\ Signal(s) => SemTypeOK'
<1> USE DEF SemTypeOK
<1>1. value[s] \in Int /\ tokens[s] \in Nat OBVIOUS
<1>2. Reset(s) => SemTypeOK' BY DEF Reset
<1>3. Decrement(s) => SemTypeOK' BY <1>1 DEF Decrement
<1>4. Take(s) => SemTypeOK' BY <1>1 DEF Take
<1>5. Increment(s) => SemTypeOK' BY <1>1 DEF Increment
<1>6. Signal(s) => SemTypeOK' BY <1>1 DEF Signal
<1> QED BY <1>2, <1>3, <1>4, <1>5, <1>6

(* Every step keeps the variables in their types: the lock count because
   only a thread inside decrements it, the lists because nodes move whole. *)
LEMMA TypeStep == IInv /\ [Next]_vars => TypeOK'
<1> SUFFICES ASSUME IInv, [Next]_vars PROVE TypeOK' OBVIOUS
<1> USE DEF IInv, TypeOK, wordVars, localVars
<1>0. UNCHANGED semVars => SemTypeOK' BY DEF SemTypeOK, semVars
<1>1. Top \in Sems \cup {None} BY ListFacts DEF Top
<1>2. \A l \in Trying : /\ CasOf(l) \in Labels /\ AfterSuccess(l) \in Labels
                        /\ AfterFailure(l) \subseteq Labels
  BY DEF Trying, CasOf, AfterSuccess, AfterFailure, Labels
<1>3. \A t \in Threads : Return(t) \in Labels BY DEF Return, Labels
<1>4. ASSUME NEW t \in Threads, NEW label \in Labels, Call(t, label) PROVE TypeOK'
  BY <1>4, <1>0 DEF Call, Goto
<1>5. ASSUME NEW t \in Threads, Unlock(t) PROVE TypeOK'
  <2>1. lockCount - 1 \in Nat /\ depth[t] - 1 \in Nat BY <1>5 DEF Unlock, OwnerInv, PhaseInv, Inside
  <2>2. lockCount' \in Nat /\ depth' \in [Threads -> Nat] BY <1>5, <2>1 DEF Unlock
  <2>3. pc' \in [Threads -> Labels] /\ owner' \in Threads \cup {None} BY <1>5 DEF Unlock, Goto, Labels
  <2> QED BY <1>5, <2>2, <2>3, <1>0 DEF Unlock
<1>6. ASSUME NEW t \in Threads, Wait(t) PROVE TypeOK'
  <2>1. "clear" \in Labels BY DEF Labels
  <2> QED BY <1>6, <2>1, SemFacts, ListFacts, SemaphoreOps DEF Wait, Goto
<1>7. ASSUME NEW t \in Threads, Notify(t) PROVE TypeOK' BY <1>7, ListFacts, <1>0 DEF Notify, MoveWaiter
<1>8. ASSUME NEW t \in Threads, NotifyAll(t) \/ NotifyNext(t) PROVE TypeOK'
  <2>1. "notifyAll" \in Labels /\ "inside" \in Labels BY DEF Labels
  <2> QED BY <1>8, <2>1, ListFacts, <1>0 DEF NotifyAll, NotifyNext, MoveWaiter, Goto
<1>9. ASSUME NEW t \in Threads, Relock(t) \/ FindLocked(t) \/ FindFree(t) PROVE TypeOK'
  <2>1. CASE Relock(t) BY <2>1, <1>2, <1>0 DEF Relock, Goto
  <2>2. CASE FindLocked(t) BY <2>2, <1>2, <1>0 DEF FindLocked, Goto
  <2>3. CASE FindFree(t) BY <2>3, <1>1, <1>2, <1>0 DEF FindFree, Goto
  <2> QED BY <1>9, <2>1, <2>2, <2>3
<1>10. ASSUME NEW t \in Threads, NEW from \in Trying, Cas(t, from) PROVE TypeOK'
  <2>1. head' \in [Threads -> Sems \cup {None}] BY <1>10 DEF Cas
  <2>4. depth' \in [Threads -> Nat]
    <3>1. (IF mode[t] = "lock" THEN 1 ELSE depth[t]) \in Nat OBVIOUS
    <3> QED BY <1>10, <3>1 DEF Cas
  <2>2. pc' \in [Threads -> Labels] BY <1>10, <1>2 DEF Cas, Goto
  <2>3. locked' \in BOOLEAN /\ owner' \in Threads \cup {None} /\ lockCount' \in Nat
    <3>1. \/ locked' = TRUE /\ owner' = t /\ lockCount' = 1
          \/ UNCHANGED <<locked, owner, lockCount>>
      BY <1>10 DEF Cas
    <3>2. locked' \in BOOLEAN BY <3>1, Zenon
    <3>3. owner' \in Threads \cup {None} /\ lockCount' \in Nat BY <3>1
    <3> QED BY <3>2, <3>3
  <2> QED BY <1>10, <2>1, <2>2, <2>3, <2>4, <1>0 DEF Cas
<1>11. ASSUME NEW t \in Threads, ResetSemaphore(t) \/ LoadWord(t) \/ Push(t)
       PROVE  TypeOK'
  <2>1. "load" \in Labels /\ "push" \in Labels /\ "barge" \in Labels /\ "await" \in Labels BY DEF Labels
  <2>2. CASE ResetSemaphore(t) BY <2>1, <2>2, SemFacts, SemaphoreOps DEF ResetSemaphore, Goto
  <2>3. CASE LoadWord(t) BY <2>1, <2>3, <1>1, <1>0 DEF LoadWord, Goto
  <2>4. CASE Push(t)
    <3>1. <<Mine(t)>> \o contenders \in Seq(Sems) BY SemFacts, ListFacts
    <3> QED BY <2>1, <2>4, <3>1, <1>1, <1>0 DEF Push, Goto
  <2> QED BY <1>11, <2>2, <2>3, <2>4
<1>12. ASSUME NEW t \in Threads, GetOnDeck(t) \/ TimeOut(t) \/ LeaveDeck(t) \/ Wake(t)
       PROVE  TypeOK'
  <2>1. "deck" \in Labels /\ "await" \in Labels /\ "inside" \in Labels BY DEF Labels
  <2>2. CASE GetOnDeck(t) \/ TimeOut(t) BY <2>1, <2>2, <1>0 DEF GetOnDeck, TimeOut, Goto
  <2>3. CASE LeaveDeck(t) BY <2>1, <2>3, <1>0 DEF LeaveDeck, Goto
  <2>4. CASE Wake(t) BY <2>1, <2>4, SemFacts, SemaphoreOps DEF Wake, Goto
  <2> QED BY <1>12, <2>2, <2>3, <2>4
<1>13. ASSUME NEW t \in Threads, AwaitSleep(t) \/ DeckSleep(t) PROVE TypeOK'
  <2>1. "await" \in Labels /\ "awaitBlocked" \in Labels /\ "deck" \in Labels /\ "deckBlocked" \in Labels
    BY DEF Labels
  <2> QED
    <3>1. SemTypeOK' BY <1>13, SemFacts, SemaphoreOps DEF AwaitSleep, DeckSleep, Sleep
    <3> QED BY <1>13, <2>1, <3>1 DEF AwaitSleep, DeckSleep, Sleep, Goto
<1>14. ASSUME NEW t \in Threads, ClearBit(t) \/ CheckDeck(t) \/ CheckList(t) \/ Grab(t)
       PROVE  TypeOK'
  <2>1. "checkDeck" \in Labels /\ "checkList" \in Labels /\ "post" \in Labels /\ "grab" \in Labels /\ "select" \in Labels
    BY DEF Labels
  <2>2. CASE ClearBit(t) BY <2>1, <2>2, <1>0 DEF ClearBit, Goto
  <2>3. CASE CheckDeck(t) BY <2>1, <2>3, <1>3, <1>0 DEF CheckDeck, Goto
  <2>4. CASE CheckList(t) \/ Grab(t) BY <2>1, <2>4, <1>3, <1>0 DEF CheckList, Grab, Goto
  <2> QED BY <1>14, <2>2, <2>3, <2>4
<1>15. ASSUME NEW t \in Threads, Select(t) \/ Pop(t) \/ Install(t) PROVE TypeOK'
  <2>1. "select" \in Labels /\ "pop" \in Labels /\ "install" \in Labels /\ "recheck" \in Labels /\ "post" \in Labels
    BY DEF Labels
  <2>2. CASE Select(t)
    <3>1. head' \in [Threads -> Sems \cup {None}] BY <2>2, <1>1 DEF Select
    <3>2. rest' \in [Threads -> Seq(Sems)] BY <2>2, ListFacts DEF Select
    <3>3. pc' \in [Threads -> Labels] BY <2>1, <2>2 DEF Select, Goto
    <3> QED BY <2>2, <3>1, <3>2, <3>3, <1>0 DEF Select
  <2>3. CASE Pop(t)
    <3>1. contenders' \in Seq(Sems) /\ pc' \in [Threads -> Labels]
      <4>1. contenders' = rest[t] \/ contenders' = contenders BY <2>3 DEF Pop
      <4>2. pc' = [pc EXCEPT ![t] = "install"] \/ pc' = [pc EXCEPT ![t] = "select"] BY <2>3 DEF Pop, Goto
      <4>3. rest[t] \in Seq(Sems) BY Zenon
      <4>4. contenders' \in Seq(Sems) BY <4>1, <4>3, Zenon
      <4> QED BY <2>1, <4>2, <4>4
    <3>4. target' \in [Threads -> Sems \cup {None}]
      <4>1. target' = target \/ target' = [target EXCEPT ![t] = head[t]] BY <2>3 DEF Pop
      <4>2. head[t] \in Sems \cup {None} OBVIOUS
      <4> QED BY <4>1, <4>2
    <3>2. rest' \in [Threads -> Seq(Sems)] BY <2>3, ListFacts DEF Pop
    <3> QED BY <2>3, <3>1, <3>2, <3>4, <1>0 DEF Pop
  <2>4. CASE Install(t) BY <2>1, <2>4, <1>0 DEF Install, Goto
  <2> QED BY <1>15, <2>2, <2>3, <2>4
<1>16. ASSUME NEW t \in Threads, Post(t) \/ PostSignal(t) PROVE TypeOK'
  <2>1. "signal" \in Labels BY DEF Labels
  <2>2. CASE Post(t)
    <3>1. SemTypeOK' BY <2>2, SemFacts, SemaphoreOps DEF Post, PhaseInv
    <3> QED BY <2>1, <2>2, <3>1, <1>3 DEF Post, Goto
  <2>3. CASE PostSignal(t)
    <3>1. SemTypeOK' BY <2>3, SemFacts, SemaphoreOps DEF PostSignal, PhaseInv
    <3> QED BY <2>3, <3>1, <1>3 DEF PostSignal, Goto
  <2> QED BY <1>16, <2>2, <2>3
<1>17. CASE UNCHANGED vars BY <1>17, <1>0 DEF vars
<1>18. "try" \in Labels /\ "lock" \in Labels BY DEF Labels
<1> HIDE DEF TypeOK, IInv
<1> QED BY <1>4, <1>5, <1>6, <1>7, <1>8, <1>9, <1>10, <1>11, <1>12, <1>13, <1>14, <1>15, <1>16,
     <1>17, <1>18
  DEF Next, Client, Step, LockStep, UnlockStep, TryLock, Lock, AttemptCas

----------------------------------------
(* Nesting, mode and saved count of a thread change only where the lock is
   taken or given up, and every label agrees with them. *)
LEMMA PhaseStep == IInv /\ [Next]_vars => PhaseInv'
<1> SUFFICES ASSUME IInv, [Next]_vars PROVE PhaseInv' OBVIOUS
<1> TypeOK /\ PhaseInv /\ OwnerInv /\ MutualExclusion BY DEF IInv
<1> USE DEF PhaseInv, SuspendLabels, wordVars, localVars
<1>1. /\ mode \in [Threads -> {"lock", "suspend"}] /\ pc \in [Threads -> Labels]
      /\ saved \in [Threads -> Nat] /\ depth \in [Threads -> Nat] /\ lockCount \in Nat
      /\ target \in [Threads -> Sems \cup {None}] /\ head \in [Threads -> Sems \cup {None}]
  BY DEF TypeOK
<1>2. ASSUME NEW t \in Threads, TryLock(t) \/ Lock(t) PROVE PhaseInv'
  BY <1>1, <1>2 DEF TryLock, Lock, Call, Goto
<1>3. ASSUME NEW t \in Threads, Unlock(t) PROVE PhaseInv' BY <1>1, <1>3 DEF Unlock, Goto, OwnerInv, Inside
<1>4. ASSUME NEW t \in Threads, Wait(t) PROVE PhaseInv' BY <1>1, <1>4 DEF Wait, Goto, OwnerInv, Inside
<1>5. ASSUME NEW t \in Threads, Notify(t) \/ NotifyAll(t) \/ NotifyNext(t)
      PROVE  PhaseInv'
  BY <1>1, <1>5 DEF Notify, NotifyAll, NotifyNext, MoveWaiter, Goto
<1>6. ASSUME NEW t \in Threads, Relock(t)  PROVE PhaseInv'
  BY <1>1, <1>6 DEF Relock, Trying, AfterSuccess, Goto, OwnerInv, Holds, Inside
<1>7. ASSUME NEW t \in Threads, FindLocked(t) PROVE PhaseInv'
  BY <1>1, <1>7 DEF FindLocked, Trying, AfterFailure, Goto, OwnerInv, Inside
<1>8. ASSUME NEW t \in Threads, FindFree(t) PROVE PhaseInv'
  BY <1>1, <1>8 DEF FindFree, Trying, CasOf, Goto, MutualExclusion, Holds, Inside
<1>9. ASSUME NEW t \in Threads, NEW from \in Trying, Cas(t, from) PROVE PhaseInv'
  BY <1>1, <1>9 DEF Cas, Trying, CasOf, AfterSuccess, AfterFailure, Goto
<1>10. ASSUME NEW t \in Threads, ResetSemaphore(t) \/ LoadWord(t) \/ Push(t)
       PROVE  PhaseInv'
  BY <1>1, <1>10 DEF ResetSemaphore, LoadWord, Push, Goto
<1>11. ASSUME NEW t \in Threads, GetOnDeck(t) \/ TimeOut(t) \/ Wake(t) PROVE PhaseInv'
  BY <1>1, <1>11 DEF GetOnDeck, TimeOut, Wake, Goto
<1>12. ASSUME NEW t \in Threads, LeaveDeck(t) PROVE PhaseInv' BY <1>1, <1>12 DEF LeaveDeck, Goto
<1>13. ASSUME NEW t \in Threads, AwaitSleep(t) \/ DeckSleep(t) PROVE PhaseInv'
  BY <1>1, <1>13 DEF AwaitSleep, DeckSleep, Sleep, Goto
<1>14. ASSUME NEW t \in Threads, ClearBit(t) \/ CheckDeck(t) \/ CheckList(t) \/ Grab(t)
       PROVE  PhaseInv'
  <2>1. CASE ClearBit(t) BY <1>1, <2>1 DEF ClearBit, Goto
  <2>2. CASE CheckDeck(t) BY <1>1, <2>2 DEF CheckDeck, Goto, Return
  <2>3. CASE CheckList(t) BY <1>1, <2>3 DEF CheckList, Goto, Return
  <2>4. CASE Grab(t) BY <1>1, <2>4 DEF Grab, Goto, Return
  <2> QED BY <1>14, <2>1, <2>2, <2>3, <2>4
<1>15. ASSUME NEW t \in Threads, Select(t) \/ Pop(t) \/ Install(t) PROVE PhaseInv'
  BY <1>1, <1>15 DEF Select, Pop, Install, Goto
<1>16. ASSUME NEW t \in Threads, Post(t) \/ PostSignal(t) PROVE PhaseInv'
  BY <1>1, <1>16 DEF Post, PostSignal, Goto, Return
<1>17. CASE UNCHANGED vars BY <1>17 DEF vars
<1> HIDE DEF PhaseInv
<1> QED BY <1>2, <1>3, <1>4, <1>5, <1>6, <1>7, <1>8, <1>9, <1>10, <1>11, <1>12, <1>13,
     <1>14, <1>15, <1>16, <1>17 DEF Next, Client, Step, LockStep, UnlockStep, AttemptCas
----------------------------------------
(* The lock bit is set by a CAS that found it clear, when by the invariant
   nobody holds the lock, and cleared by the only thread that does. *)
LEMMA ExclusionStep == IInv /\ [Next]_vars => MutualExclusion'
<1> SUFFICES ASSUME IInv, [Next]_vars PROVE MutualExclusion' OBVIOUS
<1> PhaseInv /\ MutualExclusion /\ OwnerInv BY DEF IInv
<1> USE DEF MutualExclusion, Holds, Inside, PhaseInv, SuspendLabels, OwnerInv,
            wordVars, localVars
<1>1. /\ mode \in [Threads -> {"lock", "suspend"}] /\ pc \in [Threads -> Labels]
      /\ depth \in [Threads -> Nat] /\ saved \in [Threads -> Nat] /\ lockCount \in Nat
      /\ target \in [Threads -> Sems \cup {None}]
  BY DEF IInv, TypeOK
<1>2. ASSUME NEW t \in Threads, TryLock(t) \/ Lock(t) PROVE MutualExclusion'
  BY <1>1, <1>2 DEF TryLock, Lock, Call, Goto
<1>3. ASSUME NEW t \in Threads, Unlock(t) PROVE MutualExclusion' BY <1>1, <1>3 DEF Unlock, Goto
<1>4. ASSUME NEW t \in Threads, Wait(t) PROVE MutualExclusion' BY <1>1, <1>4 DEF Wait, Goto
<1>5. ASSUME NEW t \in Threads, Notify(t) \/ NotifyAll(t) \/ NotifyNext(t)
      PROVE  MutualExclusion'
  BY <1>1, <1>5 DEF Notify, NotifyAll, NotifyNext, MoveWaiter, Goto
<1>6. ASSUME NEW t \in Threads, Relock(t) PROVE MutualExclusion'
  BY <1>1, <1>6 DEF Relock, Trying, AfterSuccess, Goto
<1>7. ASSUME NEW t \in Threads, FindLocked(t) PROVE MutualExclusion'
  BY <1>1, <1>7 DEF FindLocked, Trying, AfterFailure, Goto
<1>8. ASSUME NEW t \in Threads, FindFree(t) PROVE MutualExclusion'
  BY <1>1, <1>8 DEF FindFree, Trying, CasOf, Goto
<1>9. ASSUME NEW t \in Threads, NEW from \in Trying, Cas(t, from) PROVE MutualExclusion'
  BY <1>1, <1>9 DEF Cas, Trying, CasOf, AfterSuccess, AfterFailure, Goto
<1>10. ASSUME NEW t \in Threads, ResetSemaphore(t) \/ LoadWord(t) \/ Push(t)
       PROVE  MutualExclusion'
  BY <1>1, <1>10 DEF ResetSemaphore, LoadWord, Push, Goto
<1>11. ASSUME NEW t \in Threads, GetOnDeck(t) \/ TimeOut(t) \/ Wake(t)
       PROVE  MutualExclusion'
  BY <1>1, <1>11 DEF GetOnDeck, TimeOut, Wake, Goto
<1>12. ASSUME NEW t \in Threads, LeaveDeck(t) PROVE MutualExclusion' BY <1>1, <1>12 DEF LeaveDeck, Goto
<1>13. ASSUME NEW t \in Threads, AwaitSleep(t) \/ DeckSleep(t) PROVE MutualExclusion'
  BY <1>1, <1>13 DEF AwaitSleep, DeckSleep, Sleep, Goto
<1>14. ASSUME NEW t \in Threads, ClearBit(t) PROVE MutualExclusion' BY <1>1, <1>14 DEF ClearBit, Goto
<1>15. ASSUME NEW t \in Threads, CheckDeck(t) \/ CheckList(t) \/ Grab(t)
       PROVE  MutualExclusion'
  BY <1>1, <1>15 DEF CheckDeck, CheckList, Grab, Goto, Return
<1>16. ASSUME NEW t \in Threads, Select(t) \/ Pop(t) \/ Install(t) PROVE MutualExclusion'
  BY <1>1, <1>16 DEF Select, Pop, Install, Goto
<1>17. ASSUME NEW t \in Threads, Post(t) \/ PostSignal(t) PROVE MutualExclusion'
  BY <1>1, <1>17 DEF Post, PostSignal, Goto, Return
<1>18. CASE UNCHANGED vars BY <1>18 DEF vars
<1> HIDE DEF MutualExclusion
<1> QED
  BY <1>2, <1>3, <1>4, <1>5, <1>6, <1>7, <1>8, <1>9, <1>10, <1>11, <1>12, <1>13, <1>14, <1>15, <1>16, <1>17, <1>18
  DEF Next, Client, Step, LockStep, UnlockStep, AttemptCas

(* owner_ names the holder from its CAS until its unlock() or wait(): no
   other thread can take itself for the owner, and the lock count is the
   nesting of the owner. *)
LEMMA OwnerStep == IInv /\ [Next]_vars => OwnerInv'
<1> SUFFICES ASSUME IInv, [Next]_vars PROVE OwnerInv' OBVIOUS
<1> PhaseInv /\ MutualExclusion /\ OwnerInv BY DEF IInv
<1> USE SentinelAssumption DEF MutualExclusion, Holds, Inside, PhaseInv, SuspendLabels, OwnerInv,
            wordVars, localVars
<1>1. /\ mode \in [Threads -> {"lock", "suspend"}] /\ pc \in [Threads -> Labels]
      /\ depth \in [Threads -> Nat] /\ saved \in [Threads -> Nat] /\ lockCount \in Nat
      /\ target \in [Threads -> Sems \cup {None}]
  BY DEF IInv, TypeOK
<1>2. ASSUME NEW t \in Threads, TryLock(t) \/ Lock(t) PROVE OwnerInv'
  BY <1>1, <1>2 DEF TryLock, Lock, Call, Goto
<1>3. ASSUME NEW t \in Threads, Unlock(t) PROVE OwnerInv' BY <1>1, <1>3 DEF Unlock, Goto
<1>4. ASSUME NEW t \in Threads, Wait(t) PROVE OwnerInv' BY <1>1, <1>4 DEF Wait, Goto
<1>5. ASSUME NEW t \in Threads, Notify(t) \/ NotifyAll(t) \/ NotifyNext(t)
      PROVE  OwnerInv'
  BY <1>1, <1>5 DEF Notify, NotifyAll, NotifyNext, MoveWaiter, Goto
<1>6. ASSUME NEW t \in Threads, Relock(t) PROVE OwnerInv'
  BY <1>1, <1>6 DEF Relock, Trying, AfterSuccess, Goto
<1>7. ASSUME NEW t \in Threads, FindLocked(t) PROVE OwnerInv'
  BY <1>1, <1>7 DEF FindLocked, Trying, AfterFailure, Goto
<1>8. ASSUME NEW t \in Threads, FindFree(t) PROVE OwnerInv'
  BY <1>1, <1>8 DEF FindFree, Trying, CasOf, Goto
<1>9. ASSUME NEW t \in Threads, NEW from \in Trying, Cas(t, from) PROVE OwnerInv'
  BY <1>1, <1>9 DEF Cas, Trying, CasOf, AfterSuccess, AfterFailure, Goto
<1>10. ASSUME NEW t \in Threads, ResetSemaphore(t) \/ LoadWord(t) \/ Push(t)
       PROVE  OwnerInv'
  BY <1>1, <1>10 DEF ResetSemaphore, LoadWord, Push, Goto
<1>11. ASSUME NEW t \in Threads, GetOnDeck(t) \/ TimeOut(t) \/ Wake(t) PROVE OwnerInv'
  BY <1>1, <1>11 DEF GetOnDeck, TimeOut, Wake, Goto
<1>12. ASSUME NEW t \in Threads, LeaveDeck(t) PROVE OwnerInv' BY <1>1, <1>12 DEF LeaveDeck, Goto
<1>13. ASSUME NEW t \in Threads, AwaitSleep(t) \/ DeckSleep(t) PROVE OwnerInv'
  BY <1>1, <1>13 DEF AwaitSleep, DeckSleep, Sleep, Goto
<1>14. ASSUME NEW t \in Threads, ClearBit(t) PROVE OwnerInv' BY <1>1, <1>14 DEF ClearBit, Goto
<1>15. ASSUME NEW t \in Threads, CheckDeck(t) \/ CheckList(t) \/ Grab(t) PROVE OwnerInv'
  BY <1>1, <1>15 DEF CheckDeck, CheckList, Grab, Goto, Return
<1>16. ASSUME NEW t \in Threads, Select(t) \/ Pop(t) \/ Install(t) PROVE OwnerInv'
  BY <1>1, <1>16 DEF Select, Pop, Install, Goto
<1>17. ASSUME NEW t \in Threads, Post(t) \/ PostSignal(t) PROVE OwnerInv'
  BY <1>1, <1>17 DEF Post, PostSignal, Goto, Return
<1>18. CASE UNCHANGED vars BY <1>18 DEF vars
<1> HIDE DEF OwnerInv
<1> QED
  BY <1>2, <1>3, <1>4, <1>5, <1>6, <1>7, <1>8, <1>9, <1>10, <1>11, <1>12, <1>13, <1>14, <1>15, <1>16, <1>17, <1>18
  DEF Next, Client, Step, LockStep, UnlockStep, AttemptCas

(* onDeck_ leaves None only by the microlock, leaves Mark only by the holder
   of the microlock, and leaves a semaphore only by the thread it belongs to. *)
LEMMA DeckStep == IInv /\ [Next]_vars => (MicrolockInv /\ OnDeckIsStable)'
<1> SUFFICES ASSUME IInv, [Next]_vars PROVE (MicrolockInv /\ OnDeckIsStable)' OBVIOUS
<1> PhaseInv /\ MicrolockInv /\ OnDeckIsStable BY DEF IInv
<1> USE SemFacts, RoleFacts DEF PhaseInv, SuspendLabels, MicrolockInv, OnDeckIsStable, Mine,
            wordVars, localVars
<1>1. /\ mode \in [Threads -> {"lock", "suspend"}] /\ pc \in [Threads -> Labels]
      /\ depth \in [Threads -> Nat] /\ saved \in [Threads -> Nat] /\ lockCount \in Nat
      /\ target \in [Threads -> Sems \cup {None}]
  BY DEF IInv, TypeOK
<1>2. ASSUME NEW t \in Threads, TryLock(t) \/ Lock(t)
      PROVE  (MicrolockInv /\ OnDeckIsStable)'
  BY <1>1, <1>2 DEF TryLock, Lock, Call, Goto
<1>3. ASSUME NEW t \in Threads, Unlock(t) PROVE (MicrolockInv /\ OnDeckIsStable)'
  BY <1>1, <1>3 DEF Unlock, Goto
<1>4. ASSUME NEW t \in Threads, Wait(t) PROVE (MicrolockInv /\ OnDeckIsStable)'
  BY <1>1, <1>4 DEF Wait, Goto
<1>5. ASSUME NEW t \in Threads, Notify(t) \/ NotifyAll(t) \/ NotifyNext(t)
      PROVE  (MicrolockInv /\ OnDeckIsStable)'
  BY <1>1, <1>5 DEF Notify, NotifyAll, NotifyNext, MoveWaiter, Goto
<1>6. ASSUME NEW t \in Threads, Relock(t) PROVE (MicrolockInv /\ OnDeckIsStable)'
  BY <1>1, <1>6 DEF Relock, Trying, AfterSuccess, Goto
<1>7. ASSUME NEW t \in Threads, FindLocked(t) PROVE (MicrolockInv /\ OnDeckIsStable)'
  BY <1>1, <1>7 DEF FindLocked, Trying, AfterFailure, Goto
<1>8. ASSUME NEW t \in Threads, FindFree(t) PROVE (MicrolockInv /\ OnDeckIsStable)'
  BY <1>1, <1>8 DEF FindFree, Trying, CasOf, Goto
<1>9. ASSUME NEW t \in Threads, NEW from \in Trying, Cas(t, from)
      PROVE  (MicrolockInv /\ OnDeckIsStable)'
  BY <1>1, <1>9 DEF Cas, Trying, CasOf, AfterSuccess, AfterFailure, Goto
<1>10. ASSUME NEW t \in Threads, ResetSemaphore(t) \/ LoadWord(t) \/ Push(t)
       PROVE  (MicrolockInv /\ OnDeckIsStable)'
  <2>1. CASE ResetSemaphore(t) BY <1>1, <2>1 DEF ResetSemaphore, Goto
  <2>2. CASE LoadWord(t) BY <1>1, <2>2 DEF LoadWord, Goto
  <2>3. CASE Push(t) BY <1>1, <2>3 DEF Push, Goto
  <2> QED BY <1>10, <2>1, <2>2, <2>3
<1>11. ASSUME NEW t \in Threads, GetOnDeck(t) \/ TimeOut(t) \/ Wake(t)
       PROVE  (MicrolockInv /\ OnDeckIsStable)'
  BY <1>1, <1>11 DEF GetOnDeck, TimeOut, Wake, Goto
<1>12. ASSUME NEW t \in Threads, LeaveDeck(t) PROVE (MicrolockInv /\ OnDeckIsStable)'
  BY <1>1, <1>12 DEF LeaveDeck, Goto
<1>13. ASSUME NEW t \in Threads, AwaitSleep(t) \/ DeckSleep(t)
       PROVE  (MicrolockInv /\ OnDeckIsStable)'
  BY <1>1, <1>13 DEF AwaitSleep, DeckSleep, Sleep, Goto
<1>14. ASSUME NEW t \in Threads, ClearBit(t) PROVE (MicrolockInv /\ OnDeckIsStable)'
  BY <1>1, <1>14 DEF ClearBit, Goto
<1>15. ASSUME NEW t \in Threads, CheckDeck(t) \/ CheckList(t) \/ Grab(t)
       PROVE  (MicrolockInv /\ OnDeckIsStable)'
  <2>1. CASE CheckDeck(t) BY <1>1, <2>1 DEF CheckDeck, Goto, Return
  <2>2. CASE CheckList(t) BY <1>1, <2>2 DEF CheckList, Goto, Return
  <2>3. CASE Grab(t) BY <1>1, <2>3 DEF Grab, Goto, Return
  <2> QED BY <1>15, <2>1, <2>2, <2>3
<1>16. ASSUME NEW t \in Threads, Select(t) \/ Pop(t) \/ Install(t)
       PROVE  (MicrolockInv /\ OnDeckIsStable)'
  <2>1. CASE Select(t)
    <3>1. MicrolockInv' BY <1>1, <2>1 DEF Select, Goto
    <3>2. OnDeckIsStable' BY <1>1, <2>1 DEF Select, Goto
    <3> QED BY <3>1, <3>2
  <2>2. CASE Pop(t)
    <3>1. MicrolockInv' BY <1>1, <2>2 DEF Pop, Goto
    <3>2. OnDeckIsStable' BY <1>1, <2>2 DEF Pop, Goto
    <3> QED BY <3>1, <3>2
  <2>3. CASE Install(t)
    <3>1. MicrolockInv' BY <1>1, <2>3 DEF Install, Goto
    <3>2. OnDeckIsStable' BY <1>1, <2>3 DEF Install, Goto
    <3> QED BY <3>1, <3>2
  <2> QED BY <1>16, <2>1, <2>2, <2>3
<1>17. ASSUME NEW t \in Threads, Post(t) \/ PostSignal(t)
       PROVE  (MicrolockInv /\ OnDeckIsStable)'
  BY <1>1, <1>17 DEF Post, PostSignal, Goto, Return
<1>18. CASE UNCHANGED vars BY <1>18 DEF vars
<1> HIDE DEF MicrolockInv, OnDeckIsStable
<1> QED
  BY <1>2, <1>3, <1>4, <1>5, <1>6, <1>7, <1>8, <1>9, <1>10, <1>11, <1>12, <1>13, <1>14, <1>15, <1>16, <1>17, <1>18
  DEF Next, Client, Step, LockStep, UnlockStep, AttemptCas

----------------------------------------
(* The invariant holds in every state of every execution. *)
THEOREM Invariance == Spec => []IInv
<1>1. IInv /\ [Next]_vars => IInv' BY TypeStep, PhaseStep, ExclusionStep, OwnerStep, DeckStep DEF IInv
<1> QED BY InitInv, <1>1, PTL DEF Spec

(* Every variable keeps its type. *)
THEOREM TypeCorrectness == Spec => []TypeOK
<1>1. IInv => TypeOK BY DEF IInv
<1> QED BY Invariance, <1>1, PTL

(* At most one thread holds the monitor, and the lock bit says whether. *)
THEOREM Exclusion == Spec => []MutualExclusion
<1>1. IInv => MutualExclusion BY DEF IInv
<1> QED BY Invariance, <1>1, PTL

(* The assertions of finishLock() and wait() about the on-deck thread hold. *)
THEOREM DeckStability == Spec => []OnDeckIsStable
<1>1. IInv => OnDeckIsStable BY DEF IInv
<1> QED BY Invariance, <1>1, PTL

(* Inside the monitor the lock count is what the client has to undo, also
   after a wait(). *)
THEOREM Nesting == Spec => []CountIsNesting
<1>1. IInv => CountIsNesting BY DEF IInv, OwnerInv, CountIsNesting
<1> QED BY Invariance, <1>1, PTL

----------------------------------------
(* The nodes of the lists: a node is in one place exactly as long as its
   call sleeps. *)

(* Node s is on a list, and no node is on it twice. *)
Within(s, list) == \E i \in DOMAIN list : list[i] = s
Distinct(list) == \A i, j \in DOMAIN list : list[i] = list[j] => i = j

(* A list ends with node s followed by the nodes of another list. *)
EndsWith(list, s, behind) ==
  /\ Len(behind) < Len(list)
  /\ list[Len(list) - Len(behind)] = s
  /\ \A i \in DOMAIN behind : behind[i] = list[Len(list) - Len(behind) + i]

(* The node of semaphore s is off the list and not yet on deck. *)
InHand(s) == \E u \in Threads : pc[u] = "install" /\ target[u] = s

(* A node is in one place at most, and in one if and only if it is published. *)
PlaceInv ==
  /\ Distinct(contenders) /\ Distinct(waiters)
  /\ \A s \in Sems :
       /\ s \in Queued <=> Within(s, contenders) \/ Within(s, waiters) \/ onDeck = s \/ InHand(s)
       /\ Within(s, contenders) => ~Within(s, waiters) /\ onDeck # s /\ ~InHand(s)
       /\ Within(s, waiters) => onDeck # s /\ ~InHand(s)

(* Only calls of wait() are on the wait list, each at least until it has
   given up the lock; nobody posts but the steps that do; and what an
   unlocker has read of the list is still the end of it. *)
LocalInv ==
  \A t \in Threads :
    /\ ~Within(LockSem(t), waiters)
    /\ pc[t] = "clear" /\ mode[t] = "suspend" => Within(SuspendSem(t), waiters)
    /\ pc[t] \notin {"install", "post", "signal"} => target[t] = None
    /\ pc[t] = "pop" => EndsWith(contenders, head[t], rest[t])
    /\ ~Recursive => depth[t] <= 1

NodeInv == PlaceInv /\ LocalInv

----------------------------------------
(* What a push onto a list does to the nodes in it. *)
LEMMA PushFacts ==
  ASSUME NEW list \in Seq(Sems), NEW s \in Sems
  PROVE  /\ \A r : Within(r, <<s>> \o list) <=> r = s \/ Within(r, list)
         /\ Distinct(list) /\ ~Within(s, list) => Distinct(<<s>> \o list)
         /\ \A r, behind : behind \in Seq(Sems) /\ EndsWith(list, r, behind) =>
               EndsWith(<<s>> \o list, r, behind)
<1> DEFINE longer == <<s>> \o list
<1>1. /\ Len(longer) = Len(list) + 1 /\ Len(list) \in Nat /\ longer[1] = s
      /\ DOMAIN longer = 1 .. Len(longer) /\ DOMAIN list = 1 .. Len(list)
      /\ \A i \in DOMAIN list : longer[i + 1] = list[i]
  OBVIOUS
<1>2. \A i \in DOMAIN longer : i = 1 \/ (i - 1 \in DOMAIN list /\ longer[i] = list[i - 1]) BY <1>1
<1> HIDE DEF longer
<1>3. \A r : Within(r, longer) <=> r = s \/ Within(r, list)
  <2> TAKE r
  <2>1. ASSUME Within(r, longer) PROVE r = s \/ Within(r, list) BY <1>1, <1>2, <2>1 DEF Within
  <2>2. r = s => Within(r, longer)
    <3>1. 1 \in DOMAIN longer BY <1>1
    <3> QED BY <1>1, <3>1 DEF Within
  <2>3. ASSUME NEW i \in DOMAIN list, list[i] = r PROVE Within(r, longer)
    <3>1. i + 1 \in DOMAIN longer BY <1>1
    <3> QED BY <1>1, <2>3, <3>1 DEF Within
  <2> QED BY <2>1, <2>2, <2>3 DEF Within
<1>4. ASSUME Distinct(list), ~Within(s, list) PROVE Distinct(longer)
  <2> SUFFICES ASSUME NEW i \in DOMAIN longer, NEW j \in DOMAIN longer, longer[i] = longer[j]
               PROVE  i = j
    BY DEF Distinct
  <2>1. i \in Int /\ j \in Int BY <1>1
  <2>2. CASE i = 1 \/ j = 1 BY <1>1, <1>2, <1>4, <2>2 DEF Within
  <2>3. CASE i # 1 /\ j # 1
    <3>1. i - 1 = j - 1 BY <1>2, <1>4, <2>3 DEF Distinct
    <3> QED BY <2>1, <3>1
  <2> QED BY <2>2, <2>3
<1>5. ASSUME NEW r, NEW behind \in Seq(Sems), EndsWith(list, r, behind)
      PROVE  EndsWith(longer, r, behind)
  <2>1. /\ Len(behind) \in Nat /\ Len(behind) < Len(list) /\ DOMAIN behind = 1 .. Len(behind)
        /\ list[Len(list) - Len(behind)] = r
        /\ \A i \in DOMAIN behind : behind[i] = list[Len(list) - Len(behind) + i]
    BY <1>5 DEF EndsWith
  <2>0. \A a, b \in Nat : a < b => \E n \in Nat : n = b - a /\ n > 0
    <3> TAKE a, b \in Nat
    <3>1. a < b => b - a \in Nat /\ b - a > 0 OBVIOUS
    <3> QED BY <3>1
  <2>2. PICK n \in Nat : n = Len(list) - Len(behind) /\ n > 0
    <3>1. Len(list) \in Nat /\ Len(behind) \in Nat /\ Len(behind) < Len(list) BY <1>1, <2>1
    <3> QED BY <2>0, <3>1, Zenon
  <2>3. Len(longer) - Len(behind) = n + 1 /\ n \in DOMAIN list BY <1>1, <2>1, <2>2
  <2>4. longer[n + 1] = r BY <1>1, <2>1, <2>2, <2>3
  <2>5. ASSUME NEW i \in DOMAIN behind PROVE behind[i] = longer[n + 1 + i]
    <3>1. PICK k \in Nat : k = n + i BY <2>1, <2>2
    <3>2. k \in DOMAIN list /\ k + 1 = n + 1 + i BY <1>1, <2>1, <2>2, <3>1
    <3>3. behind[i] = list[k] BY <2>1, <2>2, <3>1
    <3>4. longer[k + 1] = list[k] BY <1>1, <3>2
    <3> QED BY <3>2, <3>3, <3>4
  <2> QED BY <1>1, <2>1, <2>3, <2>4, <2>5 DEF EndsWith
<1> QED BY <1>3, <1>4, <1>5 DEF longer

(* What the nodes are that a list ends with, when the list has no node twice
   and its head is the node before them: all but the head. *)
LEMMA EndFacts ==
  ASSUME NEW list \in Seq(Sems), Distinct(list), NEW behind \in Seq(Sems),
         EndsWith(list, Head(list), behind)
  PROVE  /\ Within(Head(list), list) /\ Distinct(behind)
         /\ \A r : Within(r, behind) <=> Within(r, list) /\ r # Head(list)
<1>1. /\ Len(list) \in Nat /\ Len(behind) \in Nat /\ Len(behind) < Len(list)
      /\ DOMAIN list = 1 .. Len(list) /\ DOMAIN behind = 1 .. Len(behind)
      /\ list[Len(list) - Len(behind)] = Head(list)
      /\ \A i \in DOMAIN behind : behind[i] = list[Len(list) - Len(behind) + i]
  BY DEF EndsWith
<1>2. list[1] = Head(list) /\ 1 \in DOMAIN list BY <1>1
<1>3. Len(list) = Len(behind) + 1
  <2>1. Len(list) - Len(behind) \in DOMAIN list BY <1>1
  <2>2. Len(list) - Len(behind) = 1 BY <1>1, <1>2, <2>1 DEF Distinct
  <2>3. \A a, b \in Nat : a - b = 1 => a = b + 1 OBVIOUS
  <2>4. Len(list) \in Nat /\ Len(behind) \in Nat BY <1>1
  <2> QED BY <2>2, <2>3, <2>4, Zenon
<1>4. \A i \in DOMAIN behind : i + 1 \in DOMAIN list /\ behind[i] = list[i + 1] /\ i \in Nat /\ i > 0
  BY <1>1, <1>3
<1>5. \A i \in DOMAIN list : i # 1 => i - 1 \in DOMAIN behind /\ behind[i - 1] = list[i]
  <2> TAKE i \in DOMAIN list
  <2>1. i # 1 => i - 1 \in DOMAIN behind /\ (i - 1) + 1 = i BY <1>1, <1>3
  <2> QED BY <1>4, <2>1
<1>6. Distinct(behind)
  <2> SUFFICES ASSUME NEW i \in DOMAIN behind, NEW j \in DOMAIN behind, behind[i] = behind[j]
               PROVE  i = j
    BY DEF Distinct
  <2>1. i + 1 = j + 1 BY <1>4 DEF Distinct
  <2> QED BY <1>4, <2>1
<1>7. \A r : Within(r, behind) <=> Within(r, list) /\ r # Head(list)
  <2> TAKE r
  <2>1. ASSUME NEW i \in DOMAIN behind, behind[i] = r PROVE Within(r, list) /\ r # Head(list)
    <3>1. i + 1 \in DOMAIN list /\ list[i + 1] = r /\ i + 1 # 1 BY <1>4, <2>1
    <3> QED BY <1>2, <3>1 DEF Within, Distinct
  <2>2. ASSUME NEW i \in DOMAIN list, list[i] = r, r # Head(list) PROVE Within(r, behind)
    BY <1>2, <1>5, <2>2 DEF Within
  <2> QED BY <2>1, <2>2 DEF Within
<1> QED BY <1>2, <1>6, <1>7 DEF Within

(* A list that is not empty ends with its tail after its head. *)
LEMMA TailFacts ==
  ASSUME NEW list \in Seq(Sems), list # <<>>
  PROVE  /\ Head(list) \in Sems /\ Tail(list) \in Seq(Sems)
         /\ EndsWith(list, Head(list), Tail(list))
<1>1. Head(list) \in Sems /\ Tail(list) \in Seq(Sems) OBVIOUS
<1>2. Len(list) \in Nat /\ Len(Tail(list)) = Len(list) - 1 /\ list[1] = Head(list) OBVIOUS
<1>3. Len(list) - Len(Tail(list)) = 1 BY <1>2
<1>4. \A i \in DOMAIN Tail(list) : Tail(list)[i] = list[1 + i] OBVIOUS
<1> QED BY <1>1, <1>2, <1>3, <1>4 DEF EndsWith

----------------------------------------
(* The labels between the push of a node by finishLock() and the store that
   takes it off deck. *)
Linked == {"await", "awaitBlocked", "deck", "deckCas", "deckWait", "deckBlocked", "offDeck"}

(* Whose node is published, role by role, before and after a step. *)
LEMMA QueuedFacts ==
  /\ \A s \in Sems : \E t \in Threads : s = LockSem(t) \/ s = SuspendSem(t)
  /\ \A t \in Threads : /\ LockSem(t) \in Queued <=> mode[t] = "lock" /\ pc[t] \in Linked
                        /\ SuspendSem(t) \in Queued <=> mode[t] = "suspend"
  /\ \A t \in Threads : /\ LockSem(t) \in Queued' <=> mode'[t] = "lock" /\ pc'[t] \in Linked
                        /\ SuspendSem(t) \in Queued' <=> mode'[t] = "suspend"
<1>1. \A s \in Sems : \E t \in Threads : s = LockSem(t) \/ s = SuspendSem(t)
  BY DEF Sems, LockSem, SuspendSem
<1>2. \A t \in Threads : /\ LockSem(t) \in Queued <=> mode[t] = "lock" /\ pc[t] \in Linked
                         /\ SuspendSem(t) \in Queued <=> mode[t] = "suspend"
  BY RoleFacts DEF Queued, Linked
<1>3. \A t \in Threads : /\ LockSem(t) \in Queued' <=> mode'[t] = "lock" /\ pc'[t] \in Linked
                         /\ SuspendSem(t) \in Queued' <=> mode'[t] = "suspend"
  BY RoleFacts DEF Queued, Linked
<1> QED BY <1>1, <1>2, <1>3

(* The types that the steps below need. *)
LEMMA NodeTypes ==
  IInv => /\ contenders \in Seq(Sems) /\ waiters \in Seq(Sems)
          /\ mode \in [Threads -> {"lock", "suspend"}] /\ pc \in [Threads -> Labels]
          /\ head \in [Threads -> Sems \cup {None}] /\ rest \in [Threads -> Seq(Sems)]
          /\ target \in [Threads -> Sems \cup {None}] /\ onDeck \in Sems \cup {None, Mark}
          /\ depth \in [Threads -> Nat] /\ lockCount \in Nat
BY DEF IInv, TypeOK

(* A step of thread t that moves no node leaves every node where it is. *)
LEMMA NodesStay ==
  ASSUME IInv, NodeInv, NEW t \in Threads,
         UNCHANGED <<contenders, waiters, mode>>,
         onDeck' = onDeck \/ (onDeck \notin Sems /\ onDeck' \notin Sems),
         \A u \in Threads : u # t => /\ pc'[u] = pc[u] /\ target'[u] = target[u]
                                     /\ head'[u] = head[u] /\ rest'[u] = rest[u]
                                     /\ depth'[u] = depth[u],
         mode[t] = "lock" => (pc[t] \in Linked <=> pc'[t] \in Linked),
         pc[t] # "install", pc'[t] = "install" => target'[t] = None,
         pc'[t] = "clear" => mode[t] = "lock",
         pc'[t] \notin {"install", "post", "signal"} => target'[t] = None,
         pc'[t] = "pop" => EndsWith(contenders, head'[t], rest'[t]),
         ~Recursive => depth'[t] <= 1
  PROVE  NodeInv'
<1> USE DEF NodeInv
<1>1. \A s \in Sems : s \in Queued' <=> s \in Queued
  <2> SUFFICES ASSUME NEW u \in Threads
               PROVE  /\ LockSem(u) \in Queued' <=> LockSem(u) \in Queued
                      /\ SuspendSem(u) \in Queued' <=> SuspendSem(u) \in Queued
    BY QueuedFacts
  <2> QED BY QueuedFacts, NodeTypes
<1>2. \A s \in Sems : InHand(s)' <=> InHand(s) BY SemFacts DEF InHand
<1>3. PlaceInv' BY <1>1, <1>2 DEF PlaceInv, Within, Distinct
<1>4. LocalInv'
  <2> SUFFICES ASSUME NEW u \in Threads
               PROVE  (/\ ~Within(LockSem(u), waiters)
                       /\ pc[u] = "clear" /\ mode[u] = "suspend" => Within(SuspendSem(u), waiters)
                       /\ pc[u] \notin {"install", "post", "signal"} => target[u] = None
                       /\ pc[u] = "pop" => EndsWith(contenders, head[u], rest[u])
                       /\ ~Recursive => depth[u] <= 1)'
    BY DEF LocalInv
  <2>1. CASE u = t BY <2>1, NodeTypes DEF LocalInv, Within, EndsWith, LockSem
  <2>2. CASE u # t BY <2>2, NodeTypes DEF LocalInv, Within, EndsWith, LockSem, SuspendSem
  <2> QED BY <2>1, <2>2
<1> QED BY <1>3, <1>4

(* The steps of lock() that move no node. *)
LEMMA LockNodes ==
  ASSUME IInv, NodeInv, NEW t \in Threads,
         \/ TryLock(t) \/ Lock(t) \/ Relock(t) \/ FindLocked(t) \/ FindFree(t) \/ AttemptCas(t)
         \/ ResetSemaphore(t) \/ LoadWord(t) \/ (Push(t) /\ contenders' = contenders)
         \/ GetOnDeck(t) \/ AwaitSleep(t) \/ DeckSleep(t) \/ Wake(t) \/ TimeOut(t)
  PROVE  NodeInv'
<1> PhaseInv /\ OwnerInv BY DEF IInv
<1> USE NodeTypes DEF Linked, wordVars, localVars
<1>1. /\ pc[t] \notin {"install", "post", "signal"} => target[t] = None
      /\ ~Recursive => depth[t] <= 1
  BY DEF NodeInv, LocalInv
<1>2. ASSUME TryLock(t) \/ Lock(t) PROVE NodeInv' BY <1>1, <1>2, NodesStay DEF TryLock, Lock, Call, Goto
<1>3. ASSUME Relock(t) PROVE NodeInv'
  BY <1>1, <1>3, NodesStay DEF Relock, Goto, Trying, AfterSuccess, OwnerInv, Holds, Inside
<1>4. ASSUME FindLocked(t) PROVE NodeInv'
  BY <1>1, <1>4, NodesStay DEF FindLocked, Goto, Trying, AfterFailure
<1>5. ASSUME FindFree(t) PROVE NodeInv' BY <1>1, <1>5, NodesStay DEF FindFree, Goto, Trying, CasOf
<1>6. ASSUME NEW from \in Trying, Cas(t, from) PROVE NodeInv'
  <2>1. /\ UNCHANGED <<contenders, waiters, mode, onDeck, target>>
        /\ \A u \in Threads : u # t => /\ pc'[u] = pc[u] /\ head'[u] = head[u]
                                       /\ rest'[u] = rest[u] /\ depth'[u] = depth[u]
    BY <1>6 DEF Cas, Goto
  <2>2. ~Recursive => depth'[t] <= 1
    <3>1. depth' = depth \/ depth' = [depth EXCEPT ![t] = IF mode[t] = "lock" THEN 1 ELSE @]
      BY <1>6 DEF Cas
    <3> QED BY <1>1, <3>1
  <2>3. /\ pc[t] \in {"tryCas", "lockCas", "bargeCas", "deckCas"}
        /\ pc'[t] \in {"idle", "inside", "lock", "reset", "barge", "deck", "deckWait", "offDeck"}
        /\ pc[t] \in Linked <=> pc'[t] \in Linked
    BY <1>6 DEF Cas, Goto, Trying, CasOf, AfterSuccess, AfterFailure
  <2> QED BY <1>1, <2>1, <2>2, <2>3, NodesStay
<1>7. ASSUME ResetSemaphore(t) \/ LoadWord(t) \/ (Push(t) /\ contenders' = contenders)
      PROVE  NodeInv'
  <2>1. CASE ResetSemaphore(t) BY <1>1, <2>1, NodesStay DEF ResetSemaphore, Goto
  <2>2. CASE LoadWord(t) BY <1>1, <2>2, NodesStay DEF LoadWord, Goto
  <2>3. CASE Push(t) /\ contenders' = contenders
    <3>1. contenders # <<Mine(t)>> \o contenders BY SemFacts
    <3> QED BY <1>1, <2>3, <3>1, NodesStay DEF Push, Goto
  <2> QED BY <1>7, <2>1, <2>2, <2>3
<1>8. ASSUME GetOnDeck(t) \/ Wake(t) \/ TimeOut(t) PROVE NodeInv'
  BY <1>1, <1>8, NodesStay DEF GetOnDeck, Wake, TimeOut, Goto
<1>9. ASSUME AwaitSleep(t) \/ DeckSleep(t) PROVE NodeInv'
  BY <1>1, <1>9, NodesStay DEF AwaitSleep, DeckSleep, Sleep, Goto
<1> QED BY <1>2, <1>3, <1>4, <1>5, <1>6, <1>7, <1>8, <1>9 DEF AttemptCas

(* The steps of unlock() and of notifyAll() that move no node. *)
LEMMA UnlockNodes ==
  ASSUME IInv, NodeInv, NEW t \in Threads,
         \/ Unlock(t) \/ NotifyAll(t) \/ (NotifyNext(t) /\ waiters = <<>>)
         \/ ClearBit(t) \/ CheckDeck(t) \/ CheckList(t) \/ Grab(t) \/ Select(t)
         \/ Post(t) \/ PostSignal(t)
  PROVE  NodeInv'
<1> PhaseInv /\ OwnerInv /\ MicrolockInv BY DEF IInv
<1> USE NodeTypes DEF Linked, wordVars, localVars
<1>1. /\ pc[t] \notin {"install", "post", "signal"} => target[t] = None
      /\ ~Recursive => depth[t] <= 1
  BY DEF NodeInv, LocalInv
<1>2. ASSUME Unlock(t) PROVE NodeInv'
  <2>1. mode[t] = "lock" BY <1>2 DEF Unlock, PhaseInv, SuspendLabels
  <2>2. ~Recursive => depth'[t] <= 1 BY <1>1, <1>2 DEF Unlock
  <2> QED BY <1>1, <1>2, <2>1, <2>2, NodesStay DEF Unlock, Goto
<1>3. ASSUME NotifyAll(t) \/ (NotifyNext(t) /\ waiters = <<>>) PROVE NodeInv'
  BY <1>1, <1>3, NodesStay DEF NotifyAll, NotifyNext, MoveWaiter, Goto
<1>4. ASSUME ClearBit(t) PROVE NodeInv' BY <1>1, <1>4, NodesStay DEF ClearBit, Goto
<1>5. ASSUME CheckDeck(t) PROVE NodeInv'
  <2>1. mode[t] = "lock" => Return(t) \notin Linked BY DEF Return
  <2>2. Return(t) \in {"await", "idle"} BY DEF Return
  <2> QED BY <1>1, <1>5, <2>1, <2>2, NodesStay DEF CheckDeck, Goto
<1>6. ASSUME CheckList(t) PROVE NodeInv' BY <1>1, <1>6, NodesStay DEF CheckList, Goto, Return
<1>7. ASSUME Grab(t) PROVE NodeInv' BY <1>1, <1>7, NodesStay, SemFacts DEF Grab, Goto, Return
<1>8. ASSUME Select(t) PROVE NodeInv'
  <2>1. CASE locked \/ contenders = <<>> BY <1>1, <1>8, <2>1, NodesStay DEF Select, Goto
  <2>2. CASE ~(locked \/ contenders = <<>>)
    <3>1. EndsWith(contenders, Head(contenders), Tail(contenders)) BY <2>2, TailFacts
    <3>2. /\ head'[t] = Head(contenders) /\ rest'[t] = Tail(contenders) /\ pc'[t] = "pop"
          /\ pc[t] = "select" /\ UNCHANGED <<contenders, waiters, mode, onDeck, target, depth>>
          /\ \A u \in Threads : u # t => /\ pc'[u] = pc[u] /\ head'[u] = head[u]
                                         /\ rest'[u] = rest[u]
      BY <1>8, <2>2 DEF Select, Goto, Top
    <3> QED BY <1>1, <3>1, <3>2, NodesStay
  <2> QED BY <2>1, <2>2
<1>9. ASSUME Post(t) PROVE NodeInv' BY <1>1, <1>9, NodesStay DEF Post, Goto, Return
<1>10. ASSUME PostSignal(t) PROVE NodeInv' BY <1>1, <1>10, NodesStay DEF PostSignal, Goto, Return
<1> QED BY <1>2, <1>3, <1>4, <1>5, <1>6, <1>7, <1>8, <1>9, <1>10

(* wait() publishes the node of the caller on the wait list. *)
LEMMA WaitNodes ==
  ASSUME IInv, NodeInv, NEW t \in Threads, Wait(t)
  PROVE  NodeInv'
<1> USE NodeTypes, RoleFacts DEF wordVars, localVars
<1>1. PhaseInv /\ PlaceInv /\ LocalInv BY DEF IInv, NodeInv
<1>2. pc[t] = "inside" /\ mode[t] = "lock" BY <1>1 DEF Wait, PhaseInv, SuspendLabels
<1>3. /\ UNCHANGED <<contenders, onDeck, head, rest, target, depth>>
      /\ pc' = [pc EXCEPT ![t] = "clear"] /\ mode' = [mode EXCEPT ![t] = "suspend"]
      /\ waiters' = <<SuspendSem(t)>> \o waiters
  BY DEF Wait, Goto
<1>4. SuspendSem(t) \notin Queued /\ LockSem(t) \notin Queued BY <1>2, QueuedFacts DEF Linked
<1>5. /\ \A r : Within(r, waiters') <=> r = SuspendSem(t) \/ Within(r, waiters)
      /\ Distinct(waiters')
  BY <1>1, <1>3, <1>4, PushFacts DEF PlaceInv
<1>6. \A s \in Sems : s \in Queued' <=> s \in Queued \/ s = SuspendSem(t)
  <2> TAKE s \in Sems
  <2>1. PICK u \in Threads : s = LockSem(u) \/ s = SuspendSem(u) BY QueuedFacts
  <2>2. (u # t => pc'[u] = pc[u] /\ mode'[u] = mode[u]) /\ mode'[t] = "suspend" BY <1>3
  <2>3. CASE s = LockSem(u) BY <1>4, <2>2, <2>3, QueuedFacts
  <2>4. CASE s = SuspendSem(u) BY <2>2, <2>4, QueuedFacts
  <2> QED BY <2>1, <2>3, <2>4
<1>7. \A s \in Sems : InHand(s)' <=> InHand(s) BY <1>2, <1>3 DEF InHand
<1>8. PlaceInv'
  <2>1. Distinct(contenders') /\ \A s \in Sems : Within(s, contenders') <=> Within(s, contenders)
    BY <1>1, <1>3 DEF PlaceInv
  <2>2. ASSUME NEW s \in Sems
        PROVE  /\ s \in Queued' <=> Within(s, contenders') \/ Within(s, waiters') \/ onDeck' = s
                                    \/ InHand(s)'
               /\ Within(s, contenders') => ~Within(s, waiters') /\ onDeck' # s /\ ~InHand(s)'
               /\ Within(s, waiters') => onDeck' # s /\ ~InHand(s)'
    <3>1. s \in Queued <=> Within(s, contenders) \/ Within(s, waiters) \/ onDeck = s \/ InHand(s)
      BY <1>1 DEF PlaceInv
    <3>2. CASE s = SuspendSem(t) BY <1>3, <1>4, <1>5, <1>6, <1>7, <2>1, <3>1, <3>2
    <3>3. CASE s # SuspendSem(t) BY <1>1, <1>3, <1>5, <1>6, <1>7, <2>1, <3>3 DEF PlaceInv
    <3> QED BY <3>2, <3>3
  <2> QED BY <1>5, <2>1, <2>2 DEF PlaceInv
<1>9. LocalInv'
  <2> SUFFICES ASSUME NEW u \in Threads
               PROVE  (/\ ~Within(LockSem(u), waiters)
                       /\ pc[u] = "clear" /\ mode[u] = "suspend" => Within(SuspendSem(u), waiters)
                       /\ pc[u] \notin {"install", "post", "signal"} => target[u] = None
                       /\ pc[u] = "pop" => EndsWith(contenders, head[u], rest[u])
                       /\ ~Recursive => depth[u] <= 1)'
    BY DEF LocalInv
  <2>1. ~Within(LockSem(u)', waiters') BY <1>1, <1>5 DEF LocalInv, LockSem
  <2>2. pc'[u] = "clear" /\ mode'[u] = "suspend" => Within(SuspendSem(u)', waiters')
    BY <1>1, <1>3, <1>5 DEF LocalInv, SuspendSem
  <2>3. /\ pc'[u] \notin {"install", "post", "signal"} => target'[u] = None
        /\ pc'[u] = "pop" => EndsWith(contenders', head'[u], rest'[u])
        /\ ~Recursive => depth'[u] <= 1
    BY <1>1, <1>2, <1>3 DEF LocalInv
  <2> QED BY <2>1, <2>2, <2>3
<1> QED BY <1>8, <1>9 DEF NodeInv

(* The CAS of finishLock() publishes the node of the caller. *)
LEMMA PushNodes ==
  ASSUME IInv, NodeInv, NEW t \in Threads, Push(t), contenders' # contenders
  PROVE  NodeInv'
<1> USE NodeTypes, RoleFacts DEF wordVars, localVars
<1>1. PhaseInv /\ PlaceInv /\ LocalInv BY DEF IInv, NodeInv
<1>2. pc[t] = "push" /\ mode[t] = "lock" BY <1>1 DEF Push, PhaseInv, SuspendLabels
<1>3. /\ UNCHANGED <<waiters, onDeck, mode, rest, target, depth>>
      /\ pc' = [pc EXCEPT ![t] = "await"] /\ head' = [head EXCEPT ![t] = None]
      /\ contenders' = <<LockSem(t)>> \o contenders
  BY <1>2 DEF Push, Goto, Mine
<1>4. LockSem(t) \notin Queued BY <1>2, QueuedFacts DEF Linked
<1>5. /\ \A r : Within(r, contenders') <=> r = LockSem(t) \/ Within(r, contenders)
      /\ Distinct(contenders')
  BY <1>1, <1>3, <1>4, PushFacts DEF PlaceInv
<1>6. \A s \in Sems : s \in Queued' <=> s \in Queued \/ s = LockSem(t)
  <2> TAKE s \in Sems
  <2>1. PICK u \in Threads : s = LockSem(u) \/ s = SuspendSem(u) BY QueuedFacts
  <2>2. mode'[u] = mode[u] /\ (u # t => pc'[u] = pc[u]) /\ pc'[t] = "await" BY <1>3
  <2>3. CASE s = LockSem(u) BY <1>2, <2>2, <2>3, QueuedFacts DEF Linked
  <2>4. CASE s = SuspendSem(u) BY <2>2, <2>4, QueuedFacts
  <2> QED BY <2>1, <2>3, <2>4
<1>7. \A s \in Sems : InHand(s)' <=> InHand(s) BY <1>2, <1>3 DEF InHand
<1>8. PlaceInv'
  <2>1. Distinct(waiters') /\ \A s \in Sems : Within(s, waiters') <=> Within(s, waiters)
    BY <1>1, <1>3 DEF PlaceInv
  <2> QED BY <1>1, <1>3, <1>4, <1>5, <1>6, <1>7, <2>1 DEF PlaceInv
<1>9. LocalInv'
  <2> SUFFICES ASSUME NEW u \in Threads
               PROVE  (/\ ~Within(LockSem(u), waiters)
                       /\ pc[u] = "clear" /\ mode[u] = "suspend" => Within(SuspendSem(u), waiters)
                       /\ pc[u] \notin {"install", "post", "signal"} => target[u] = None
                       /\ pc[u] = "pop" => EndsWith(contenders, head[u], rest[u])
                       /\ ~Recursive => depth[u] <= 1)'
    BY DEF LocalInv
  <2>1. u = t \/ (u # t /\ pc'[u] = pc[u] /\ head'[u] = head[u]) BY <1>3
  <2>2. pc'[u] = "pop" => EndsWith(contenders', head'[u], rest'[u])
    <3> SUFFICES ASSUME pc'[u] = "pop" PROVE EndsWith(contenders', head'[u], rest'[u]) OBVIOUS
    <3>1. u # t BY <1>3
    <3>2. EndsWith(contenders, head[u], rest[u]) BY <1>1, <2>1, <3>1 DEF LocalInv
    <3>3. rest[u] \in Seq(Sems) /\ rest'[u] = rest[u] /\ head'[u] = head[u] BY <1>3, <2>1, <3>1
    <3> QED BY <1>3, <3>2, <3>3, PushFacts
  <2>3. /\ pc'[u] \notin {"install", "post", "signal"} => target'[u] = None
        /\ ~Recursive => depth'[u] <= 1
    BY <1>1, <1>2, <1>3 DEF LocalInv
  <2>4. /\ ~Within(LockSem(u)', waiters')
        /\ pc'[u] = "clear" /\ mode'[u] = "suspend" => Within(SuspendSem(u)', waiters')
    BY <1>1, <1>3 DEF LocalInv, Within, SuspendSem, LockSem
  <2> QED BY <2>2, <2>3, <2>4
<1> QED BY <1>8, <1>9 DEF NodeInv

(* notify() moves the first node of the wait list to the contention list. *)
LEMMA NotifyNodes ==
  ASSUME IInv, NodeInv, NEW t \in Threads, Notify(t) \/ NotifyNext(t), MoveWaiter
  PROVE  NodeInv'
<1> USE NodeTypes, RoleFacts DEF wordVars, localVars
<1>1. PhaseInv /\ PlaceInv /\ LocalInv /\ MutualExclusion BY DEF IInv, NodeInv
<1>2. pc[t] \in {"inside", "notifyAll"} BY DEF Notify, NotifyNext
<1>3. /\ UNCHANGED <<onDeck, mode, pc, head, rest, target, depth>>
      /\ waiters # <<>> /\ waiters' = Tail(waiters)
      /\ contenders' = <<Head(waiters)>> \o contenders
  BY DEF Notify, NotifyNext, MoveWaiter
<1>4. PICK s \in Sems : s = Head(waiters) BY <1>3, TailFacts
<1>5. /\ Within(s, waiters) /\ Distinct(waiters')
      /\ \A r : Within(r, waiters') <=> Within(r, waiters) /\ r # s
  BY <1>1, <1>3, <1>4, TailFacts, EndFacts DEF PlaceInv
<1>6. ~Within(s, contenders) BY <1>1, <1>5 DEF PlaceInv
<1>7. /\ \A r : Within(r, contenders') <=> r = s \/ Within(r, contenders)
      /\ Distinct(contenders')
      /\ \A r, behind : behind \in Seq(Sems) /\ EndsWith(contenders, r, behind) =>
            EndsWith(contenders', r, behind)
  BY <1>1, <1>3, <1>4, <1>6, PushFacts DEF PlaceInv
<1>8. (\A r \in Sems : InHand(r)' <=> InHand(r)) /\ Queued' = Queued
  BY <1>3 DEF InHand, Queued, LockSem, SuspendSem
<1>9. PlaceInv' BY <1>1, <1>3, <1>5, <1>7, <1>8 DEF PlaceInv
<1>10. LocalInv'
  <2> SUFFICES ASSUME NEW u \in Threads
               PROVE  (/\ ~Within(LockSem(u), waiters)
                       /\ pc[u] = "clear" /\ mode[u] = "suspend" => Within(SuspendSem(u), waiters)
                       /\ pc[u] \notin {"install", "post", "signal"} => target[u] = None
                       /\ pc[u] = "pop" => EndsWith(contenders, head[u], rest[u])
                       /\ ~Recursive => depth[u] <= 1)'
    BY DEF LocalInv
  <2>1. pc[u] # "clear" BY <1>1, <1>2 DEF MutualExclusion, Holds
  <2>2. ~Within(LockSem(u)', waiters') BY <1>1, <1>5 DEF LocalInv, LockSem
  <2>3. rest[u] \in Seq(Sems) OBVIOUS
  <2> QED BY <1>1, <1>3, <1>7, <2>1, <2>2, <2>3 DEF LocalInv
<1> QED BY <1>9, <1>10 DEF NodeInv

(* A thread leaves the deck with its node, which is in no other place. *)
LEMMA LeaveNodes ==
  ASSUME IInv, NodeInv, NEW t \in Threads, LeaveDeck(t)
  PROVE  NodeInv'
<1> USE NodeTypes, RoleFacts, SemFacts DEF wordVars, localVars
<1>1. PlaceInv /\ LocalInv /\ OnDeckIsStable BY DEF IInv, NodeInv
<1>2. pc[t] = "offDeck" /\ onDeck = Mine(t) BY <1>1 DEF LeaveDeck, OnDeckIsStable
<1>3. /\ UNCHANGED <<contenders, waiters, head, rest, target, depth>> /\ onDeck' = None
      /\ pc' = [pc EXCEPT ![t] = "inside"] /\ mode' = [mode EXCEPT ![t] = "lock"]
  BY DEF LeaveDeck, Goto
<1>4. \A s \in Sems : s \in Queued' <=> s \in Queued /\ s # Mine(t)
  <2> TAKE s \in Sems
  <2>1. PICK u \in Threads : s = LockSem(u) \/ s = SuspendSem(u) BY QueuedFacts
  <2>2. (u # t => pc'[u] = pc[u] /\ mode'[u] = mode[u]) /\ mode'[t] = "lock" /\ pc'[t] = "inside" BY <1>3
  <2>3. mode[t] = "lock" \/ mode[t] = "suspend" OBVIOUS
  <2>4. CASE s = LockSem(u) BY <1>2, <2>2, <2>3, <2>4, QueuedFacts DEF Linked, Mine
  <2>5. CASE s = SuspendSem(u) BY <1>2, <2>2, <2>3, <2>5, QueuedFacts DEF Linked, Mine
  <2> QED BY <2>1, <2>4, <2>5
<1>5. \A s \in Sems : InHand(s)' <=> InHand(s) BY <1>2, <1>3 DEF InHand
<1>6. PlaceInv'
  <2>1. /\ Distinct(contenders') /\ Distinct(waiters')
        /\ \A s : (Within(s, contenders') <=> Within(s, contenders))
                  /\ (Within(s, waiters') <=> Within(s, waiters))
    BY <1>1, <1>3 DEF PlaceInv
  <2>2. ASSUME NEW s \in Sems
        PROVE  /\ s \in Queued' <=> Within(s, contenders') \/ Within(s, waiters') \/ onDeck' = s
                                    \/ InHand(s)'
               /\ Within(s, contenders') => ~Within(s, waiters') /\ onDeck' # s /\ ~InHand(s)'
               /\ Within(s, waiters') => onDeck' # s /\ ~InHand(s)'
    <3>1. InHand(s) => onDeck # s BY DEF IInv, MicrolockInv, InHand
    <3>2. onDeck' # s BY <1>3
    <3> QED BY <1>1, <1>2, <1>4, <1>5, <2>1, <3>1, <3>2 DEF PlaceInv
  <2> QED BY <2>1, <2>2 DEF PlaceInv
<1>7. LocalInv'
  <2> SUFFICES ASSUME NEW u \in Threads
               PROVE  (/\ ~Within(LockSem(u), waiters)
                       /\ pc[u] = "clear" /\ mode[u] = "suspend" => Within(SuspendSem(u), waiters)
                       /\ pc[u] \notin {"install", "post", "signal"} => target[u] = None
                       /\ pc[u] = "pop" => EndsWith(contenders, head[u], rest[u])
                       /\ ~Recursive => depth[u] <= 1)'
    BY DEF LocalInv
  <2>1. pc'[u] = "inside" \/ (pc'[u] = pc[u] /\ mode'[u] = mode[u]) BY <1>3
  <2>2. u = t => target'[u] = None BY <1>1, <1>2, <1>3 DEF LocalInv
  <2>3. u # t => pc'[u] = pc[u] /\ mode'[u] = mode[u] BY <1>3
  <2> QED BY <1>1, <1>3, <2>1, <2>2, <2>3 DEF LocalInv, Within, EndsWith, LockSem, SuspendSem
<1> QED BY <1>6, <1>7 DEF NodeInv

(* The unlocker takes the head off the contention list: nobody else pops, so
   the node it read is still in the list and what follows it is unchanged. *)
LEMMA PopNodes ==
  ASSUME IInv, NodeInv, NEW t \in Threads, Pop(t)
  PROVE  NodeInv'
<1> USE NodeTypes, RoleFacts, SemFacts DEF wordVars, localVars
<1>1. PlaceInv /\ LocalInv /\ MicrolockInv BY DEF IInv, NodeInv
<1>2. pc[t] = "pop" /\ EndsWith(contenders, head[t], rest[t]) /\ target[t] = None
  BY <1>1 DEF Pop, LocalInv
<1>3. CASE ~(~locked /\ Top = head[t]) BY <1>1, <1>2, <1>3, NodesStay DEF Pop, Goto, LocalInv, Linked
<1>4. CASE ~locked /\ Top = head[t]
  <2>1. /\ UNCHANGED <<waiters, onDeck, mode, depth>> /\ contenders' = rest[t]
        /\ pc' = [pc EXCEPT ![t] = "install"] /\ target' = [target EXCEPT ![t] = head[t]]
        /\ head' = [head EXCEPT ![t] = None] /\ rest' = [rest EXCEPT ![t] = <<>>]
    BY <1>4 DEF Pop, Goto
  <2>2. contenders # <<>> /\ head[t] = Head(contenders) /\ head[t] \in Sems
    <3>1. Len(rest[t]) \in Nat /\ Len(rest[t]) < Len(contenders) /\ Len(<<>>) = 0 BY <1>2 DEF EndsWith
    <3>2. contenders # <<>> BY <3>1
    <3> QED BY <1>4, <3>2, TailFacts DEF Top
  <2>3. /\ Within(head[t], contenders) /\ Distinct(contenders')
        /\ \A r : Within(r, contenders') <=> Within(r, contenders) /\ r # head[t]
    BY <1>1, <1>2, <2>1, <2>2, EndFacts DEF PlaceInv
  <2>4. \A u \in Threads : u # t => pc[u] \notin {"install", "pop", "select"}
    BY <1>1, <1>2 DEF MicrolockInv
  <2>5. \A s \in Sems : ~InHand(s) /\ (InHand(s)' <=> s = head[t]) BY <1>2, <2>1, <2>4 DEF InHand
  <2>6. \A s \in Sems : s \in Queued' <=> s \in Queued
    <3> TAKE s \in Sems
    <3>1. PICK u \in Threads : s = LockSem(u) \/ s = SuspendSem(u) BY QueuedFacts
    <3>2. mode'[u] = mode[u] /\ (u # t => pc'[u] = pc[u]) /\ pc'[t] = "install" BY <2>1
    <3> QED BY <1>2, <3>1, <3>2, QueuedFacts DEF Linked
  <2>7. PlaceInv'
    <3>1. Distinct(waiters') /\ \A s : Within(s, waiters') <=> Within(s, waiters)
      BY <1>1, <2>1 DEF PlaceInv
    <3>2. ASSUME NEW s \in Sems
          PROVE  /\ s \in Queued' <=> Within(s, contenders') \/ Within(s, waiters') \/ onDeck' = s
                                      \/ InHand(s)'
                 /\ Within(s, contenders') => ~Within(s, waiters') /\ onDeck' # s /\ ~InHand(s)'
                 /\ Within(s, waiters') => onDeck' # s /\ ~InHand(s)'
      <4>1. CASE s = head[t] BY <1>1, <2>1, <2>3, <2>5, <2>6, <3>1, <4>1 DEF PlaceInv
      <4>2. CASE s # head[t] BY <1>1, <2>1, <2>3, <2>5, <2>6, <3>1, <4>2 DEF PlaceInv
      <4> QED BY <4>1, <4>2
    <3> QED BY <2>3, <3>1, <3>2 DEF PlaceInv
  <2>8. LocalInv'
    <3> SUFFICES ASSUME NEW u \in Threads
                 PROVE  (/\ ~Within(LockSem(u), waiters)
                         /\ pc[u] = "clear" /\ mode[u] = "suspend" => Within(SuspendSem(u), waiters)
                         /\ pc[u] \notin {"install", "post", "signal"} => target[u] = None
                         /\ pc[u] = "pop" => EndsWith(contenders, head[u], rest[u])
                         /\ ~Recursive => depth[u] <= 1)'
      BY DEF LocalInv
    <3>1. pc'[t] = "install" /\ (u # t => pc'[u] = pc[u] /\ target'[u] = target[u]) BY <2>1
    <3> QED BY <1>1, <2>1, <2>4, <3>1 DEF LocalInv, Within, LockSem, SuspendSem
  <2> QED BY <2>7, <2>8 DEF NodeInv
<1> QED BY <1>3, <1>4

(* The store that ends the microlock moves the node from hand to deck. *)
LEMMA InstallNodes ==
  ASSUME IInv, NodeInv, NEW t \in Threads, Install(t)
  PROVE  NodeInv'
<1> USE NodeTypes, RoleFacts, SemFacts DEF wordVars, localVars
<1>1. PlaceInv /\ LocalInv /\ MicrolockInv BY DEF IInv, NodeInv
<1>2. /\ pc[t] = "install" /\ onDeck = Mark /\ onDeck' = target[t]
      /\ UNCHANGED <<contenders, waiters, mode, head, rest, target, depth>>
      /\ pc' = [pc EXCEPT ![t] = IF target[t] = None THEN "recheck" ELSE "post"]
  BY <1>1 DEF Install, Goto, MicrolockInv
<1>3. \A u \in Threads : u # t => pc[u] # "install" /\ pc'[u] = pc[u] BY <1>1, <1>2 DEF MicrolockInv
<1>4. pc'[t] = IF target[t] = None THEN "recheck" ELSE "post" BY <1>2
<1>5. \A s \in Sems : ~InHand(s)' /\ (InHand(s) <=> onDeck' = s) BY <1>2, <1>3, <1>4 DEF InHand
<1>6. \A s \in Sems : s \in Queued' <=> s \in Queued
  <2> TAKE s \in Sems
  <2>1. PICK u \in Threads : s = LockSem(u) \/ s = SuspendSem(u) BY QueuedFacts
  <2>2. mode'[u] = mode[u] /\ (pc'[u] \in Linked <=> pc[u] \in Linked) BY <1>2, <1>3, <1>4 DEF Linked
  <2>3. CASE s = LockSem(u) BY <2>2, <2>3, QueuedFacts
  <2>4. CASE s = SuspendSem(u) BY <2>2, <2>4, QueuedFacts
  <2> QED BY <2>1, <2>3, <2>4
<1>7. PlaceInv'
  <2>1. /\ Distinct(contenders') /\ Distinct(waiters')
        /\ \A s : (Within(s, contenders') <=> Within(s, contenders))
                  /\ (Within(s, waiters') <=> Within(s, waiters))
    BY <1>1, <1>2 DEF PlaceInv
  <2>2. \A s \in Sems : onDeck # s BY <1>2
  <2> QED BY <1>1, <1>5, <1>6, <2>1, <2>2 DEF PlaceInv
<1>8. LocalInv'
  <2> SUFFICES ASSUME NEW u \in Threads
               PROVE  (/\ ~Within(LockSem(u), waiters)
                       /\ pc[u] = "clear" /\ mode[u] = "suspend" => Within(SuspendSem(u), waiters)
                       /\ pc[u] \notin {"install", "post", "signal"} => target[u] = None
                       /\ pc[u] = "pop" => EndsWith(contenders, head[u], rest[u])
                       /\ ~Recursive => depth[u] <= 1)'
    BY DEF LocalInv
  <2> QED BY <1>1, <1>2, <1>3, <1>4 DEF LocalInv, Within, EndsWith, LockSem, SuspendSem
<1> QED BY <1>7, <1>8 DEF NodeInv

(* Initially no node is anywhere. *)
LEMMA InitNodes == Init => NodeInv
<1> SUFFICES ASSUME Init PROVE NodeInv OBVIOUS
<1>1. /\ contenders = <<>> /\ waiters = <<>> /\ onDeck = None
      /\ \A t \in Threads : /\ pc[t] = "idle" /\ mode[t] = "lock" /\ target[t] = None
                            /\ depth[t] = 0
  BY DEF Init
<1>2. \A s : ~Within(s, <<>>) /\ Distinct(<<>>) BY DEF Within, Distinct
<1>3. \A s \in Sems : s \notin Queued BY <1>1, QueuedFacts DEF Linked
<1> QED BY <1>1, <1>2, <1>3, SemFacts DEF NodeInv, PlaceInv, LocalInv, InHand

(* Every step keeps the nodes in their places. *)
LEMMA NodeStep == IInv /\ NodeInv /\ [Next]_vars => NodeInv'
<1> SUFFICES ASSUME IInv, NodeInv, [Next]_vars PROVE NodeInv' OBVIOUS
<1>1. ASSUME NEW t \in Threads, Client(t) PROVE NodeInv'
  BY <1>1, LockNodes, UnlockNodes, WaitNodes, NotifyNodes DEF Client, Notify
<1>2. ASSUME NEW t \in Threads, LockStep(t) \/ TimeOut(t) PROVE NodeInv'
  BY <1>2, LockNodes, PushNodes, LeaveNodes DEF LockStep
<1>3. ASSUME NEW t \in Threads, UnlockStep(t) \/ NotifyNext(t) PROVE NodeInv'
  BY <1>3, UnlockNodes, PopNodes, InstallNodes, NotifyNodes DEF UnlockStep, NotifyNext
<1>4. CASE UNCHANGED vars
  <2>1. UNCHANGED <<contenders, waiters, onDeck, mode, pc, head, rest, target, depth>>
    BY <1>4 DEF vars, wordVars, localVars
  <2>2. Queued' = Queued /\ \A s : InHand(s)' <=> InHand(s)
    BY <2>1 DEF Queued, InHand, LockSem, SuspendSem
  <2> QED BY <2>1, <2>2 DEF NodeInv, PlaceInv, LocalInv, Within, Distinct, EndsWith, LockSem, SuspendSem
<1> QED BY <1>1, <1>2, <1>3, <1>4 DEF Next, Step

----------------------------------------
(* Counting the positions of a node in a list that has no node twice. *)
LEMMA CountFacts ==
  ASSUME NEW list, Distinct(list), NEW s
  PROVE  Occurrences(list, s) = IF Within(s, list) THEN 1 ELSE 0
<1>1. CASE Within(s, list)
  <2>1. PICK i \in DOMAIN list : list[i] = s BY <1>1 DEF Within
  <2>2. {j \in DOMAIN list : list[j] = s} = {i} BY <2>1 DEF Distinct
  <2> QED BY <1>1, <2>2, FS_Singleton DEF Occurrences
<1>2. CASE ~Within(s, list)
  <2>1. {j \in DOMAIN list : list[j] = s} = {} BY <1>2 DEF Within
  <2> QED BY <1>2, <2>1, FS_EmptySet DEF Occurrences
<1> QED BY <1>1, <1>2

(* A published node counts once over its places, and any other not at all. *)
LEMMA PlacesCount == IInv /\ NodeInv => NodesAreLive
<1> SUFFICES ASSUME IInv, NodeInv, NEW s \in Sems
             PROVE  Places(s) = IF s \in Queued THEN 1 ELSE 0
  BY DEF NodesAreLive
<1>1. /\ Occurrences(contenders, s) = IF Within(s, contenders) THEN 1 ELSE 0
      /\ Occurrences(waiters, s) = IF Within(s, waiters) THEN 1 ELSE 0
  BY CountFacts DEF NodeInv, PlaceInv
<1>2. Cardinality({u \in Threads : pc[u] = "install" /\ target[u] = s})
         = IF InHand(s) THEN 1 ELSE 0
  <2>1. CASE InHand(s)
    <3>1. PICK u \in Threads : pc[u] = "install" /\ target[u] = s BY <2>1 DEF InHand
    <3>2. {v \in Threads : pc[v] = "install" /\ target[v] = s} = {u} BY <3>1 DEF IInv, MicrolockInv
    <3> QED BY <2>1, <3>2, FS_Singleton
  <2>2. CASE ~InHand(s)
    <3>1. {v \in Threads : pc[v] = "install" /\ target[v] = s} = {} BY <2>2 DEF InHand
    <3> QED BY <2>2, <3>1, FS_EmptySet
  <2> QED BY <2>1, <2>2
<1>3. InHand(s) => onDeck # s BY SemFacts DEF IInv, MicrolockInv, InHand
<1> QED BY <1>1, <1>2, <1>3 DEF Places, NodeInv, PlaceInv

(* The invariant of the nodes holds in every state. *)
THEOREM NodeInvariance == Spec => [](IInv /\ NodeInv)
<1>1. Init => IInv /\ NodeInv BY InitInv, InitNodes
<1>2. IInv /\ NodeInv /\ [Next]_vars => (IInv /\ NodeInv)'
  BY NodeStep, TypeStep, PhaseStep, ExclusionStep, OwnerStep, DeckStep DEF IInv
<1> QED BY <1>1, <1>2, PTL DEF Spec

(* A sleeping call's node is always in exactly one place where a later
   unlock() or notify() finds it, and no list keeps the node of a call that
   has returned. *)
THEOREM NodesStayLive == Spec => []NodesAreLive
<1>1. IInv /\ NodeInv => NodesAreLive BY PlacesCount
<1> QED BY <1>1, NodeInvariance, PTL

----------------------------------------
(* What the clients see of a state, and of the next one. *)
LEMMA ViewFacts ==
  ASSUME MutualExclusion, MutualExclusion'
  PROVE  /\ \A t \in Threads : Holds(t) => Holder = t
         /\ \A t \in Threads : Holds(t)' => Holder' = t
         /\ (\A t \in Threads : ~Holds(t)) => Holder = None
         /\ (\A t \in Threads : ~Holds(t)') => Holder' = None
         /\ \A t \in Threads : /\ t \in Waiting <=> pc[t] # "clear" /\ Within(SuspendSem(t), waiters)
                               /\ t \in Notified <=> /\ mode[t] = "suspend" /\ t \notin Waiting
                                                     /\ pc[t] \notin {"clear", "offDeck"}
         /\ \A t \in Threads : /\ t \in Waiting' <=> pc'[t] # "clear" /\ Within(SuspendSem(t), waiters')
                               /\ t \in Notified' <=> /\ mode'[t] = "suspend" /\ t \notin Waiting'
                                                      /\ pc'[t] \notin {"clear", "offDeck"}
         /\ Waiting \subseteq Threads /\ Waiting' \subseteq Threads
         /\ Notified \subseteq Threads /\ Notified' \subseteq Threads
<1>1. ASSUME NEW t \in Threads, Holds(t) PROVE Holder = t BY <1>1 DEF MutualExclusion, Holder
<1>2. ASSUME NEW t \in Threads, Holds(t)' PROVE Holder' = t BY <1>2 DEF MutualExclusion, Holder
<1>3. /\ (\A t \in Threads : ~Holds(t)) => Holder = None
      /\ (\A t \in Threads : ~Holds(t)') => Holder' = None
  BY DEF Holder
<1>4. /\ \A t \in Threads : t \in Waiting <=> pc[t] # "clear" /\ Within(SuspendSem(t), waiters)
      /\ \A t \in Threads : t \in Waiting' <=> pc'[t] # "clear" /\ Within(SuspendSem(t), waiters')
      /\ Waiting \subseteq Threads /\ Waiting' \subseteq Threads
  BY DEF Waiting, Within, SuspendSem
<1>5. /\ \A t \in Threads : t \in Notified <=> /\ mode[t] = "suspend" /\ t \notin Waiting
                                               /\ pc[t] \notin {"clear", "offDeck"}
      /\ \A t \in Threads : t \in Notified' <=> /\ mode'[t] = "suspend" /\ t \notin Waiting'
                                                /\ pc'[t] \notin {"clear", "offDeck"}
      /\ Notified \subseteq Threads /\ Notified' \subseteq Threads
  BY DEF Notified
<1> QED BY <1>1, <1>2, <1>3, <1>4, <1>5

(* A step that changes nothing of what the clients see. *)
LEMMA Unseen ==
  ASSUME MutualExclusion, MutualExclusion',
         \A t \in Threads : /\ Holds(t)' <=> Holds(t)
                            /\ (IF pc'[t] = "clear" /\ mode'[t] = "lock" THEN 1 ELSE depth'[t])
                                 = (IF pc[t] = "clear" /\ mode[t] = "lock" THEN 1 ELSE depth[t])
                            /\ t \in Waiting' <=> t \in Waiting
                            /\ t \in Notified' <=> t \in Notified
  PROVE  UNCHANGED Abs!vars
<1>1. Holder' = Holder
  <2>1. CASE \E t \in Threads : Holds(t) BY <2>1, ViewFacts
  <2>2. CASE \A t \in Threads : ~Holds(t) BY <2>2, ViewFacts
  <2> QED BY <2>1, <2>2
<1>2. Nested' = Nested BY DEF Nested
<1>3. Waiting' = Waiting /\ Notified' = Notified BY ViewFacts
<1> QED BY <1>1, <1>2, <1>3 DEF Abs!vars

(* A step of one thread inside a call, by its labels. *)
LEMMA Inward ==
  ASSUME MutualExclusion, MutualExclusion', NEW t \in Threads,
         UNCHANGED <<waiters, mode, depth>>,
         \A u \in Threads : u # t => pc'[u] = pc[u],
         pc[t] # "clear", pc'[t] # "clear", Holds(t)' <=> Holds(t),
         mode[t] = "suspend" => (pc'[t] = "offDeck" <=> pc[t] = "offDeck")
  PROVE  UNCHANGED Abs!vars
<1>1. \A u \in Threads : Holds(u)' <=> Holds(u) BY DEF Holds, Inside
<1>2. \A u \in Threads : u \in Waiting' <=> u \in Waiting BY ViewFacts
<1>3. \A u \in Threads : u \in Notified' <=> u \in Notified BY <1>2, ViewFacts
<1> QED BY <1>1, <1>2, <1>3, Unseen

(* The steps of lock() before the CAS that takes the lock, and those that
   sleep and wake: the clients see nothing. *)
LEMMA LockUnseen ==
  ASSUME IInv, MutualExclusion', NEW t \in Threads,
         \/ TryLock(t) \/ Lock(t) \/ FindLocked(t) \/ FindFree(t)
         \/ ResetSemaphore(t) \/ LoadWord(t) \/ Push(t)
         \/ GetOnDeck(t) \/ AwaitSleep(t) \/ DeckSleep(t) \/ Wake(t) \/ TimeOut(t)
  PROVE  UNCHANGED Abs!vars
<1> PhaseInv /\ MutualExclusion /\ OwnerInv BY DEF IInv
<1> USE NodeTypes DEF PhaseInv, SuspendLabels, Holds, Inside, wordVars, localVars
<1>1. ASSUME TryLock(t) \/ Lock(t) PROVE UNCHANGED Abs!vars
  <2>1. PICK label \in {"try", "lock"} : Call(t, label) BY <1>1 DEF TryLock, Lock
  <2>2. /\ pc'[t] = label /\ \A u \in Threads : u # t => pc'[u] = pc[u]
        /\ UNCHANGED <<waiters, mode, depth>> /\ pc[t] \in {"idle", "inside"}
    BY <2>1 DEF Call, Goto
  <2>3. mode[t] = "lock" BY <2>2
  <2>4. (pc[t] = "idle" => depth[t] = 0) /\ (pc[t] = "inside" => depth[t] > 0) BY <2>3
  <2>5. Holds(t)' <=> Holds(t) BY <2>2, <2>4
  <2> QED BY <2>2, <2>3, <2>5, Inward
<1>2. ASSUME FindLocked(t) PROVE UNCHANGED Abs!vars
  <2>0. PICK label \in AfterFailure(pc[t]) : pc' = [pc EXCEPT ![t] = label] BY <1>2 DEF FindLocked, Goto
  <2>1. /\ pc[t] \in Trying /\ ~(Recursive /\ owner = t)
        /\ UNCHANGED <<waiters, mode, depth>> /\ \A u \in Threads : u # t => pc'[u] = pc[u]
        /\ pc'[t] \in AfterFailure(pc[t])
    BY <1>2, <2>0 DEF FindLocked
  <2>2. ~Holds(t) BY <2>1 DEF Trying, OwnerInv
  <2>3. CASE mode[t] = "lock"
    <3>1. depth[t] = 0 BY <2>1, <2>2, <2>3 DEF Trying
    <3>2. pc'[t] \in {"idle", "lock", "reset", "barge", "deck", "deckWait"}
      BY <2>1 DEF AfterFailure, Trying
    <3>3. ~Holds(t)' BY <2>1, <3>1, <3>2
    <3> QED BY <2>1, <2>2, <2>3, <3>2, <3>3, Inward DEF Trying
  <2>4. CASE mode[t] = "suspend"
    <3>1. pc[t] = "deck" /\ pc'[t] \in {"deck", "deckWait"} BY <2>1, <2>4 DEF AfterFailure, Trying
    <3> QED BY <2>1, <2>2, <3>1, Inward
  <2> QED BY <2>3, <2>4
<1>3. ASSUME FindFree(t) PROVE UNCHANGED Abs!vars
  BY <1>3, Inward DEF FindFree, Trying, CasOf, Goto, MutualExclusion
<1>4. ASSUME ResetSemaphore(t) \/ LoadWord(t) \/ Push(t) PROVE UNCHANGED Abs!vars
  <2>1. CASE ResetSemaphore(t) BY <2>1, Inward DEF ResetSemaphore, Goto
  <2>2. CASE LoadWord(t) BY <2>2, Inward DEF LoadWord, Goto
  <2>3. CASE Push(t) BY <2>3, Inward DEF Push, Goto
  <2> QED BY <1>4, <2>1, <2>2, <2>3
<1>5. ASSUME GetOnDeck(t) \/ Wake(t) \/ TimeOut(t) PROVE UNCHANGED Abs!vars
  BY <1>5, Inward DEF GetOnDeck, Wake, TimeOut, Goto
<1>6. ASSUME AwaitSleep(t) \/ DeckSleep(t) PROVE UNCHANGED Abs!vars
  BY <1>6, Inward DEF AwaitSleep, DeckSleep, Sleep, Goto
<1> QED BY <1>1, <1>2, <1>3, <1>4, <1>5, <1>6

(* The steps of unlock() after the lock bit was cleared, and the loop of
   notifyAll(): the clients see nothing. *)
LEMMA UnlockUnseen ==
  ASSUME IInv, MutualExclusion', NEW t \in Threads,
         \/ NotifyAll(t) \/ (NotifyNext(t) /\ waiters = <<>>)
         \/ CheckDeck(t) \/ CheckList(t) \/ Grab(t) \/ Select(t) \/ Pop(t) \/ Install(t)
         \/ Post(t) \/ PostSignal(t)
  PROVE  UNCHANGED Abs!vars
<1> PhaseInv /\ MutualExclusion BY DEF IInv
<1> USE NodeTypes DEF PhaseInv, SuspendLabels, Holds, Inside, wordVars, localVars
<1>0. Return(t) \in {"await", "idle"} BY DEF Return
<1>1. ASSUME NotifyAll(t) \/ (NotifyNext(t) /\ waiters = <<>>) PROVE UNCHANGED Abs!vars
  BY <1>1, Inward DEF NotifyAll, NotifyNext, MoveWaiter, Goto
<1>2. ASSUME CheckDeck(t) PROVE UNCHANGED Abs!vars BY <1>0, <1>2, Inward DEF CheckDeck, Goto
<1>3. ASSUME CheckList(t) \/ Grab(t) PROVE UNCHANGED Abs!vars
  BY <1>0, <1>3, Inward DEF CheckList, Grab, Goto
<1>4. ASSUME Select(t) \/ Pop(t) \/ Install(t) PROVE UNCHANGED Abs!vars
  <2>1. CASE Select(t) BY <2>1, Inward DEF Select, Goto
  <2>2. CASE Pop(t) BY <2>2, Inward DEF Pop, Goto
  <2>3. CASE Install(t) BY <2>3, Inward DEF Install, Goto
  <2> QED BY <1>4, <2>1, <2>2, <2>3
<1>5. ASSUME Post(t) \/ PostSignal(t) PROVE UNCHANGED Abs!vars
  BY <1>0, <1>5, Inward DEF Post, PostSignal, Goto
<1> QED BY <1>1, <1>2, <1>3, <1>4, <1>5

(* Relock is the nesting of the abstract monitor. *)
LEMMA RelockSeen ==
  ASSUME IInv, MutualExclusion', NEW t \in Threads, Relock(t)
  PROVE  Abs!Next
<1> PhaseInv /\ MutualExclusion /\ OwnerInv BY DEF IInv
<1> USE NodeTypes
<1>1. /\ pc[t] \in Trying /\ owner = t /\ UNCHANGED <<waiters, mode>>
      /\ pc' = [pc EXCEPT ![t] = AfterSuccess(pc[t])] /\ depth' = [depth EXCEPT ![t] = @ + 1]
  BY DEF Relock, Goto, localVars
<1>2. Holds(t) /\ pc[t] \in {"try", "lock"} /\ depth[t] > 0 BY <1>1 DEF OwnerInv, Holds, Inside, Trying
<1>3. pc'[t] = "inside" /\ \A u \in Threads : u # t => pc'[u] = pc[u] /\ depth'[u] = depth[u]
  BY <1>1, <1>2 DEF AfterSuccess
<1>4. Holds(t)' BY <1>3 DEF Holds
<1>5. Holder = t /\ Holder' = t BY <1>2, <1>4, ViewFacts
<1>6. Waiting' = Waiting /\ Notified' = Notified
  <2>1. mode[t] = "lock" BY <1>2 DEF PhaseInv, SuspendLabels
  <2>2. \A u \in Threads : u \in Waiting' <=> u \in Waiting BY <1>1, <1>2, <1>3, ViewFacts
  <2>3. \A u \in Threads : u \in Notified' <=> u \in Notified BY <1>1, <1>3, <2>1, <2>2, ViewFacts
  <2> QED BY <2>2, <2>3, ViewFacts
<1>7. Nested' = [Nested EXCEPT ![t] = @ + 1] BY <1>1, <1>2, <1>3 DEF Nested
<1> QED BY <1>5, <1>6, <1>7 DEF Abs!Next, Abs!Nest

(* The CAS that takes the lock is the acquisition of the abstract monitor,
   or for a thread that was in wait() its return with the lock. *)
LEMMA CasSeen ==
  ASSUME IInv, NodeInv, MutualExclusion', NEW t \in Threads, AttemptCas(t)
  PROVE  Abs!Next \/ UNCHANGED Abs!vars
<1> PhaseInv /\ MutualExclusion /\ OnDeckIsStable /\ PlaceInv BY DEF IInv, NodeInv
<1> USE NodeTypes
<1>1. PICK from \in Trying : Cas(t, from) BY DEF AttemptCas
<1>2. /\ pc[t] = CasOf(from) /\ UNCHANGED <<waiters, mode>>
      /\ pc[t] \in {"tryCas", "lockCas", "bargeCas", "deckCas"}
      /\ from = "deck" <=> pc[t] = "deckCas"
  BY <1>1 DEF Cas, Trying, CasOf
<1>3. mode[t] = "suspend" => pc[t] = "deckCas" BY <1>2 DEF PhaseInv, SuspendLabels
<1>4. CASE UNCHANGED depth /\ \E label \in AfterFailure(from) : Goto(t, label)
  <2>1. /\ pc'[t] \in {"idle", "lock", "reset", "barge", "deck", "deckWait"}
        /\ \A u \in Threads : u # t => pc'[u] = pc[u]
    BY <1>4 DEF Goto, AfterFailure
  <2>2. Holds(t)' <=> Holds(t)
    <3>1. mode[t] = "lock" => depth[t] = 0 BY <1>2 DEF PhaseInv
    <3>2. mode[t] = "suspend" => pc'[t] \in {"deck", "deckWait"}
      BY <1>2, <1>3, <1>4 DEF Goto, AfterFailure
    <3> QED BY <1>2, <1>4, <2>1, <3>1, <3>2 DEF Holds, Inside
  <2> QED BY <1>2, <1>4, <2>1, <2>2, Inward
<1>5. CASE /\ ~locked /\ depth' = [depth EXCEPT ![t] = IF mode[t] = "lock" THEN 1 ELSE @]
           /\ Goto(t, AfterSuccess(from))
  <2>1. /\ pc'[t] = AfterSuccess(from) /\ pc'[t] \in {"inside", "offDeck"}
        /\ \A u \in Threads : u # t => pc'[u] = pc[u] /\ depth'[u] = depth[u]
        /\ depth'[t] = IF mode[t] = "lock" THEN 1 ELSE depth[t]
    BY <1>5 DEF Goto, AfterSuccess
  <2>2. Holder = None /\ Holder' = t
    <3>1. \A u \in Threads : ~Holds(u) BY <1>5 DEF MutualExclusion
    <3>2. Holds(t)' BY <2>1 DEF Holds
    <3> QED BY <3>1, <3>2, ViewFacts
  <2>3. \A u \in Threads : u \in Waiting' <=> u \in Waiting BY <1>2, <2>1, ViewFacts
  <2>4. CASE mode[t] = "lock"
    <3>1. t \notin Waiting BY <2>4, QueuedFacts, RoleFacts, ViewFacts DEF PlaceInv
    <3>2. \A u \in Threads : u \in Notified' <=> u \in Notified BY <1>2, <2>1, <2>3, <2>4, ViewFacts
    <3>3. t \notin Notified BY <2>4, ViewFacts
    <3>4. Nested' = [Nested EXCEPT ![t] = 1] BY <1>2, <2>1, <2>4 DEF Nested
    <3>5. Waiting' = Waiting /\ Notified' = Notified BY <2>3, <3>2, ViewFacts
    <3> QED BY <2>2, <3>1, <3>3, <3>4, <3>5 DEF Abs!Next, Abs!Acquire
  <2>5. CASE mode[t] = "suspend"
    <3>1. pc[t] = "deckCas" /\ pc'[t] = "offDeck" BY <1>2, <1>3, <2>1, <2>5 DEF AfterSuccess
    <3>2. onDeck = SuspendSem(t) BY <2>5, <3>1 DEF OnDeckIsStable, Mine
    <3>3. t \notin Waiting BY <3>2, RoleFacts, ViewFacts DEF PlaceInv
    <3>4. t \in Notified /\ t \notin Notified' BY <2>5, <3>1, <3>3, ViewFacts
    <3>5. \A u \in Threads : u # t => (u \in Notified' <=> u \in Notified) BY <1>2, <2>1, <2>3, ViewFacts
    <3>6. Nested' = Nested BY <1>2, <2>1, <2>5 DEF Nested
    <3>7. Waiting' = Waiting /\ Notified' = Notified \ {t} BY <2>3, <3>4, <3>5, ViewFacts
    <3> QED BY <2>2, <3>4, <3>6, <3>7 DEF Abs!Next, Abs!Resume
  <2> QED BY <2>4, <2>5
<1> QED BY <1>1, <1>4, <1>5 DEF Cas

(* unlock() is the release or the end of one nesting, from the first it is
   only a step towards the release, which comes when the bit is cleared. *)
LEMMA UnlockSeen ==
  ASSUME IInv, NodeInv, MutualExclusion', NEW t \in Threads, Unlock(t)
  PROVE  Abs!Next \/ UNCHANGED Abs!vars
<1> PhaseInv /\ MutualExclusion /\ OwnerInv /\ LocalInv BY DEF IInv, NodeInv
<1> USE NodeTypes DEF wordVars, localVars
<1>1. /\ pc[t] = "inside" /\ mode[t] = "lock" /\ depth[t] > 0 /\ lockCount = depth[t]
      /\ Holds(t) /\ UNCHANGED <<waiters, mode>> /\ depth[t] \in Nat
  BY DEF Unlock, PhaseInv, SuspendLabels, OwnerInv, Inside, Holds
<1>2. CASE Recursive /\ lockCount > 1
  <2>1. pc' = pc /\ depth' = [depth EXCEPT ![t] = @ - 1] BY <1>2 DEF Unlock
  <2>2. Holds(t)' BY <1>1, <2>1 DEF Holds
  <2>3. Holder = t /\ Holder' = t BY <1>1, <2>2, ViewFacts
  <2>4. Waiting' = Waiting /\ Notified' = Notified BY <1>1, <2>1 DEF Waiting, Notified, SuspendSem
  <2>5. Nested[t] > 1 /\ Nested' = [Nested EXCEPT ![t] = @ - 1] BY <1>1, <1>2, <2>1 DEF Nested
  <2> QED BY <2>3, <2>4, <2>5 DEF Abs!Next, Abs!Unnest
<1>3. CASE ~(Recursive /\ lockCount > 1)
  <2>1. pc' = [pc EXCEPT ![t] = "clear"] /\ depth' = [depth EXCEPT ![t] = 0] BY <1>3 DEF Unlock, Goto
  <2>2. pc'[t] = "clear" /\ depth'[t] = 0
        /\ \A u \in Threads : u # t => pc'[u] = pc[u] /\ depth'[u] = depth[u]
    BY <2>1
  <2>3. depth[t] = 1 BY <1>1, <1>3 DEF LocalInv
  <2>4. \A u \in Threads : Holds(u)' <=> Holds(u) BY <1>1, <2>2 DEF Holds, Inside
  <2>5. \A u \in Threads : u \in Waiting' <=> u \in Waiting
    <3>1. t \notin Waiting BY <1>1, QueuedFacts, RoleFacts, ViewFacts DEF NodeInv, PlaceInv
    <3> QED BY <1>1, <2>2, <3>1, ViewFacts
  <2>6. \A u \in Threads : u \in Notified' <=> u \in Notified BY <1>1, <2>2, <2>5, ViewFacts
  <2> QED BY <1>1, <2>2, <2>3, <2>4, <2>5, <2>6, Unseen
<1> QED BY <1>2, <1>3

(* The clearing of the lock bit is the release of the abstract monitor, or
   in wait() the moment when the caller gives the lock up to sleep. *)
LEMMA ClearSeen ==
  ASSUME IInv, NodeInv, MutualExclusion', NEW t \in Threads, ClearBit(t)
  PROVE  Abs!Next
<1> PhaseInv /\ MutualExclusion /\ LocalInv BY DEF IInv, NodeInv
<1> USE NodeTypes DEF wordVars, localVars
<1>1. /\ pc[t] = "clear" /\ pc' = [pc EXCEPT ![t] = "checkDeck"] /\ locked' = FALSE
      /\ UNCHANGED <<waiters, mode, depth>>
  BY DEF ClearBit, Goto
<1>2. pc'[t] = "checkDeck" /\ \A u \in Threads : u # t => pc'[u] = pc[u] BY <1>1
<1>3. Holder = t /\ Holder' = None
  <2>1. Holds(t) BY <1>1 DEF Holds
  <2>2. \A u \in Threads : ~Holds(u)' BY <1>1 DEF MutualExclusion
  <2> QED BY <2>1, <2>2, ViewFacts
<1>4. \A u \in Threads : u # t => (u \in Waiting' <=> u \in Waiting)
                                 /\ (u \in Notified' <=> u \in Notified)
  BY <1>1, <1>2, ViewFacts
<1>5. t \notin Waiting /\ t \notin Notified BY <1>1, ViewFacts
<1>6. CASE mode[t] = "lock"
  <2>1. t \notin Waiting' /\ t \notin Notified'
    BY <1>1, <1>6, QueuedFacts, RoleFacts, ViewFacts DEF NodeInv, PlaceInv
  <2>2. depth[t] = 0 BY <1>1, <1>6 DEF PhaseInv
  <2>3. Nested[t] = 1 /\ Nested' = [Nested EXCEPT ![t] = 0] BY <1>1, <1>2, <1>6, <2>2 DEF Nested
  <2>4. Waiting' = Waiting /\ Notified' = Notified BY <1>4, <1>5, <2>1, ViewFacts
  <2> QED BY <1>3, <2>3, <2>4 DEF Abs!Next, Abs!Release
<1>7. CASE mode[t] = "suspend"
  <2>1. t \in Waiting' /\ t \notin Notified' BY <1>1, <1>2, <1>7, ViewFacts DEF LocalInv
  <2>2. Nested' = Nested BY <1>1, <1>2, <1>7 DEF Nested
  <2>3. Waiting' = Waiting \cup {t} /\ Notified' = Notified BY <1>4, <1>5, <2>1, ViewFacts
  <2> QED BY <1>3, <2>2, <2>3 DEF Abs!Next, Abs!Wait
<1> QED BY <1>6, <1>7

(* wait() up to its unlock(), and the last store of finishLock(): nothing. *)
LEMMA WaitUnseen ==
  ASSUME IInv, NodeInv, MutualExclusion', NEW t \in Threads, Wait(t) \/ LeaveDeck(t)
  PROVE  UNCHANGED Abs!vars
<1> PhaseInv /\ MutualExclusion /\ PlaceInv /\ OnDeckIsStable BY DEF IInv, NodeInv
<1> USE NodeTypes DEF wordVars, localVars
<1>1. CASE Wait(t)
  <2>1. /\ pc[t] = "inside" /\ mode[t] = "lock" /\ UNCHANGED depth
        /\ pc' = [pc EXCEPT ![t] = "clear"] /\ mode' = [mode EXCEPT ![t] = "suspend"]
        /\ waiters' = <<SuspendSem(t)>> \o waiters
    BY <1>1 DEF Wait, Goto, PhaseInv, SuspendLabels
  <2>2. pc'[t] = "clear" /\ mode'[t] = "suspend"
        /\ \A u \in Threads : u # t => pc'[u] = pc[u] /\ mode'[u] = mode[u]
    BY <2>1
  <2>3. \A u \in Threads : Holds(u)' <=> Holds(u) BY <2>1, <2>2 DEF Holds, Inside
  <2>4. \A r : Within(r, waiters') <=> r = SuspendSem(t) \/ Within(r, waiters)
    BY <2>1, RoleFacts, PushFacts
  <2>5. t \notin Waiting /\ t \notin Waiting'
    BY <2>1, <2>2, QueuedFacts, RoleFacts, ViewFacts DEF PlaceInv
  <2>6. \A u \in Threads : u # t => (u \in Waiting' <=> u \in Waiting) BY <2>2, <2>4, RoleFacts, ViewFacts
  <2>7. \A u \in Threads : u \in Notified' <=> u \in Notified BY <2>1, <2>2, <2>5, <2>6, ViewFacts
  <2> QED BY <2>1, <2>2, <2>3, <2>5, <2>6, <2>7, Unseen
<1>2. CASE LeaveDeck(t)
  <2>1. /\ pc[t] = "offDeck" /\ UNCHANGED <<depth, waiters>>
        /\ pc' = [pc EXCEPT ![t] = "inside"] /\ mode' = [mode EXCEPT ![t] = "lock"]
    BY <1>2 DEF LeaveDeck, Goto
  <2>2. pc'[t] = "inside" /\ mode'[t] = "lock"
        /\ \A u \in Threads : u # t => pc'[u] = pc[u] /\ mode'[u] = mode[u]
    BY <2>1
  <2>3. \A u \in Threads : Holds(u)' <=> Holds(u) BY <2>1, <2>2 DEF Holds, Inside
  <2>4. \A u \in Threads : u \in Waiting' <=> u \in Waiting BY <2>1, <2>2, ViewFacts
  <2>5. \A u \in Threads : u \in Notified' <=> u \in Notified BY <2>1, <2>2, <2>4, ViewFacts
  <2> QED BY <2>1, <2>2, <2>3, <2>4, <2>5, Unseen
<1> QED BY <1>1, <1>2

(* notify() wakes one waiter. *)
LEMMA NotifySeen ==
  ASSUME IInv, NodeInv, MutualExclusion', NEW t \in Threads,
         Notify(t) \/ NotifyNext(t), MoveWaiter
  PROVE  Abs!Next
<1> PhaseInv /\ MutualExclusion /\ PlaceInv /\ LocalInv BY DEF IInv, NodeInv
<1> USE NodeTypes DEF wordVars, localVars
<1>1. /\ pc[t] \in {"inside", "notifyAll"} /\ UNCHANGED <<pc, mode, depth>>
      /\ waiters # <<>> /\ waiters' = Tail(waiters)
  BY DEF Notify, NotifyNext, MoveWaiter
<1>2. PICK w \in Threads : Head(waiters) = SuspendSem(w)
  <2>1. Head(waiters) \in Sems /\ Within(Head(waiters), waiters) BY <1>1, TailFacts, EndFacts DEF PlaceInv
  <2> QED BY <2>1, QueuedFacts DEF LocalInv
<1>3. /\ Within(SuspendSem(w), waiters)
      /\ \A r : Within(r, waiters') <=> Within(r, waiters) /\ r # SuspendSem(w)
  BY <1>1, <1>2, TailFacts, EndFacts DEF PlaceInv
<1>4. Holds(t) /\ Holds(t)' BY <1>1 DEF Holds
<1>5. Holder = t /\ Holder' = t BY <1>4, ViewFacts
<1>6. mode[w] = "suspend" BY <1>3, QueuedFacts, RoleFacts DEF PlaceInv
<1>7. pc[w] \notin {"clear", "offDeck"} BY <1>1, <1>4 DEF MutualExclusion, Holds
<1>8. w \in Waiting /\ w \notin Waiting' /\ w \in Notified' BY <1>1, <1>3, <1>6, <1>7, ViewFacts
<1>9. \A u \in Threads : u # w => (u \in Waiting' <=> u \in Waiting) BY <1>1, <1>3, RoleFacts, ViewFacts
<1>10. \A u \in Threads : u # w => (u \in Notified' <=> u \in Notified) BY <1>1, <1>9, ViewFacts
<1>11. Waiting' = Waiting \ {w} /\ Notified' = Notified \cup {w} BY <1>8, <1>9, <1>10, ViewFacts
<1>12. Nested' = Nested BY <1>1 DEF Nested
<1> QED BY <1>5, <1>8, <1>11, <1>12 DEF Abs!Next, Abs!Notify

----------------------------------------
(* The initial state is the abstract one. *)
LEMMA InitSeen == Init => Abs!Init
<1> SUFFICES ASSUME Init PROVE Abs!Init OBVIOUS
<1>1. /\ waiters = <<>>
      /\ \A t \in Threads : pc[t] = "idle" /\ mode[t] = "lock" /\ depth[t] = 0
  BY DEF Init
<1>2. Holder = None BY <1>1 DEF Holder, Holds, Inside
<1>3. Nested = [t \in Threads |-> 0] BY <1>1 DEF Nested
<1>4. Waiting = {} /\ Notified = {} BY <1>1 DEF Waiting, Notified
<1> QED BY <1>2, <1>3, <1>4 DEF Abs!Init

(* Every step of the monitor is a step of the abstract one or not seen. *)
LEMMA StepSeen ==
  ASSUME IInv, NodeInv, [Next]_vars
  PROVE  [Abs!Next]_(Abs!vars)
<1>0. MutualExclusion' BY ExclusionStep
<1>1. ASSUME NEW t \in Threads, Client(t) PROVE Abs!Next \/ UNCHANGED Abs!vars
  BY <1>0, <1>1, LockUnseen, UnlockUnseen, UnlockSeen, WaitUnseen, NotifySeen DEF Client, Notify
<1>2. ASSUME NEW t \in Threads, LockStep(t) \/ TimeOut(t)
      PROVE  Abs!Next \/ UNCHANGED Abs!vars
  BY <1>0, <1>2, LockUnseen, RelockSeen, CasSeen, WaitUnseen DEF LockStep
<1>3. ASSUME NEW t \in Threads, UnlockStep(t) \/ NotifyNext(t)
      PROVE  Abs!Next \/ UNCHANGED Abs!vars
  BY <1>0, <1>3, UnlockUnseen, ClearSeen, NotifySeen DEF UnlockStep, NotifyNext
<1>4. CASE UNCHANGED vars
  <2>1. UNCHANGED <<waiters, pc, mode, depth>> BY <1>4 DEF vars, localVars
  <2> QED BY <2>1 DEF Abs!vars, Holder, Nested, Notified, Waiting, Holds, Inside, SuspendSem
<1> QED BY <1>1, <1>2, <1>3, <1>4 DEF Next, Step

(* The monitor implements its specification: a lock with one holder at a
   time, nested when its holder asks again, and a wait() that returns only
   after a notify(), with the lock and the nesting it had. *)
THEOREM Implements == Spec => ImplementsMonitor
<1>1. Init => Abs!Init BY InitSeen
<1>2. IInv /\ NodeInv /\ [Next]_vars => [Abs!Next]_(Abs!vars) BY StepSeen
<1> QED BY <1>1, <1>2, NodeInvariance, PTL DEF Spec, ImplementsMonitor, Abs!Spec

----------------------------------------
(* No wakeup is lost.  NoLostWakeup speaks of a thread asleep on deck and a
   free lock; what makes it inductive is what holds of the same thread a few
   steps earlier, and of its semaphore whoever has the lock. *)
Blocked(t) == pc[t] \in {"awaitBlocked", "deckBlocked"}
Signalling(s) == \E u \in Threads : pc[u] = "signal" /\ target[u] = s

(* A thread that sleeps on s now would not sleep, or would be woken. *)
Wakeable(s) == value[s] > 0 \/ tokens[s] > 0 \/ Posting(s)

(* The counter of a sleeper's semaphore shows it until it is signalled. *)
SleepOf(t) ==
  Blocked(t) => value[Mine(t)] < 0 \/ tokens[Mine(t)] > 0 \/ Signalling(Mine(t))

(* The thread on deck is posted: when it is asleep, when it is about to be,
   and when the CAS it is about to try will fail. *)
DeckOf(t) ==
  /\ Blocked(t) /\ onDeck = Mine(t) => tokens[Mine(t)] > 0 \/ Posting(Mine(t))
  /\ pc[t] = "deckWait" => Wakeable(Mine(t))
  /\ pc[t] = "deckCas" /\ Top # head[t] => Wakeable(Mine(t))

Heirs == {"checkDeck", "checkList", "grab", "recheck"}

SleepInv == \A t \in Threads : SleepOf(t)
DeckInv  == ~locked => \A t \in Threads : DeckOf(t)
HeirInv  == ~locked /\ contenders # <<>> /\ onDeck = None => \E u \in Threads : pc[u] \in Heirs
WakeInv  == SleepInv /\ DeckInv /\ HeirInv

(* The semaphores that two threads sleep on are different. *)
LEMMA MineFacts ==
  IInv => \A t \in Threads : /\ Mine(t) \in Sems /\ Mine(t) \in Semaphores
                             /\ \A u \in Threads : Mine(t) = Mine(u) => t = u
BY RoleFacts, SemaphoresAssumption DEF IInv, TypeOK, Mine, LockSem, SuspendSem

(* Initially nobody sleeps, and nobody contends. *)
LEMMA InitWake == Init => WakeInv
BY DEF Init, WakeInv, SleepInv, DeckInv, HeirInv, SleepOf, DeckOf, Blocked

(* What a step of thread t that is not a post leaves to the others. *)
LEMMA SleepKept ==
  ASSUME SleepInv, NEW t \in Threads, pc[t] # "signal",
         \A u \in Threads : u # t =>
            /\ pc'[u] = pc[u] /\ target'[u] = target[u] /\ mode'[u] = mode[u]
            /\ value'[Mine(u)] = value[Mine(u)] /\ tokens'[Mine(u)] = tokens[Mine(u)],
         SleepOf(t)'
  PROVE  SleepInv'
<1> SUFFICES ASSUME NEW v \in Threads, v # t PROVE SleepOf(v)' BY DEF SleepInv
<1>1. SleepOf(v) BY DEF SleepInv
<1>2. Mine(v)' = Mine(v) /\ pc'[v] = pc[v]
      /\ value'[Mine(v)] = value[Mine(v)] /\ tokens'[Mine(v)] = tokens[Mine(v)]
  BY DEF Mine, LockSem, SuspendSem
<1>3. Signalling(Mine(v)) => Signalling(Mine(v))'
  <2> SUFFICES ASSUME NEW u \in Threads, pc[u] = "signal", target[u] = Mine(v)
               PROVE  Signalling(Mine(v))'
    BY DEF Signalling
  <2>1. pc'[u] = "signal" /\ target'[u] = Mine(v)' BY <1>2
  <2> QED BY <2>1 DEF Signalling
<1> QED BY <1>1, <1>2, <1>3 DEF SleepOf, Blocked

(* A step of a thread that is not in finishUnlock() disturbs nobody's wakeup
   but its own, if the lock is held after it or the deck is as before. *)
LEMMA Bystander ==
  ASSUME WakeInv, NEW t \in Threads,
         pc[t] \notin Heirs \cup {"install", "post", "signal"},
         \A u \in Threads : u # t =>
            /\ pc'[u] = pc[u] /\ target'[u] = target[u] /\ mode'[u] = mode[u]
            /\ head'[u] = head[u]
            /\ value'[Mine(u)] = value[Mine(u)] /\ tokens'[Mine(u)] = tokens[Mine(u)],
         locked' \/ UNCHANGED <<locked, contenders, onDeck>>,
         SleepOf(t)', ~locked' => DeckOf(t)'
  PROVE  WakeInv'
<1>1. SleepInv' BY SleepKept DEF WakeInv
<1>2. ASSUME NEW v \in Threads, Mine(v)' = Mine(v)
      PROVE  Posting(Mine(v)) => Posting(Mine(v))'
  <2> SUFFICES ASSUME NEW u \in Threads,
                      \/ pc[u] = "checkDeck"
                      \/ pc[u] \in {"install", "post", "signal"} /\ target[u] = Mine(v)
               PROVE  Posting(Mine(v))'
    BY DEF Posting
  <2>1. u # t BY DEF Heirs
  <2> QED BY <1>2, <2>1 DEF Posting
<1>3. ASSUME ~locked' PROVE DeckInv' /\ HeirInv'
  <2>1. UNCHANGED <<locked, contenders, onDeck>> /\ Top' = Top BY <1>3 DEF Top
  <2>2. ASSUME NEW v \in Threads, v # t PROVE DeckOf(v)'
    <3>1. DeckOf(v) BY <1>3, <2>1 DEF WakeInv, DeckInv
    <3>2. Mine(v)' = Mine(v) /\ pc'[v] = pc[v] /\ head'[v] = head[v]
          /\ value'[Mine(v)] = value[Mine(v)] /\ tokens'[Mine(v)] = tokens[Mine(v)]
      BY <2>2 DEF Mine, LockSem, SuspendSem
    <3>3. Posting(Mine(v)) => Posting(Mine(v))' BY <1>2, <3>2
    <3> QED BY <2>1, <3>1, <3>2, <3>3 DEF DeckOf, Blocked, Wakeable
  <2>3. DeckInv' BY <1>3, <2>2 DEF DeckInv
  <2>4. HeirInv'
    <3> SUFFICES ASSUME contenders # <<>>, onDeck = None
                 PROVE  \E u \in Threads : pc'[u] \in Heirs
      BY <2>1 DEF HeirInv
    <3>1. PICK u \in Threads : pc[u] \in Heirs BY <1>3, <2>1 DEF WakeInv, HeirInv
    <3> QED BY <3>1
  <2> QED BY <2>3, <2>4
<1> QED BY <1>1, <1>3 DEF WakeInv, DeckInv, HeirInv

(* The calls, and the steps of lock(), keep everybody's wakeup; the thread
   on deck goes to sleep only if it has seen the lock held, or its post. *)
LEMMA LockWake ==
  ASSUME SpuriousCAS = FALSE, IInv, WakeInv, NEW t \in Threads,
         Client(t) \/ LockStep(t) \/ NotifyNext(t) \/ TimeOut(t)
  PROVE  WakeInv'
<1> USE MineFacts, NodeTypes DEF wordVars, localVars, semVars, Heirs
<1>0. /\ value \in [Sems -> Int] /\ tokens \in [Sems -> Nat]
      /\ locked \in BOOLEAN /\ Semaphores = Sems
  BY SemaphoresAssumption DEF IInv, TypeOK, SemTypeOK
<1>1. ASSUME Client(t) \/ NotifyNext(t) PROVE WakeInv'
  <2>1. CASE TryLock(t) \/ Lock(t)
    <3>1. PICK label \in {"try", "lock"} : Call(t, label) BY <2>1 DEF TryLock, Lock
    <3>2. /\ pc[t] \in {"idle", "inside"} /\ pc'[t] \in {"try", "lock"}
          /\ \A u \in Threads : u # t => pc'[u] = pc[u]
          /\ UNCHANGED <<locked, contenders, onDeck, mode, head, target, value, tokens>>
      BY <3>1 DEF Call, Goto
    <3>3. SleepOf(t)' /\ DeckOf(t)' BY <3>2 DEF SleepOf, DeckOf, Blocked
    <3> QED BY <3>2, <3>3, Bystander
  <2>2. CASE Unlock(t)
    <3>1. /\ pc[t] = "inside" /\ pc'[t] \in {"inside", "clear"}
          /\ \A u \in Threads : u # t => pc'[u] = pc[u]
          /\ UNCHANGED <<locked, contenders, onDeck, mode, head, target, value, tokens>>
      BY <2>2 DEF Unlock, Goto
    <3>2. SleepOf(t)' /\ DeckOf(t)' BY <3>1 DEF SleepOf, DeckOf, Blocked
    <3> QED BY <3>1, <3>2, Bystander
  <2>3. CASE Wait(t)
    <3>1. /\ pc[t] = "inside" /\ pc'[t] = "clear"
          /\ \A u \in Threads : u # t => pc'[u] = pc[u] /\ mode'[u] = mode[u]
          /\ UNCHANGED <<locked, contenders, onDeck, head, target, tokens>>
          /\ value' = [value EXCEPT ![SuspendSem(t)] = 0]
      BY <2>3 DEF Wait, Goto, Reset
    <3>2. \A u \in Threads : u # t => value'[Mine(u)] = value[Mine(u)] BY <1>0, <3>1, RoleFacts DEF Mine
    <3>3. SleepOf(t)' /\ DeckOf(t)' BY <3>1 DEF SleepOf, DeckOf, Blocked
    <3> QED BY <3>1, <3>2, <3>3, Bystander
  <2>4. CASE Notify(t) \/ NotifyAll(t) \/ NotifyNext(t)
    <3>1. /\ pc[t] \in {"inside", "notifyAll"} /\ pc'[t] \in {"inside", "notifyAll"}
          /\ \A u \in Threads : u # t => pc'[u] = pc[u]
          /\ UNCHANGED <<onDeck, mode, head, target, value, tokens>>
          /\ locked' \/ UNCHANGED <<locked, contenders, onDeck>>
      BY <2>4 DEF Notify, NotifyAll, NotifyNext, MoveWaiter, Goto
    <3>2. SleepOf(t)' /\ DeckOf(t)' BY <3>1 DEF SleepOf, DeckOf, Blocked
    <3> QED BY <3>1, <3>2, Bystander
  <2> QED BY <1>1, <2>1, <2>2, <2>3, <2>4 DEF Client
<1>2. ASSUME Relock(t) \/ LeaveDeck(t) PROVE WakeInv'
  <2>1. /\ pc[t] \in Trying \cup {"offDeck"} /\ pc'[t] \in {"inside", "offDeck"}
        /\ locked' = locked
        /\ \A u \in Threads : u # t => pc'[u] = pc[u] /\ mode'[u] = mode[u]
        /\ UNCHANGED <<head, target, value, tokens>>
    BY <1>2 DEF Relock, LeaveDeck, Goto, AfterSuccess, Trying
  <2>2. locked BY <1>2 DEF Relock, LeaveDeck, IInv, MutualExclusion, Holds
  <2>3. SleepOf(t)' BY <2>1 DEF SleepOf, Blocked
  <2> QED BY <2>1, <2>2, <2>3, Bystander DEF Trying
<1>3. ASSUME FindLocked(t) PROVE WakeInv'
  <2>1. PICK label \in AfterFailure(pc[t]) : pc' = [pc EXCEPT ![t] = label] BY <1>3 DEF FindLocked, Goto
  <2>2. /\ pc[t] \in Trying /\ pc'[t] \in {"idle", "lock", "reset", "barge", "deck", "deckWait"}
        /\ locked /\ \A u \in Threads : u # t => pc'[u] = pc[u]
        /\ UNCHANGED <<locked, contenders, onDeck, mode, head, target, value, tokens>>
    BY <1>3, <2>1 DEF FindLocked, AfterFailure
  <2>3. SleepOf(t)' BY <2>2 DEF SleepOf, Blocked
  <2> QED BY <2>2, <2>3, Bystander DEF Trying
<1>4. ASSUME FindFree(t) PROVE WakeInv'
  <2>1. /\ pc[t] \in Trying /\ pc'[t] \in {"tryCas", "lockCas", "bargeCas", "deckCas"}
        /\ \A u \in Threads : u # t => pc'[u] = pc[u] /\ head'[u] = head[u]
        /\ UNCHANGED <<locked, contenders, onDeck, mode, target, value, tokens>>
        /\ head'[t] = Top' /\ Top' = Top
    BY <1>4 DEF FindFree, CasOf, Goto, Top
  <2>2. SleepOf(t)' /\ DeckOf(t)' BY <2>1 DEF SleepOf, DeckOf, Blocked
  <2> QED BY <2>1, <2>2, Bystander DEF Trying
<1>5. ASSUME AttemptCas(t) PROVE WakeInv'
  <2>1. PICK from \in Trying : Cas(t, from) BY <1>5 DEF AttemptCas
  <2>2. /\ pc[t] \in {"tryCas", "lockCas", "bargeCas", "deckCas"}
        /\ \A u \in Threads : u # t => pc'[u] = pc[u] /\ head'[u] = head[u]
        /\ UNCHANGED <<contenders, onDeck, mode, target, value, tokens>>
        /\ pc[t] = "deckCas" <=> from = "deck"
    BY <2>1 DEF Cas, Goto, CasOf, Trying
  <2>3. CASE locked'
    <3>1. pc'[t] \notin {"awaitBlocked", "deckBlocked"}
      <4>1. CASE Goto(t, AfterSuccess(from)) BY <4>1 DEF Goto, AfterSuccess
      <4>2. CASE \E label \in AfterFailure(from) : Goto(t, label) BY <4>2 DEF Goto, AfterFailure
      <4> QED BY <2>1, <4>1, <4>2 DEF Cas
    <3>2. SleepOf(t)' BY <3>1 DEF SleepOf, Blocked
    <3> QED BY <2>2, <2>3, <3>2, Bystander
  <2>4. CASE ~locked'
    <3>1. /\ Top # head[t] /\ locked' = locked
          /\ \E label \in AfterFailure(from) : Goto(t, label)
      BY <2>1, <2>4 DEF Cas
    <3>2. PICK label \in AfterFailure(from) : Goto(t, label) BY <3>1
    <3>3. /\ pc'[t] \in {"idle", "lock", "reset", "barge", "deck", "deckWait"}
          /\ pc'[t] = "deckWait" => pc[t] = "deckCas"
      BY <2>2, <3>2 DEF Goto, AfterFailure, Trying
    <3>4. pc[t] = "deckCas" => Wakeable(Mine(t)) BY <2>4, <3>1 DEF WakeInv, DeckInv, DeckOf
    <3>5. Mine(t)' = Mine(t) BY <2>2 DEF Mine, LockSem, SuspendSem
    <3>6. pc[t] = "deckCas" /\ Posting(Mine(t)) => Posting(Mine(t))' BY <2>2, <3>5 DEF Posting
    <3>7. SleepOf(t)' /\ DeckOf(t)' BY <2>2, <3>3, <3>4, <3>5, <3>6 DEF SleepOf, DeckOf, Blocked, Wakeable
    <3> QED BY <2>2, <3>1, <3>7, Bystander
  <2> QED BY <2>3, <2>4
<1>6. ASSUME ResetSemaphore(t) PROVE WakeInv'
  <2>1. /\ pc[t] = "reset" /\ pc'[t] = "load"
        /\ \A u \in Threads : u # t => pc'[u] = pc[u]
        /\ UNCHANGED <<locked, contenders, onDeck, mode, head, target, tokens>>
        /\ value' = [value EXCEPT ![LockSem(t)] = 0]
    BY <1>6 DEF ResetSemaphore, Goto, Reset
  <2>2. \A u \in Threads : u # t => value'[Mine(u)] = value[Mine(u)] BY <1>0, <2>1, RoleFacts DEF Mine
  <2>3. SleepOf(t)' /\ DeckOf(t)' BY <2>1 DEF SleepOf, DeckOf, Blocked
  <2> QED BY <2>1, <2>2, <2>3, Bystander
<1>7. ASSUME LoadWord(t) \/ Push(t) PROVE WakeInv'
  <2>1. /\ pc[t] \in {"load", "push"} /\ pc'[t] \in {"push", "barge", "await"}
        /\ \A u \in Threads : u # t => pc'[u] = pc[u] /\ head'[u] = head[u]
        /\ UNCHANGED <<locked, onDeck, mode, target, value, tokens>>
        /\ locked \/ contenders' = contenders
    BY <1>7 DEF LoadWord, Push, Goto
  <2>2. SleepOf(t)' /\ DeckOf(t)' BY <2>1 DEF SleepOf, DeckOf, Blocked
  <2> QED BY <2>1, <2>2, Bystander
<1>8. ASSUME GetOnDeck(t) \/ TimeOut(t) PROVE WakeInv'
  <2>1. /\ pc[t] \in {"await", "awaitBlocked"} /\ pc'[t] \in {"await", "deck"}
        /\ \A u \in Threads : u # t => pc'[u] = pc[u]
        /\ UNCHANGED <<locked, contenders, onDeck, mode, head, target, value, tokens>>
    BY <1>8 DEF GetOnDeck, TimeOut, Goto
  <2>2. SleepOf(t)' /\ DeckOf(t)' BY <2>1 DEF SleepOf, DeckOf, Blocked
  <2> QED BY <2>1, <2>2, Bystander
<1>9. ASSUME AwaitSleep(t) \/ DeckSleep(t) PROVE WakeInv'
  <2>1. /\ \/ pc[t] = "await" /\ onDeck # Mine(t) /\ pc'[t] \in {"await", "awaitBlocked"}
           \/ pc[t] = "deckWait" /\ pc'[t] \in {"deck", "deckBlocked"}
        /\ \A u \in Threads : u # t => pc'[u] = pc[u]
        /\ UNCHANGED <<locked, contenders, onDeck, mode, head, target, tokens>>
        /\ value' = [value EXCEPT ![Mine(t)] = @ - 1]
        /\ pc'[t] \in {"awaitBlocked", "deckBlocked"} => value[Mine(t)] <= 0
    BY <1>9 DEF AwaitSleep, DeckSleep, Sleep, Goto, Decrement, MustSleep
  <2>2. /\ \A u \in Threads : u # t => value'[Mine(u)] = value[Mine(u)]
        /\ value'[Mine(t)] = value[Mine(t)] - 1 /\ value[Mine(t)] \in Int
    BY <1>0, <2>1
  <2>3. Mine(t)' = Mine(t) BY <2>1 DEF Mine, LockSem, SuspendSem
  <2>4. SleepOf(t)' BY <2>1, <2>2, <2>3 DEF SleepOf, Blocked
  <2>5. ASSUME ~locked' PROVE DeckOf(t)'
    <3>1. Posting(Mine(t)) => Posting(Mine(t))' BY <2>1, <2>3 DEF Posting
    <3>2. pc[t] = "deckWait" => Wakeable(Mine(t)) BY <2>1, <2>5 DEF WakeInv, DeckInv, DeckOf
    <3> QED BY <2>1, <2>2, <2>3, <3>1, <3>2 DEF DeckOf, Blocked, Wakeable
  <2> QED BY <2>1, <2>2, <2>4, <2>5, Bystander
<1>10. ASSUME Wake(t) PROVE WakeInv'
  <2>1. /\ pc[t] \in {"awaitBlocked", "deckBlocked"} /\ pc'[t] \in {"await", "deck"}
        /\ \A u \in Threads : u # t => pc'[u] = pc[u]
        /\ UNCHANGED <<locked, contenders, onDeck, mode, head, target, value>>
        /\ tokens' = [tokens EXCEPT ![Mine(t)] = @ - 1]
    BY <1>10 DEF Wake, Goto, Take
  <2>2. \A u \in Threads : u # t => tokens'[Mine(u)] = tokens[Mine(u)] BY <1>0, <2>1
  <2>3. SleepOf(t)' /\ DeckOf(t)' BY <2>1 DEF SleepOf, DeckOf, Blocked
  <2> QED BY <2>1, <2>2, <2>3, Bystander
<1> QED BY <1>1, <1>2, <1>3, <1>4, <1>5, <1>6, <1>7, <1>8, <1>9, <1>10 DEF LockStep

(* The steps of unlock() hand the duty to wake on: from the cleared bit to
   the thread on deck, or to the choice of the next one, to its post. *)
LEMMA UnlockWake ==
  ASSUME IInv, IInv', WakeInv, NEW t \in Threads, UnlockStep(t)
  PROVE  WakeInv'
<1> USE MineFacts, NodeTypes DEF wordVars, localVars, semVars, Heirs
<1>0. /\ value \in [Sems -> Int] /\ tokens \in [Sems -> Nat]
      /\ None \notin Sems /\ Mark \notin Sems /\ None # Mark /\ Semaphores = Sems
  BY SemaphoresAssumption, SentinelAssumption DEF IInv, TypeOK, SemTypeOK
(* With nobody on deck no thread is owed a post. *)
<1>1. ASSUME onDeck' \notin Sems, \A v \in Threads : Mine(v)' = Mine(v) PROVE DeckInv'
  <2> SUFFICES ASSUME NEW v \in Threads PROVE DeckOf(v)' BY DEF DeckInv
  <2>1. onDeck' # Mine(v)' BY <1>1
  <2>2. pc'[v] \notin {"deckWait", "deckCas"} BY <2>1 DEF IInv, OnDeckIsStable
  <2> QED BY <2>1, <2>2 DEF DeckOf
(* A post that comes to the thread on deck is all that anybody is owed. *)
<1>2. ASSUME onDeck' \in Sems, Posting(onDeck)', \A v \in Threads : Mine(v)' = Mine(v)
      PROVE  DeckInv'
  <2> SUFFICES ASSUME NEW v \in Threads PROVE DeckOf(v)' BY DEF DeckInv
  <2>1. pc'[v] \in {"deckWait", "deckCas"} => onDeck' = Mine(v)' BY DEF IInv, OnDeckIsStable
  <2>2. onDeck' = Mine(v)' => Posting(Mine(v))' BY <1>2 DEF Posting
  <2> QED BY <2>1, <2>2 DEF DeckOf, Wakeable
<1>3. ASSUME ClearBit(t) PROVE WakeInv'
  <2>1. /\ pc[t] = "clear" /\ pc'[t] = "checkDeck"
        /\ \A u \in Threads : u # t => pc'[u] = pc[u]
        /\ UNCHANGED <<mode, head, target, value, tokens>>
    BY <1>3 DEF ClearBit, Goto
  <2>2. SleepOf(t)' BY <2>1 DEF SleepOf, Blocked
  <2>3. SleepInv' BY <2>1, <2>2, SleepKept DEF WakeInv
  <2>4. ASSUME NEW v \in Threads PROVE DeckOf(v)'
    <3>1. Posting(Mine(v))' BY <2>1 DEF Posting
    <3> QED BY <3>1 DEF DeckOf, Wakeable
  <2> QED BY <2>1, <2>3, <2>4 DEF WakeInv, DeckInv, HeirInv
<1>4. ASSUME CheckDeck(t) PROVE WakeInv'
  <2>1. /\ pc[t] = "checkDeck"
        /\ \A u \in Threads : u # t => pc'[u] = pc[u] /\ target'[u] = target[u]
        /\ UNCHANGED <<locked, contenders, onDeck, mode, head, value, tokens>>
        /\ \/ onDeck = None /\ pc'[t] = "checkList"
           \/ onDeck = Mark /\ pc'[t] \in {"await", "idle"}
           \/ onDeck \in Sems /\ pc'[t] = "post" /\ target'[t] = onDeck
    BY <1>4 DEF CheckDeck, Goto, Return
  <2>2. SleepOf(t)' /\ \A v \in Threads : Mine(v)' = Mine(v)
    BY <2>1 DEF SleepOf, Blocked, Mine, LockSem, SuspendSem
  <2>3. SleepInv' BY <2>1, <2>2, SleepKept DEF WakeInv
  <2>4. DeckInv'
    <3>1. CASE onDeck \in Sems
      <4>1. Posting(onDeck)' BY <1>0, <2>1, <3>1 DEF Posting
      <4> QED BY <1>2, <2>1, <2>2, <3>1, <4>1
    <3>2. CASE onDeck \notin Sems BY <1>1, <2>1, <2>2, <3>2
    <3> QED BY <3>1, <3>2
  <2>5. HeirInv' BY <1>0, <2>1 DEF HeirInv
  <2> QED BY <2>3, <2>4, <2>5 DEF WakeInv
<1>5. ASSUME CheckList(t) \/ Grab(t) PROVE WakeInv'
  <2>1. /\ pc[t] \in {"checkList", "recheck", "grab"} /\ pc'[t] \in {"await", "idle", "grab", "select"}
        /\ \A u \in Threads : u # t => pc'[u] = pc[u]
        /\ UNCHANGED <<locked, contenders, mode, head, target, value, tokens>>
        /\ \/ onDeck' = onDeck /\ (pc'[t] = "grab" \/ locked \/ contenders = <<>> \/ onDeck # None)
           \/ onDeck = None /\ onDeck' = Mark
    BY <1>5 DEF CheckList, Grab, Goto, Return
  <2>2. SleepOf(t)' /\ \A v \in Threads : Mine(v)' = Mine(v)
    BY <2>1 DEF SleepOf, Blocked, Mine, LockSem, SuspendSem
  <2>3. SleepInv' BY <2>1, <2>2, SleepKept DEF WakeInv
  <2>4. DeckInv'
    <3>1. CASE onDeck' \notin Sems BY <1>1, <2>2, <3>1
    <3>2. CASE onDeck' \in Sems
      <4> SUFFICES ASSUME ~locked', NEW v \in Threads PROVE DeckOf(v)' BY DEF DeckInv
      <4>1. onDeck' = onDeck /\ Top' = Top /\ DeckOf(v) BY <1>0, <2>1, <3>2 DEF WakeInv, DeckInv, Top
      <4>2. Posting(Mine(v)) => Posting(Mine(v))' BY <2>1, <2>2 DEF Posting
      <4>3. v # t => pc'[v] = pc[v] BY <2>1
      <4> QED BY <2>1, <2>2, <4>1, <4>2, <4>3 DEF DeckOf, Blocked, Wakeable
    <3> QED BY <3>1, <3>2
  <2>5. HeirInv' BY <1>0, <2>1 DEF HeirInv
  <2> QED BY <2>3, <2>4, <2>5 DEF WakeInv
<1>6. ASSUME Select(t) \/ Pop(t) PROVE WakeInv'
  <2>1. /\ pc[t] \in {"select", "pop"} /\ pc'[t] \in {"select", "pop", "install"}
        /\ \A u \in Threads : u # t => pc'[u] = pc[u] /\ target'[u] = target[u]
        /\ UNCHANGED <<onDeck, mode, value, tokens>>
    BY <1>6 DEF Select, Pop, Goto
  <2>2. onDeck' = Mark BY <2>1 DEF IInv, MicrolockInv
  <2>3. SleepOf(t)' /\ \A v \in Threads : Mine(v)' = Mine(v)
    BY <2>1 DEF SleepOf, Blocked, Mine, LockSem, SuspendSem
  <2>4. SleepInv' BY <2>1, <2>3, SleepKept DEF WakeInv
  <2> QED BY <1>0, <1>1, <2>2, <2>3, <2>4 DEF WakeInv, HeirInv
<1>7. ASSUME Install(t) PROVE WakeInv'
  <2>1. /\ pc[t] = "install" /\ onDeck' = target[t]
        /\ pc'[t] = IF target[t] = None THEN "recheck" ELSE "post"
        /\ \A u \in Threads : u # t => pc'[u] = pc[u]
        /\ UNCHANGED <<mode, head, target, value, tokens>>
    BY <1>7 DEF Install, Goto
  <2>2. SleepOf(t)' /\ \A v \in Threads : Mine(v)' = Mine(v)
    BY <2>1 DEF SleepOf, Blocked, Mine, LockSem, SuspendSem
  <2>3. SleepInv' BY <2>1, <2>2, SleepKept DEF WakeInv
  <2>4. CASE target[t] = None BY <1>0, <1>1, <2>1, <2>2, <2>3, <2>4 DEF WakeInv, HeirInv
  <2>5. CASE target[t] # None
    <3>1. onDeck' \in Sems /\ onDeck' # None BY <1>0, <2>1, <2>5
    <3>2. Posting(onDeck)' BY <2>1, <2>5 DEF Posting
    <3> QED BY <1>2, <2>2, <2>3, <3>1, <3>2 DEF WakeInv, HeirInv
  <2> QED BY <2>4, <2>5
<1>8. ASSUME Post(t) \/ PostSignal(t) PROVE WakeInv'
  <2>1. PICK s : s = target[t] OBVIOUS
  <2>2. /\ pc[t] \in {"post", "signal"} /\ s \in Sems
        /\ \A u \in Threads : u # t => pc'[u] = pc[u] /\ target'[u] = target[u]
        /\ UNCHANGED <<locked, contenders, onDeck, mode, head>>
        /\ pc'[t] \in {"signal", "await", "idle"}
    BY <1>8, <2>1 DEF Post, PostSignal, Goto, Return, IInv, PhaseInv
  <2>3. \A v \in Threads : Mine(v)' = Mine(v)
    BY <2>2 DEF Mine, LockSem, SuspendSem
  (* Other semaphores are as they were, and so are their posts. *)
  <2>4. ASSUME NEW v \in Threads, Mine(v) # s
        PROVE  /\ value'[Mine(v)] = value[Mine(v)] /\ tokens'[Mine(v)] = tokens[Mine(v)]
               /\ Signalling(Mine(v)) => Signalling(Mine(v))'
               /\ Posting(Mine(v)) => Posting(Mine(v))'
    <3>1. value'[Mine(v)] = value[Mine(v)] /\ tokens'[Mine(v)] = tokens[Mine(v)]
      BY <1>0, <1>8, <2>1, <2>4 DEF Post, PostSignal, Increment, Signal
    <3>2. Signalling(Mine(v)) => Signalling(Mine(v))' BY <2>1, <2>2, <2>3, <2>4 DEF Signalling
    <3>3. Posting(Mine(v)) => Posting(Mine(v))' BY <2>1, <2>2, <2>3, <2>4 DEF Posting
    <3> QED
      BY <3>1, <3>2, <3>3
  (* The semaphore posted has a token, or a post(), or its count is positive
     and shows that nobody slept on it. *)
  <2>5. \/ tokens'[s] > 0
        \/ pc'[t] = "signal" /\ target'[t] = s /\ tokens'[s] = tokens[s]
        \/ /\ pc[t] = "post" /\ value[s] >= 0 /\ value'[s] > 0 /\ tokens'[s] = tokens[s]
    <3>1. value[s] \in Int /\ tokens[s] \in Nat BY <1>0, <2>2
    <3>2. CASE Post(t) /\ value[s] < 0 BY <2>1, <3>2 DEF Post, HasSleeper, Increment, Goto
    <3>3. CASE Post(t) /\ ~(value[s] < 0) BY <1>0, <2>1, <2>2, <3>1, <3>3 DEF Post, Increment
    <3>4. CASE PostSignal(t) BY <1>0, <2>1, <2>2, <3>1, <3>4 DEF PostSignal, Signal
    <3> QED BY <1>8, <3>2, <3>3, <3>4
  <2>6. ASSUME NEW v \in Threads PROVE SleepOf(v)' /\ (~locked' => DeckOf(v)')
    <3>1. SleepOf(v) /\ (~locked' => DeckOf(v)) /\ Top' = Top BY <2>2 DEF WakeInv, SleepInv, DeckInv, Top
    <3>2. \/ v # t /\ pc'[v] = pc[v]
          \/ pc'[v] \in {"signal", "await", "idle"}
      BY <2>2
    <3>3. CASE Mine(v) # s
      <4>1. Mine(v) \in Sems /\ Mine(v)' = Mine(v) BY <2>3
      <4>2. /\ value'[Mine(v)] = value[Mine(v)] /\ tokens'[Mine(v)] = tokens[Mine(v)]
            /\ Signalling(Mine(v)) => Signalling(Mine(v))'
            /\ Posting(Mine(v)) => Posting(Mine(v))'
        BY <2>4, <3>3
      <4>3. onDeck' = onDeck /\ head'[v] = head[v] BY <2>2
      <4>4. SleepOf(v)' BY <3>1, <3>2, <4>1, <4>2 DEF SleepOf, Blocked
      <4>5. ~locked' => DeckOf(v)' BY <3>1, <3>2, <4>1, <4>2, <4>3 DEF DeckOf, Blocked, Wakeable
      <4> QED BY <4>4, <4>5
    <3>4. CASE Mine(v) = s
      <4>1. CASE tokens'[s] > 0 BY <2>3, <3>4, <4>1 DEF SleepOf, DeckOf, Wakeable
      <4>2. CASE pc'[t] = "signal" /\ target'[t] = s
        <5>1. Signalling(Mine(v))' /\ Posting(Mine(v))' BY <2>3, <3>4, <4>2 DEF Signalling, Posting
        <5> QED BY <5>1 DEF SleepOf, DeckOf, Wakeable
      <4>3. CASE pc[t] = "post" /\ value[s] >= 0 /\ value'[s] > 0 /\ tokens'[s] = tokens[s]
        <5>1. Wakeable(Mine(v))' BY <2>3, <3>4, <4>3 DEF Wakeable
        <5>2. value[s] \in Int /\ tokens[s] \in Nat BY <1>0, <2>2
        <5>3. Signalling(s) => Signalling(Mine(v))' /\ Posting(Mine(v))'
          BY <2>2, <2>3, <3>4, <4>3 DEF Signalling, Posting
        <5>4. Blocked(v) => tokens[s] > 0 \/ Signalling(s) BY <3>1, <3>4, <4>3, <5>2 DEF SleepOf
        <5>5. Blocked(v)' => Blocked(v) BY <3>2 DEF Blocked
        <5> QED BY <2>3, <3>4, <4>3, <5>1, <5>3, <5>4, <5>5 DEF SleepOf, DeckOf
      <4> QED BY <2>5, <4>1, <4>2, <4>3
    <3> QED BY <3>3, <3>4
  <2>7. HeirInv'
    <3> SUFFICES ASSUME ~locked', contenders' # <<>>, onDeck' = None
                 PROVE  \E u \in Threads : pc'[u] \in {"checkDeck", "checkList", "grab", "recheck"}
      BY DEF HeirInv
    <3>1. PICK u \in Threads : pc[u] \in {"checkDeck", "checkList", "grab", "recheck"}
      BY <2>2 DEF WakeInv, HeirInv
    <3> QED BY <2>2, <3>1
  <2> QED BY <2>6, <2>7 DEF WakeInv, SleepInv, DeckInv
<1> QED BY <1>3, <1>4, <1>5, <1>6, <1>7, <1>8 DEF UnlockStep

(* unlock() "Release the lock and wake a single waiting thread if any": a
   free lock with contenders always has an unlocker at work on it, and the
   thread asleep on deck a post on its way. *)
THEOREM WakeupsArrive ==
  ASSUME SpuriousCAS = FALSE
  PROVE  Spec => []NoLostWakeup
<1>1. IInv /\ IInv' /\ WakeInv /\ [Next]_vars => WakeInv'
  <2> SUFFICES ASSUME IInv, IInv', WakeInv, [Next]_vars PROVE WakeInv' OBVIOUS
  <2>1. CASE Next BY <2>1, LockWake, UnlockWake DEF Next, Step
  <2>2. CASE UNCHANGED vars
    BY <2>2 DEF vars, wordVars, localVars, semVars, WakeInv, SleepInv, DeckInv, HeirInv,
                SleepOf, DeckOf, Blocked, Signalling, Wakeable, Posting, Mine, LockSem,
                SuspendSem, Top
  <2> QED BY <2>1, <2>2
<1>2. WakeInv => NoLostWakeup BY DEF WakeInv, DeckInv, HeirInv, DeckOf, Blocked, Heirs, NoLostWakeup
<1> QED BY InitWake, Invariance, <1>1, <1>2, PTL DEF Spec
=============================================================================
