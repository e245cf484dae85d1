------------------------------- MODULE Monitor -------------------------------
(***************************************************************************)
(* amd::legacy_monitor::Monitor (rocclr/thread/monitor.{hpp,cpp}), the      *)
(* lock and condition variable that every component of the runtime uses:    *)
(* one action per atomic access of the lock word and of the on-deck word.   *)
(*                                                                         *)
(* contendersList_ packs a lock bit and the head of a LIFO of contenders in *)
(* one word; here they are locked and contenders.  A linked node lives on   *)
(* the stack of the call that pushed it and carries one semaphore of the    *)
(* calling thread, so a node is named by its semaphore.                     *)
(***************************************************************************)
EXTENDS Semaphore, Sequences, FiniteSets

CONSTANTS Threads,      \* the threads that share the monitor
          Recursive,    \* recursive_, fixed at construction
          SpuriousCAS,  \* may compare_exchange_weak fail on an equal word (not on x86)?
          Operations,   \* the operations each client calls: a subset of Calls
          MaxDepth,     \* bound: nesting of lock() by one client
          MaxDrift,     \* bound: how far below zero a wait that timed out leaves a counter
          None, Mark    \* the null pointer, and a bare kLockBit in onDeck_

LockSem(t)    == <<t, "lock">>      \* Thread::lockSemaphore()
SuspendSem(t) == <<t, "suspend">>   \* Thread::suspendSemaphore()
Sems          == Threads \X {"lock", "suspend"}

(* The public operations of the class; unlock() is always called in the end. *)
Calls == {"tryLock", "lock", "wait", "notify", "notifyAll"}

ASSUME OperationsAssumption == Operations \in [Threads -> SUBSET Calls]
ASSUME SemaphoresAssumption == Semaphores = Sems
ASSUME BoundsAssumption     == MaxDepth \in Nat \ {0} /\ MaxDrift \in Nat
ASSUME FlagsAssumption      == Recursive \in BOOLEAN /\ SpuriousCAS \in BOOLEAN
ASSUME SentinelAssumption   == /\ None \notin Sems \cup Threads
                               /\ Mark \notin Sems \cup {None}

VARIABLES
  locked,      \* kLockBit of contendersList_
  contenders,  \* the list behind contendersList_, head first
  onDeck,      \* onDeck_: None, Mark (microlock taken) or a semaphore
  waiters,     \* waitersList_, head first
  owner,       \* owner_
  lockCount,   \* lockCount_
  pc,          \* where each thread is
  mode,        \* "suspend" inside wait(), "lock" otherwise
  head,        \* local: the head of the list in the word last loaded
  rest,        \* local of finishUnlock: the list behind head->next()
  target,      \* local: the semaphore to post
  saved,       \* local of wait(): the lock count to restore
  depth        \* the locks the client believes it holds

wordVars  == <<locked, contenders>>
localVars == <<mode, head, rest, target, saved>>
vars == <<wordVars, onDeck, waiters, owner, lockCount, pc, localVars, depth, semVars>>

Top == IF contenders = <<>> THEN None ELSE Head(contenders)

(* The semaphore in the node of the call that thread t is in. *)
Mine(t) == IF mode[t] = "suspend" THEN SuspendSem(t) ELSE LockSem(t)

Goto(t, label) == pc' = [pc EXCEPT ![t] = label]

Labels == {"idle", "inside", "notifyAll",
           "try", "tryCas", "lock", "lockCas", "barge", "bargeCas", "deck", "deckCas",
           "reset", "load", "push", "await", "awaitBlocked", "deckWait", "deckBlocked",
           "offDeck", "clear", "checkDeck", "checkList", "grab", "select", "pop",
           "install", "recheck", "post", "signal"}

TypeOK == /\ SemTypeOK
          /\ locked \in BOOLEAN
          /\ contenders \in Seq(Sems)
          /\ waiters \in Seq(Sems)
          /\ onDeck \in Sems \cup {None, Mark}
          /\ owner \in Threads \cup {None}
          /\ lockCount \in Nat
          /\ pc \in [Threads -> Labels]
          /\ mode \in [Threads -> {"lock", "suspend"}]
          /\ head \in [Threads -> Sems \cup {None}]
          /\ rest \in [Threads -> Seq(Sems)]
          /\ target \in [Threads -> Sems \cup {None}]
          /\ saved \in [Threads -> Nat]
          /\ depth \in [Threads -> Nat]

Init == /\ SemInit
        /\ locked = FALSE /\ contenders = <<>> /\ onDeck = None
        /\ waiters = <<>> /\ owner = None /\ lockCount = 0
        /\ pc = [t \in Threads |-> "idle"]
        /\ mode = [t \in Threads |-> "lock"]
        /\ head = [t \in Threads |-> None]
        /\ rest = [t \in Threads |-> <<>>]
        /\ target = [t \in Threads |-> None]
        /\ saved = [t \in Threads |-> 0]
        /\ depth = [t \in Threads |-> 0]

----------------------------------------
(* tryLock() is called from four places; each loads the word, then tries to
   CAS the lock bit in.  Here are the labels of the load and of the CAS, and
   where each caller goes after a success and after a failure. *)
Trying == {"try", "lock", "barge", "deck"}

CasOf(l) == CASE l = "try" -> "tryCas"     [] l = "lock" -> "lockCas"
              [] l = "barge" -> "bargeCas" [] OTHER -> "deckCas"

AfterSuccess(l) == IF l = "deck" THEN "offDeck" ELSE "inside"

(* lock() falls through to trySpinLock() and then to the contention list;
   the spinning repeats the attempt, so a failure may also try again. *)
AfterFailure(l) == CASE l = "try"   -> {"idle"}
                     [] l = "lock"  -> {"lock", "reset"}
                     [] l = "barge" -> {"barge"}
                     [] OTHER       -> {"deck", "deckWait"}

(* The client calls tryLock() or lock(), again while inside if recursive. *)
Call(t, label) ==
  /\ \/ pc[t] = "idle"
     \/ Recursive /\ pc[t] = "inside" /\ depth[t] < MaxDepth
  /\ Goto(t, label)
  /\ UNCHANGED <<wordVars, onDeck, waiters, owner, lockCount, localVars, depth, semVars>>

TryLock(t) == "tryLock" \in Operations[t] /\ Call(t, "try")
Lock(t)    == "lock" \in Operations[t] /\ Call(t, "lock")

(* The recursive case of tryLock(): the caller already owns the monitor. *)
Relock(t) ==
  /\ pc[t] \in Trying
  /\ locked /\ Recursive /\ owner = t
  /\ lockCount' = lockCount + 1
  /\ depth' = [depth EXCEPT ![t] = @ + 1]
  /\ Goto(t, AfterSuccess(pc[t]))
  /\ UNCHANGED <<wordVars, onDeck, waiters, owner, localVars, semVars>>

(* The load of tryLock() finds the lock bit set by another thread. *)
FindLocked(t) ==
  /\ pc[t] \in Trying
  /\ locked /\ ~(Recursive /\ owner = t)
  /\ \E label \in AfterFailure(pc[t]) : Goto(t, label)
  /\ UNCHANGED <<wordVars, onDeck, waiters, owner, lockCount, localVars, depth, semVars>>

(* The load of tryLock() finds the lock bit clear. *)
FindFree(t) ==
  /\ pc[t] \in Trying
  /\ ~locked
  /\ head' = [head EXCEPT ![t] = Top]
  /\ Goto(t, CasOf(pc[t]))
  /\ UNCHANGED <<wordVars, onDeck, waiters, owner, lockCount, mode, rest, target, saved,
                 depth, semVars>>

(* The CAS of tryLock(), from the label that loaded the word.  The word is
   unchanged when it is unlocked and has the same head.  setOwner() and
   lockCount_ = 1 follow: nobody but the owner acts on either. *)
Cas(t, from) ==
  /\ pc[t] = CasOf(from)
  /\ head' = [head EXCEPT ![t] = None]
  /\ \/ /\ ~locked /\ Top = head[t]
        /\ locked' = TRUE /\ owner' = t /\ lockCount' = 1
        /\ depth' = [depth EXCEPT ![t] = IF mode[t] = "lock" THEN 1 ELSE @]
        /\ Goto(t, AfterSuccess(from))
     \/ /\ SpuriousCAS \/ locked \/ Top # head[t]
        /\ \E label \in AfterFailure(from) : Goto(t, label)
        /\ UNCHANGED <<locked, owner, lockCount, depth>>
  /\ UNCHANGED <<contenders, onDeck, waiters, mode, rest, target, saved, semVars>>

AttemptCas(t) == \E from \in Trying : Cas(t, from)

----------------------------------------
(* finishLock() *)

(* The thread's lock semaphore is reset before its node can be seen. *)
ResetSemaphore(t) ==
  /\ pc[t] = "reset"
  /\ Reset(LockSem(t))
  /\ Goto(t, "load")
  /\ UNCHANGED <<wordVars, onDeck, waiters, owner, lockCount, localVars, depth>>

(* The first load of the word.  An unlocked word sends the thread to
   tryLock() forever: the loop does not load the word again. *)
LoadWord(t) ==
  /\ pc[t] = "load"
  /\ IF locked THEN head' = [head EXCEPT ![t] = Top] /\ Goto(t, "push")
               ELSE Goto(t, "barge") /\ UNCHANGED head
  /\ UNCHANGED <<wordVars, onDeck, waiters, owner, lockCount, mode, rest, target, saved,
                 depth, semVars>>

(* The CAS that pushes the node; a failed CAS reloads the word. *)
Push(t) ==
  /\ pc[t] = "push"
  /\ IF ~locked
       THEN /\ Goto(t, "barge") /\ head' = [head EXCEPT ![t] = None]
            /\ UNCHANGED contenders
       ELSE IF Top = head[t]
       THEN /\ contenders' = <<Mine(t)>> \o contenders
            /\ Goto(t, "await") /\ head' = [head EXCEPT ![t] = None]
       ELSE /\ head' = [head EXCEPT ![t] = Top]
            /\ UNCHANGED <<contenders, pc>>
  /\ UNCHANGED <<locked, onDeck, waiters, owner, lockCount, mode, rest, target, saved,
                 depth, semVars>>

(* The loops that sleep, in finishLock() and wait(): the first until the
   thread is on deck, the second until it owns the lock.  Spinning before
   the sleep is a step not yet taken. *)
GetOnDeck(t) ==
  /\ pc[t] = "await" /\ onDeck = Mine(t)
  /\ Goto(t, "deck")
  /\ UNCHANGED <<wordVars, onDeck, waiters, owner, lockCount, localVars, depth, semVars>>

Sleep(t, from, blocked, back) ==
  /\ pc[t] = from
  /\ Decrement(Mine(t))
  /\ Goto(t, IF MustSleep(Mine(t)) THEN blocked ELSE back)
  /\ UNCHANGED <<wordVars, onDeck, waiters, owner, lockCount, localVars, depth>>

AwaitSleep(t) == onDeck # Mine(t) /\ Sleep(t, "await", "awaitBlocked", "await")
DeckSleep(t)  == Sleep(t, "deckWait", "deckBlocked", "deck")

Wake(t) ==
  /\ pc[t] \in {"awaitBlocked", "deckBlocked"}
  /\ Take(Mine(t))
  /\ Goto(t, IF pc[t] = "awaitBlocked" THEN "await" ELSE "deck")
  /\ UNCHANGED <<wordVars, onDeck, waiters, owner, lockCount, localVars, depth>>

(* wait() sleeps with timedWait(10) until it is on deck; the counter keeps
   the decrement of a wait that timed out for want of a token. *)
TimeOut(t) ==
  /\ pc[t] = "awaitBlocked" /\ mode[t] = "suspend"
  /\ tokens[Mine(t)] = 0
  /\ value[Mine(t)] >= -MaxDrift
  /\ Goto(t, "await")
  /\ UNCHANGED <<wordVars, onDeck, waiters, owner, lockCount, localVars, depth, semVars>>

(* Mutant of LeaveDeck: the lock count that wait() saved is not restored. *)
LeaveDeckUnrestored(t) ==
  /\ pc[t] = "offDeck"
  /\ onDeck' = None
  /\ mode' = [mode EXCEPT ![t] = "lock"]
  /\ saved' = [saved EXCEPT ![t] = 0]
  /\ Goto(t, "inside")
  /\ UNCHANGED <<wordVars, waiters, owner, lockCount, head, rest, target, depth, semVars>>

(* The lock is ours: restore the count that wait() saved, leave the deck. *)
LeaveDeck(t) ==
  /\ pc[t] = "offDeck"
  /\ onDeck' = None
  /\ lockCount' = IF mode[t] = "suspend" THEN saved[t] ELSE lockCount
  /\ mode' = [mode EXCEPT ![t] = "lock"]
  /\ saved' = [saved EXCEPT ![t] = 0]
  /\ Goto(t, "inside")
  /\ UNCHANGED <<wordVars, waiters, owner, head, rest, target, depth, semVars>>

----------------------------------------
(* wait(), notify(), notifyAll() *)

(* wait() up to the clearing of owner_ in the unlock() it calls: the count
   it leaves is 1, so unlock() always gives the lock up. *)
Wait(t) ==
  /\ "wait" \in Operations[t] /\ pc[t] = "inside"
  /\ Reset(SuspendSem(t))
  /\ waiters' = <<SuspendSem(t)>> \o waiters
  /\ saved' = [saved EXCEPT ![t] = lockCount]
  /\ lockCount' = IF Recursive THEN 0 ELSE 1
  /\ mode' = [mode EXCEPT ![t] = "suspend"]
  /\ owner' = None
  /\ Goto(t, "clear")
  /\ UNCHANGED <<wordVars, onDeck, head, rest, target, depth>>

(* Mutant of MoveWaiter: the CAS stores the node without the lock bit. *)
MoveWaiterUnlocking == /\ waiters # <<>>
                       /\ waiters' = Tail(waiters)
                       /\ contenders' = <<Head(waiters)>> \o contenders
                       /\ locked' = FALSE

(* notify() moves the first waiter to the contention list; the CAS that
   pushes it keeps the lock bit, which the caller owns. *)
MoveWaiter == /\ waiters # <<>>
              /\ waiters' = Tail(waiters)
              /\ contenders' = <<Head(waiters)>> \o contenders
              /\ locked' = TRUE

Notify(t) ==
  /\ "notify" \in Operations[t] /\ pc[t] = "inside"
  /\ MoveWaiter
  /\ UNCHANGED <<onDeck, owner, lockCount, pc, localVars, depth, semVars>>

NotifyAll(t) ==
  /\ "notifyAll" \in Operations[t] /\ pc[t] = "inside" /\ waiters # <<>>
  /\ Goto(t, "notifyAll")
  /\ UNCHANGED <<wordVars, onDeck, waiters, owner, lockCount, localVars, depth, semVars>>

NotifyNext(t) ==
  /\ pc[t] = "notifyAll"
  /\ \/ MoveWaiter /\ UNCHANGED pc
     \/ waiters = <<>> /\ Goto(t, "inside") /\ UNCHANGED <<wordVars, waiters>>
  /\ UNCHANGED <<onDeck, owner, lockCount, localVars, depth, semVars>>

----------------------------------------
(* unlock() and finishUnlock() *)

(* Where unlock() returns to: the client, or the second half of wait(). *)
Return(t) == IF mode[t] = "suspend" THEN "await" ELSE "idle"

Unlock(t) ==
  /\ pc[t] = "inside"
  /\ lockCount' = IF Recursive THEN lockCount - 1 ELSE lockCount
  /\ IF Recursive /\ lockCount > 1
       THEN /\ depth' = [depth EXCEPT ![t] = @ - 1]
            /\ UNCHANGED <<owner, pc>>
       ELSE /\ depth' = [depth EXCEPT ![t] = 0]
            /\ owner' = None
            /\ Goto(t, "clear")
  /\ UNCHANGED <<wordVars, onDeck, waiters, localVars, semVars>>

(* The CAS loop that clears the lock bit and keeps the list. *)
ClearBit(t) ==
  /\ pc[t] = "clear"
  /\ locked' = FALSE
  /\ Goto(t, "checkDeck")
  /\ UNCHANGED <<contenders, onDeck, waiters, owner, lockCount, localVars, depth, semVars>>

(* A thread on deck is signalled; a taken microlock is left to its holder. *)
CheckDeck(t) ==
  /\ pc[t] = "checkDeck"
  /\ \/ /\ onDeck = None /\ Goto(t, "checkList") /\ UNCHANGED target
     \/ /\ onDeck = Mark /\ Goto(t, Return(t)) /\ UNCHANGED target
     \/ /\ onDeck \in Sems /\ Goto(t, "post")
        /\ target' = [target EXCEPT ![t] = onDeck]
  /\ UNCHANGED <<wordVars, onDeck, waiters, owner, lockCount, mode, head, rest, saved,
                 depth, semVars>>

(* No successor is needed when nobody contends or the lock is taken again:
   the test that ends unlock() and the one that ends finishUnlock()'s loop. *)
CheckList(t) ==
  /\ pc[t] \in {"checkList", "recheck"}
  /\ Goto(t, IF locked \/ contenders = <<>> THEN Return(t) ELSE "grab")
  /\ UNCHANGED <<wordVars, onDeck, waiters, owner, lockCount, localVars, depth, semVars>>

(* Mutant of Grab: the microlock is stored, not compared and swapped. *)
GrabBlindly(t) ==
  /\ pc[t] = "grab"
  /\ onDeck' = Mark /\ Goto(t, "select")
  /\ UNCHANGED <<wordVars, waiters, owner, lockCount, localVars, depth, semVars>>

(* The CAS that takes the on-deck microlock. *)
Grab(t) ==
  /\ pc[t] = "grab"
  /\ IF onDeck = None THEN onDeck' = Mark /\ Goto(t, "select")
                      ELSE Goto(t, Return(t)) /\ UNCHANGED onDeck
  /\ UNCHANGED <<wordVars, waiters, owner, lockCount, localVars, depth, semVars>>

(* Load the word under the microlock and choose: no successor if the list is
   empty or the lock is held, else the head, whose next() is read now. *)
Select(t) ==
  /\ pc[t] = "select"
  /\ IF locked \/ contenders = <<>>
       THEN Goto(t, "install") /\ UNCHANGED <<head, rest>>
       ELSE /\ head' = [head EXCEPT ![t] = Top]
            /\ rest' = [rest EXCEPT ![t] = Tail(contenders)]
            /\ Goto(t, "pop")
  /\ UNCHANGED <<wordVars, onDeck, waiters, owner, lockCount, mode, target, saved, depth,
                 semVars>>

(* Mutant of Pop: the rest of the list is stored, not compared and swapped. *)
PopBlindly(t) ==
  /\ pc[t] = "pop"
  /\ contenders' = rest[t]
  /\ target' = [target EXCEPT ![t] = head[t]]
  /\ Goto(t, "install")
  /\ head' = [head EXCEPT ![t] = None]
  /\ rest' = [rest EXCEPT ![t] = <<>>]
  /\ UNCHANGED <<locked, onDeck, waiters, owner, lockCount, mode, saved, depth, semVars>>

(* The CAS that unlinks the head; a failed CAS reloads the word. *)
Pop(t) ==
  /\ pc[t] = "pop"
  /\ IF ~locked /\ Top = head[t]
       THEN /\ contenders' = rest[t]
            /\ target' = [target EXCEPT ![t] = head[t]]
            /\ Goto(t, "install")
       ELSE Goto(t, "select") /\ UNCHANGED <<contenders, target>>
  /\ head' = [head EXCEPT ![t] = None]
  /\ rest' = [rest EXCEPT ![t] = <<>>]
  /\ UNCHANGED <<locked, onDeck, waiters, owner, lockCount, mode, saved, depth, semVars>>

(* The store that releases the microlock and names the successor, if any. *)
Install(t) ==
  /\ pc[t] = "install"
  /\ onDeck' = target[t]
  /\ Goto(t, IF target[t] = None THEN "recheck" ELSE "post")
  /\ UNCHANGED <<wordVars, waiters, owner, lockCount, localVars, depth, semVars>>

(* Semaphore::post() on the successor: the counter, then the sem_t. *)
Post(t) ==
  /\ pc[t] = "post"
  /\ Increment(target[t])
  /\ IF HasSleeper(target[t])
       THEN Goto(t, "signal") /\ UNCHANGED target
       ELSE Goto(t, Return(t)) /\ target' = [target EXCEPT ![t] = None]
  /\ UNCHANGED <<wordVars, onDeck, waiters, owner, lockCount, mode, head, rest, saved, depth>>

PostSignal(t) ==
  /\ pc[t] = "signal"
  /\ Signal(target[t])
  /\ target' = [target EXCEPT ![t] = None]
  /\ Goto(t, Return(t))
  /\ UNCHANGED <<wordVars, onDeck, waiters, owner, lockCount, mode, head, rest, saved, depth>>

----------------------------------------
(* The calls the client may make, and the steps inside a call. *)
Client(t) == TryLock(t) \/ Lock(t) \/ Unlock(t) \/ Wait(t) \/ Notify(t) \/ NotifyAll(t)

LockStep(t) == \/ Relock(t) \/ FindLocked(t) \/ FindFree(t) \/ AttemptCas(t)
               \/ ResetSemaphore(t) \/ LoadWord(t) \/ Push(t)
               \/ GetOnDeck(t) \/ AwaitSleep(t) \/ DeckSleep(t) \/ Wake(t) \/ LeaveDeck(t)

UnlockStep(t) == \/ ClearBit(t) \/ CheckDeck(t) \/ CheckList(t) \/ Grab(t)
                 \/ Select(t) \/ Pop(t) \/ Install(t) \/ Post(t) \/ PostSignal(t)

Step(t) == LockStep(t) \/ UnlockStep(t) \/ NotifyNext(t)

Next == \E t \in Threads : Client(t) \/ Step(t) \/ TimeOut(t)

Spec == Init /\ [][Next]_vars

(* A thread that is inside a call and not asleep keeps running; what the
   client does between calls is up to the client. *)
Fairness == \A t \in Threads : WF_vars(Step(t))

FairSpec == Spec /\ Fairness

----------------------------------------
(* Properties *)

(* The client of thread t is between a lock() and the unlock() it matches. *)
Inside(t) == depth[t] > 0 /\ pc[t] \in {"inside", "notifyAll", "try", "lock"}

(* Thread t has set the lock bit and not cleared it. *)
Holds(t) == Inside(t) \/ pc[t] \in {"inside", "notifyAll", "offDeck", "clear"}

(* lock() "Acquire the lock": two threads never hold it at once, and the
   lock bit is set exactly while one does. *)
MutualExclusion == /\ \A t, u \in Threads : Holds(t) /\ Holds(u) => t = u
                   /\ locked <=> \E t \in Threads : Holds(t)

(* The assertions "just checking" of finishLock() and wait(): the thread on
   deck stays there, whatever the unlockers do, until it has the lock. *)
OnDeckIsStable ==
  \A t \in Threads :
    pc[t] \in {"deck", "deckCas", "deckWait", "deckBlocked", "offDeck"} => onDeck = Mine(t)

(* The node of semaphore s is published: its owner is between the push in
   finishLock() or wait() and the store that takes it off deck. *)
Queued == {LockSem(t) : t \in {u \in Threads : mode[u] = "lock" /\ pc[u] \in
              {"await", "awaitBlocked", "deck", "deckCas", "deckWait", "deckBlocked", "offDeck"}}}
          \cup {SuspendSem(t) : t \in {u \in Threads : mode[u] = "suspend"}}

Occurrences(list, s) == Cardinality({i \in DOMAIN list : list[i] = s})

(* How many of the places a node can be in hold the node of semaphore s: the
   contention list, the wait list, the deck, the hands of an unlocker. *)
Places(s) == Occurrences(contenders, s) + Occurrences(waiters, s)
             + (IF onDeck = s THEN 1 ELSE 0)
             + Cardinality({u \in Threads : pc[u] = "install" /\ target[u] = s})

(* Nodes are on the stacks of the sleeping calls: a sleeping call is always
   in exactly one place where a later unlock() or notify() can find it, and
   no list keeps the node of a call that has returned. *)
NodesAreLive == \A s \in Sems : Places(s) = IF s \in Queued THEN 1 ELSE 0

(* A post of semaphore s is on its way. *)
Posting(s) == \E u \in Threads : \/ pc[u] = "checkDeck"
                                 \/ pc[u] \in {"install", "post", "signal"} /\ target[u] = s

(* unlock() "Release the lock and wake a single waiting thread if any": when
   the lock is free, a non-empty contention list without a thread on deck
   has an unlocker about to choose one, and a thread asleep on deck has a
   token or a post coming. *)
NoLostWakeup ==
  ~locked =>
    /\ contenders # <<>> /\ onDeck = None
         => \E u \in Threads : pc[u] \in {"checkDeck", "checkList", "grab", "recheck"}
    /\ \A t \in Threads :
         pc[t] \in {"awaitBlocked", "deckBlocked"} /\ onDeck = Mine(t)
           => tokens[Mine(t)] > 0 \/ Posting(Mine(t))

(* "Preserve the lock count": inside the monitor, also after a wait(), the
   lock count is the number of lock() calls the client has to undo. *)
CountIsNesting == \A t \in Threads : Inside(t) => lockCount = depth[t] /\ owner = t

(* What the safety invariants rest on, preserved by every step.  In wait()
   the client keeps its nesting; elsewhere a nesting belongs to a thread
   that owns the monitor. *)
SuspendLabels == {"clear", "checkDeck", "checkList", "grab", "select", "pop", "install",
                  "recheck", "post", "signal", "await", "awaitBlocked", "deck", "deckCas",
                  "deckWait", "deckBlocked", "offDeck"}

PhaseInv ==
  \A t \in Threads :
    /\ mode[t] = "suspend" => /\ pc[t] \in SuspendLabels
                              /\ saved[t] = depth[t] /\ depth[t] > 0
    /\ pc[t] \in {"inside", "notifyAll", "offDeck"} => depth[t] > 0
    /\ /\ mode[t] = "lock"
       /\ pc[t] \notin {"inside", "notifyAll", "offDeck", "try", "lock"}
       => depth[t] = 0
    /\ pc[t] \in {"post", "signal"} => target[t] \in Sems

OwnerInv ==
  \A t \in Threads :
    /\ owner = t => Holds(t) /\ pc[t] # "clear"
    /\ Inside(t) \/ pc[t] = "offDeck" => owner = t /\ lockCount > 0
    /\ Inside(t) \/ (pc[t] = "offDeck" /\ mode[t] = "lock") => lockCount = depth[t]
    /\ Inside(t) /\ pc[t] \in {"try", "lock"} => Recursive

MicrolockInv ==
  /\ \A t \in Threads : pc[t] \in {"select", "pop", "install"} => onDeck = Mark
  /\ \A t, u \in Threads : /\ pc[t] \in {"select", "pop", "install"}
                            /\ pc[u] \in {"select", "pop", "install"}
                            => t = u

(* The lock bit, owner_, the lock count and the deck agree with where the
   threads are, at every step: the conjunction that is inductive. *)
IInv == TypeOK /\ PhaseInv /\ MutualExclusion /\ OwnerInv /\ MicrolockInv /\ OnDeckIsStable

(* lock() and the second half of wait() do not sleep forever beside a free
   lock: while some thread wants it, somebody eventually gets it. *)
Wants(t) == \/ pc[t] \in {"lock", "lockCas", "reset", "load", "barge", "bargeCas", "push",
                          "deck", "deckCas", "deckWait", "deckBlocked"}
            \/ pc[t] \in {"await", "awaitBlocked"}
                 /\ \A i \in DOMAIN waiters : waiters[i] # Mine(t)

Progress == (\E t \in Threads : Wants(t)) ~> (\E t \in Threads : Holds(t))

(* The monitor as its clients see it.  The holder changes when the lock bit
   does; a waiter counts as waiting once its unlock() has cleared the bit. *)
Waiting == {t \in Threads : pc[t] # "clear" /\ \E i \in DOMAIN waiters :
                               waiters[i] = SuspendSem(t)}

Holder == IF \E t \in Threads : Holds(t) THEN CHOOSE t \in Threads : Holds(t) ELSE None
Nested == [t \in Threads |-> IF pc[t] = "clear" /\ mode[t] = "lock" THEN 1 ELSE depth[t]]
Notified == {t \in Threads : mode[t] = "suspend" /\ pc[t] \notin {"clear", "offDeck"}} \ Waiting

Abs == INSTANCE AbstractMonitor WITH
  holder <- Holder, nesting <- Nested, waiting <- Waiting, notified <- Notified

(* Every step of the monitor is a step of the abstract one, or invisible. *)
ImplementsMonitor == Abs!Spec
=============================================================================
