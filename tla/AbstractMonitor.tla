--------------------------- MODULE AbstractMonitor ---------------------------
(***************************************************************************)
(* What amd::Monitor promises its clients (the comments of the public       *)
(* functions in rocclr/thread/monitor.hpp): a lock with one holder at a     *)
(* time, nested if the holder asks for it again, and a condition on which   *)
(* a holder sleeps until another holder wakes it, to return with the lock   *)
(* and the nesting it had.                                                  *)
(***************************************************************************)
EXTENDS Naturals

CONSTANTS Threads, None

VARIABLES holder,    \* the thread that holds the lock, or None
          nesting,   \* the lock() calls each thread has not yet undone
          waiting,   \* the threads asleep in wait()
          notified   \* the threads woken from wait() that want the lock back

vars == <<holder, nesting, waiting, notified>>

Init == /\ holder = None
        /\ nesting = [t \in Threads |-> 0]
        /\ waiting = {} /\ notified = {}

Acquire(t) == /\ holder = None /\ t \notin waiting \cup notified
              /\ holder' = t
              /\ nesting' = [nesting EXCEPT ![t] = 1]
              /\ UNCHANGED <<waiting, notified>>

Nest(t) == /\ holder = t
           /\ nesting' = [nesting EXCEPT ![t] = @ + 1]
           /\ UNCHANGED <<holder, waiting, notified>>

Unnest(t) == /\ holder = t /\ nesting[t] > 1
             /\ nesting' = [nesting EXCEPT ![t] = @ - 1]
             /\ UNCHANGED <<holder, waiting, notified>>

Release(t) == /\ holder = t /\ nesting[t] = 1
              /\ holder' = None
              /\ nesting' = [nesting EXCEPT ![t] = 0]
              /\ UNCHANGED <<waiting, notified>>

Wait(t) == /\ holder = t
           /\ holder' = None
           /\ waiting' = waiting \cup {t}
           /\ UNCHANGED <<nesting, notified>>

Notify(t) == /\ holder = t
             /\ \E w \in waiting : /\ waiting' = waiting \ {w}
                                   /\ notified' = notified \cup {w}
             /\ UNCHANGED <<holder, nesting>>

(* wait() returns: never without a notify, never without the lock. *)
Resume(t) == /\ holder = None /\ t \in notified
             /\ holder' = t
             /\ notified' = notified \ {t}
             /\ UNCHANGED <<nesting, waiting>>

Next == \E t \in Threads : \/ Acquire(t) \/ Nest(t) \/ Unnest(t) \/ Release(t)
                           \/ Wait(t) \/ Notify(t) \/ Resume(t)

Spec == Init /\ [][Next]_vars
=============================================================================
