--------------------------- MODULE EventCallbacks ---------------------------
(***************************************************************************)
(* The callbacks of an amd::Event (rocclr/platform/command.cpp).           *)
(*                                                                         *)
(* An event goes through decreasing execution statuses.  setStatus() moves *)
(* it forward with a compare-and-swap and walks the list of registered     *)
(* entries; setCallback() pushes an entry on the list and then tests the   *)
(* status itself.  The two run on different threads with no lock: the      *)
(* exchange of an entry's function pointer with NULL decides who calls it. *)
(*                                                                         *)
(* In OpenCL the walk follows the compare-and-swap.  In HIP it precedes    *)
(* it, "to finish the callback before HIP stream can continue", which is   *)
(* why HIP registers its callbacks before it enqueues the command.         *)
(***************************************************************************)
EXTENDS Integers, Sequences

CONSTANTS
    Setters,      \* threads that call setStatus()
    Registrars,   \* threads that call setCallback(), once; also the entries
    Histories     \* the setups explored, see below

(* A setup: is it HIP, the status the event starts with, the statuses each
   setter sets in its order, and the status each entry is registered for. *)
VARIABLES
    setup,      \* [hip, first, sets, at], frozen
    status,     \* status_
    callbacks,  \* the list callbacks_, newest entry first
    callback,   \* entry -> its callback_ is not NULL
    called,     \* entry -> the statuses the event had when it was called
    passed,     \* the statuses some setStatus() moved the event to
    todo,       \* setter -> the statuses it has still to set
    current,    \* setter -> currentStatus of the call under way
    walk,       \* thread -> the entries it has still to visit
    pc          \* thread -> the step it is at

vars == <<setup, status, callbacks, callback, called, passed, todo, current,
          walk, pc>>

Threads == Setters \cup Registrars

(* The OpenCL execution statuses; an error is any negative number. *)
Initial == 4   \* CL_INT_MAX, of a command that is not queued yet
Queued == 3
Submitted == 2
Running == 1
Complete == 0
Statuses == -1 .. Initial

TypeOK ==
  /\ setup \in Histories
  /\ status \in Statuses
  /\ callbacks \in Seq(Registrars)
  /\ callback \in [Registrars -> BOOLEAN]
  /\ called \in [Registrars -> Seq(Statuses)]
  /\ passed \subseteq Statuses
  /\ todo \in [Setters -> Seq(Statuses)]
  /\ current \in [Setters -> Statuses]
  /\ walk \in [Threads -> Seq(Registrars)]
  /\ pc \in [Threads -> {"start", "cas", "head", "visit", "call", "test", "done"}]

(* What every setup has: threads that set and threads that register are
   different ones; in HIP a command is not complete when it starts, all
   callbacks are for its end, and only the thread that runs its stream
   sets its status. *)
HistoriesAreSane ==
  /\ Setters \cap Registrars = {}
  /\ \A h \in Histories :
        /\ h.hip \in BOOLEAN /\ h.first \in Statuses
        /\ h.sets \in [Setters -> Seq(Statuses)]
        /\ h.at \in [Registrars -> Complete .. Initial]
        /\ h.hip => /\ Complete < h.first
                    /\ \A e \in Registrars : h.at[e] = Complete
                    /\ \A t, u \in Setters : h.sets[t] # <<>> /\ h.sets[u] # <<>> => t = u

Init ==
  /\ setup \in Histories
  /\ status = setup.first
  /\ callbacks = <<>>
  /\ callback = [e \in Registrars |-> TRUE]
  /\ called = [e \in Registrars |-> <<>>]
  /\ passed = {}
  /\ todo = setup.sets
  /\ current = [t \in Setters |-> Initial]
  /\ walk = [t \in Threads |-> <<>>]
  /\ pc = [t \in Threads |-> "start"]

Goto(t, step) == pc' = [pc EXCEPT ![t] = step]

(* The status whose entries a setStatus(s) runs: every error counts as
   COMPLETE. *)
Mask(s) == IF s > Complete THEN s ELSE Complete

(* setStatus() returns: the next call of this setter, if there is one. *)
Return(t) ==
  /\ todo' = [todo EXCEPT ![t] = Tail(@)]
  /\ Goto(t, IF Len(todo[t]) = 1 THEN "done" ELSE "start")

----------------------------------------
(* setStatus(): read the status and refuse to go backwards or to leave a
   final status.  HIP walks the list first, OpenCL swaps first. *)
Load(t) ==
  /\ pc[t] = "start" /\ todo[t] # <<>>
  /\ setup.hip => \A e \in Registrars : pc[e] = "done"
  /\ current' = [current EXCEPT ![t] = status]
  /\ IF status <= Complete \/ status <= Head(todo[t])
       THEN Return(t)
       ELSE Goto(t, IF setup.hip THEN "head" ELSE "cas") /\ UNCHANGED todo
  /\ UNCHANGED <<setup, status, callbacks, callback, called, passed, walk>>

(* status_.compare_exchange_strong(): the loser leaves without a walk. *)
CompareAndSwap(t) ==
  /\ pc[t] = "cas"
  /\ IF status # current[t]
       THEN Return(t) /\ UNCHANGED <<status, passed>>
       ELSE /\ status' = Head(todo[t])
            /\ passed' = passed \cup {Mask(Head(todo[t]))}
            /\ IF setup.hip THEN Return(t) ELSE Goto(t, "head") /\ UNCHANGED todo
  /\ UNCHANGED <<setup, callbacks, callback, called, current, walk>>

(* processCallbacks() reads the head of the list: what is pushed after
   this is not seen by the walk. *)
ReadHead(t) ==
  /\ pc[t] = "head"
  /\ walk' = [walk EXCEPT ![t] = callbacks]
  /\ Goto(t, "visit")
  /\ UNCHANGED <<setup, status, callbacks, callback, called, passed, todo, current>>

(* The end of the walk: HIP now swaps the status, OpenCL returns. *)
EndWalk(t) ==
  /\ pc[t] = "visit" /\ t \in Setters /\ walk[t] = <<>>
  /\ IF setup.hip THEN Goto(t, "cas") /\ UNCHANGED todo ELSE Return(t)
  /\ UNCHANGED <<setup, status, callbacks, callback, called, passed, current, walk>>

(* May thread t call entry e?  A walk skips the entries of other statuses. *)
Wants(t, e) == t \in Setters => setup.at[e] = Mask(Head(todo[t]))

(* Mutant of Exchanged: the pointer is read and not exchanged. *)
OnlyRead(e) == callback[e]

(* What is left in callback_ by the exchange with NULL. *)
Exchanged(e) == FALSE

(* Visit one entry: callback_.exchange(NULL), by the walk of setStatus()
   or by setCallback() for its own entry. *)
Visit(t) ==
  /\ pc[t] = "visit" /\ walk[t] # <<>>
  /\ LET e == Head(walk[t]) IN
     IF Wants(t, e) /\ callback[e]
       THEN /\ callback' = [callback EXCEPT ![e] = Exchanged(e)]
            /\ Goto(t, "call")
            /\ UNCHANGED walk
       ELSE /\ walk' = [walk EXCEPT ![t] = Tail(@)]
            /\ Goto(t, IF t \in Setters THEN "visit" ELSE "done")
            /\ UNCHANGED callback
  /\ UNCHANGED <<setup, status, callbacks, called, passed, todo, current>>

(* The call itself. *)
Call(t) ==
  /\ pc[t] = "call"
  /\ called' = [called EXCEPT ![Head(walk[t])] = Append(@, status)]
  /\ walk' = [walk EXCEPT ![t] = Tail(@)]
  /\ Goto(t, IF t \in Setters THEN "visit" ELSE "done")
  /\ UNCHANGED <<setup, status, callbacks, callback, passed, todo, current>>

----------------------------------------
(* setCallback(): push the entry with a compare-and-swap loop. *)
Push(e) ==
  /\ pc[e] = "start"
  /\ callbacks' = <<e>> \o callbacks
  /\ Goto(e, "test")
  /\ UNCHANGED <<setup, status, callback, called, passed, todo, current, walk>>

(* Then test whether the event has already reached the status. *)
TestStatus(e) ==
  /\ pc[e] = "test"
  /\ IF status <= setup.at[e]
       THEN walk' = [walk EXCEPT ![e] = <<e>>] /\ Goto(e, "visit")
       ELSE Goto(e, "done") /\ UNCHANGED walk
  /\ UNCHANGED <<setup, status, callbacks, callback, called, passed, todo, current>>

Next ==
  \/ \E t \in Setters : Load(t) \/ CompareAndSwap(t) \/ ReadHead(t) \/ EndWalk(t)
  \/ \E t \in Threads : Visit(t) \/ Call(t)
  \/ \E e \in Registrars : Push(e) \/ TestStatus(e)

Spec == Init /\ [][Next]_vars

----------------------------------------
(* No callback runs twice, whoever finds its entry: setStatus() and
   setCallback() may both reach it. *)
AtMostOnce == \A e \in Registrars : Len(called[e]) <= 1

(* In OpenCL a callback sees an event that has reached the status it was
   registered for. *)
NeverEarly ==
  ~setup.hip => \A e \in Registrars : \A i \in 1 .. Len(called[e]) :
                    called[e][i] <= setup.at[e]

(* In HIP every callback has returned before the command is complete: the
   stream does not continue before ("HIP API requires to finish the
   callback before HIP stream can continue"). *)
ReturnedBeforeComplete ==
  setup.hip /\ status <= Complete => \A e \in Registrars : called[e] # <<>>

(* When every call has returned, each entry was called if a setStatus()
   moved the event to its very status: no interleaving of the push, the
   test, the swap and the walk loses it. *)
NoneLost ==
  (\A t \in Threads : pc[t] = "done" \/ (t \in Setters /\ todo[t] = <<>>))
      => \A e \in Registrars : setup.at[e] \in passed => called[e] # <<>>

(* The callbacks of an event run when they should, exactly once. *)
CallbacksRun == AtMostOnce /\ NeverEarly /\ ReturnedBeforeComplete /\ NoneLost
=============================================================================
