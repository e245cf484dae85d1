------------------------- MODULE AbstractHostQueue -------------------------
(***************************************************************************)
(* What the in-order command queues promise (class HostQueue and the event  *)
(* wait lists of class Command): the commands of a queue come to their      *)
(* outcomes in the order they were appended, each after the events it waits *)
(* for, and it fails exactly if an event of another queue did.              *)
(***************************************************************************)
EXTENDS Naturals, Sequences

CONSTANTS AllCommands, Queues

VARIABLES order,    \* the commands appended to each queue, in order
          waits,    \* the events each command waits for
          queueOf,  \* the queue of each command; anything else for user events
          outcome   \* "pending", "complete" or "error"

vars == <<order, waits, queueOf, outcome>>

Init == /\ order = [q \in Queues |-> <<>>]
        /\ waits \in [AllCommands -> {{}}]
        /\ \A c \in AllCommands : queueOf[c] \notin Queues /\ outcome[c] = "pending"

Appended == UNION {{order[q][i] : i \in DOMAIN order[q]} : q \in Queues}

(* A command is made, with its queue and wait list; not yet appended. *)
Make == \E c \in AllCommands \ Appended :
          /\ \A d \in AllCommands \ {c} : waits'[d] = waits[d] /\ queueOf'[d] = queueOf[d]
          /\ UNCHANGED <<order, outcome>>

Enqueue == \E q \in Queues, c \in AllCommands \ Appended :
             /\ queueOf[c] = q
             /\ order' = [order EXCEPT ![q] = Append(@, c)]
             /\ UNCHANGED <<waits, queueOf, outcome>>

Foreign(c) == {e \in waits[c] : queueOf[e] # queueOf[c]}

Settle == \E q \in Queues : \E i \in DOMAIN order[q] :
  LET c == order[q][i] IN
  /\ outcome[c] = "pending"
  /\ \A j \in 1..i - 1 : outcome[order[q][j]] # "pending"
  /\ \A e \in waits[c] : outcome[e] # "pending"
  /\ outcome' = [outcome EXCEPT ![c] = IF \E e \in Foreign(c) : outcome[e] = "error"
                                      THEN "error" ELSE "complete"]
  /\ UNCHANGED <<order, waits, queueOf>>

(* The application sets a user event. *)
SetUserEvent == \E e \in AllCommands, o \in {"complete", "error"} :
  /\ queueOf[e] \notin Queues /\ outcome[e] = "pending"
  /\ outcome' = [outcome EXCEPT ![e] = o]
  /\ UNCHANGED <<order, waits, queueOf>>

Next == Make \/ Enqueue \/ Settle \/ SetUserEvent

Spec == Init /\ [][Next]_vars
=============================================================================
