----------------------------- MODULE HostProofs -----------------------------
(* Proofs about the host queues with worker threads, for any queues,
   clients and number of commands: the lists of a queue, and what its worker
   has taken from them, are always one history of what was appended, of
   which the commands settle in order; and what they do for their clients:
   they implement AbstractHostQueue, finish() returns when what was enqueued
   before it is done, a worker that sleeps is told of what is appended, a
   queue with a last command is active, and nobody appends to a queue whose
   terminate() is over.

   Nothing here rests on the reference counts: they follow a recursive
   function over the wait lists, which the provers cannot unfold. *)
EXTENDS HostQueue, TLAPS

Typed == /\ created \in 0..MaxCommands
         /\ command \in [AllCommands -> CommandObject]
         /\ handles \subseteq Commands
         /\ queue \in [Queues -> QueueObject]
         /\ active \subseteq Queues
         /\ pc \in [Threads -> Labels]
         /\ my \in [Threads -> Locals]

(* The command was not appended yet, or does not exist. *)
Fresh(c) == command[c].status = "new"

(* The calls in which a thread has a command in its hands. *)
Appending  == {"append", "swapLast", "dropLast", "flush"}
InEnqueue  == Appending \cup {"dropMarker"}

(* A command that is not appended is in the hands of the client that made
   it; what others can name was appended, or is a user event. *)
CommandInv ==
  /\ \A c \in Commands :
       /\ c > created => Fresh(c) /\ command[c].queue = None
       /\ c <= created /\ Fresh(c) => \E t \in Clients : pc[t] = "append" /\ my[t].cmd = c
       /\ command[c].kind # "notify"
       /\ ~command[c].notified => Fresh(NotifyMarker(c))
  /\ \A c \in AllCommands :
       /\ c \notin Commands => command[c].kind \in {"user", "notify"}
       /\ command[c].kind = "userEvent" => command[c].queue = None /\ ~Fresh(c)
       /\ \A e \in command[c].waits : ~Fresh(e)
  /\ \A c \in handles : ~Fresh(c)
  /\ \A q \in Queues : queue[q].last # None => /\ queue[q].last \in Commands
                                               /\ ~Fresh(queue[q].last)
                                               /\ command[queue[q].last].queue = q

(* What a thread is appending, and that nobody else appends it. *)
HandOf(p) ==
  /\ pc[p] \in InEnqueue =>
       /\ my[p].cmd \in AllCommands /\ command[my[p].cmd].queue \in Queues
       /\ my[p].cmd \in Commands =>
            /\ p \in Clients /\ my[p].event = None /\ my[p].cmd <= created
            /\ command[my[p].cmd].kind \in {"user", "finish"}
            /\ command[my[p].cmd].queue \in Streams[p]
       /\ my[p].cmd \notin Commands =>
            /\ command[my[p].cmd].kind = "notify" /\ my[p].event # None
            /\ my[p].cmd = NotifyMarker(my[p].event) /\ command[my[p].event].notified
  /\ pc[p] = "append" => Fresh(my[p].cmd) /\ \A r \in Threads : my[r].cmd = my[p].cmd => r = p
  /\ pc[p] \in InEnqueue \ {"append"} => ~Fresh(my[p].cmd)
  /\ pc[p] = "swapLast" => my[p].cmd \in Commands
  /\ pc[p] = "dropMarker" => my[p].cmd \notin Commands
  /\ my[p].event # None => ~Fresh(my[p].event)
  /\ pc[p] \in {"await", "sleep", "waiting", "awaited"} => my[p].event # None
  /\ pc[p] = "awaited" => Done(my[p].event)
  /\ pc[p] \notin InEnqueue \cup {"signal"} => my[p].cmd = None
  /\ my[p].op \in {"finish", "terminate"} => my[p].on \in Queues
  /\ pc[p] \in {"finished", "stop", "join"} => my[p].op \in {"finish", "terminate"}
  /\ pc[p] \in {"idle", "finished", "stop", "join"} => my[p].event = None
  /\ pc[p] = "signal" /\ p \in Clients => my[p].event = None
  /\ pc[p] = "signal" => my[p].cmd # None /\ Done(my[p].cmd)

(* The history of a queue holds what was appended to it, once, and each
   command after the events of the same queue that it waits for. *)
OrderOf(q) ==
  /\ \A i \in DOMAIN queue[q].order :
       /\ ~Fresh(queue[q].order[i]) /\ command[queue[q].order[i]].queue = q
       /\ \A j \in DOMAIN queue[q].order : queue[q].order[i] = queue[q].order[j] => i = j
       /\ \A e \in command[queue[q].order[i]].waits :
            command[e].queue = q => \E j \in 1..i - 1 : queue[q].order[j] = e
  /\ \A c \in AllCommands : ~Fresh(c) /\ command[c].queue = q =>
       \E i \in DOMAIN queue[q].order : queue[q].order[i] = c

(* The history ends with the batch, the command that the worker has taken
   and the queue, in this order; what is before them is done. *)
Rest(q) == Len(queue[q].order) - Len(queue[q].fifo)
Past(q) == Rest(q) - (IF my[q].taken = None THEN 0 ELSE 1) - Len(queue[q].batch)

QueueOf(q) ==
  /\ Past(q) \in Nat
  /\ \A i \in DOMAIN queue[q].fifo :
       /\ queue[q].fifo[i] = queue[q].order[Rest(q) + i]
       /\ command[queue[q].fifo[i]].status = "queued"
  /\ my[q].taken # None => /\ my[q].taken = queue[q].order[Rest(q)]
                           /\ command[my[q].taken].status = "queued"
  /\ \A i \in DOMAIN queue[q].batch :
       /\ queue[q].batch[i] = queue[q].order[Past(q) + i]
       /\ command[queue[q].batch[i]].status \in {"submitted", "complete", "error"}
       /\ i > 1 => ~Done(queue[q].batch[i])
       /\ command[queue[q].batch[i]].status = "submitted" =>
            \A e \in command[queue[q].batch[i]].waits :
              command[e].queue # q => command[e].status = "complete"
  /\ \A i \in 1..Past(q) : Done(queue[q].order[i])

(* Where a worker is with the command it has taken: the events it has looked
   at are done, and it has failed exactly if one of another queue has. *)
WorkerOf(q) ==
  /\ pc[q] \in {"dequeue", "recheck", "asleep", "exited", "events", "flushBatch", "signal",
                "await", "sleep", "waiting", "awaited"} \cup InEnqueue
  /\ pc[q] \in {"dequeue", "recheck", "asleep", "exited"} => my[q].taken = None
  /\ pc[q] \in {"dequeue", "recheck", "asleep", "exited", "events"} => my[q].event = None
  /\ pc[q] = "events" => my[q].taken # None
  /\ my[q].event = None <=> (my[q].taken = None \/ pc[q] = "events")
  /\ my[q].event # None => /\ my[q].event \in command[my[q].taken].waits
                           /\ command[my[q].event].queue # q
  /\ pc[q] \in {"await", "sleep", "waiting", "awaited"} \cup InEnqueue => queue[q].batch = <<>>
  /\ pc[q] = "signal" =>
       /\ command[my[q].cmd].status = "error" => my[q].taken = None
       /\ command[my[q].cmd].status = "complete" =>
            queue[q].batch # <<>> /\ Head(queue[q].batch) = my[q].cmd
  /\ my[q].taken # None =>
       /\ my[q].todo \subseteq command[my[q].taken].waits
       /\ \A e \in command[my[q].taken].waits \ (my[q].todo \cup {my[q].event}) :
            command[e].queue # q =>
              Done(e) /\ (my[q].failed \/ command[e].status = "complete")
       /\ my[q].failed => /\ queue[q].batch = <<>>
                          /\ \E e \in command[my[q].taken].waits :
                               command[e].queue # q /\ command[e].status = "error"

HandInv   == \A p \in Threads : HandOf(p)
OrderInv  == \A q \in Queues : OrderOf(q)
QueueInv  == \A q \in Queues : QueueOf(q)
WorkerInv == \A q \in Queues : WorkerOf(q)

InvOrder == Typed /\ CommandInv /\ HandInv /\ OrderInv /\ QueueInv /\ WorkerInv

----------------------------------------
(* The fields of what has its type, and the commands and their markers. *)
LEMMA Fields ==
  Typed =>
    /\ \A c \in AllCommands :
         /\ command[c].kind \in Kinds /\ command[c].queue \in Queues \cup {None}
         /\ command[c].waits \subseteq Commands /\ command[c].notified \in BOOLEAN
         /\ command[c].status \in {"new", "queued", "submitted", "complete", "error"}
    /\ \A q \in Queues :
         /\ queue[q].fifo \in Seq(AllCommands) /\ queue[q].batch \in Seq(AllCommands)
         /\ queue[q].order \in Seq(AllCommands) /\ queue[q].last \in AllCommands \cup {None}
         /\ queue[q].accepting \in BOOLEAN
    /\ \A p \in Threads :
         /\ my[p].op \in {"none", "await", "finish", "terminate"}
         /\ my[p].on \in Queues \cup {None} /\ my[p].due \subseteq Commands
         /\ my[p].cmd \in AllCommands \cup {None} /\ my[p].prev \in AllCommands \cup {None}
         /\ my[p].event \in Commands \cup {None} /\ my[p].taken \in AllCommands \cup {None}
         /\ my[p].todo \subseteq Commands /\ my[p].failed \in BOOLEAN
BY DEF Typed, CommandObject, QueueObject, Locals

(* Commands and their markers are different, and None is none of them. *)
LEMMA CommandFacts ==
  /\ MaxCommands \in Nat /\ Commands \subseteq AllCommands
  /\ \A c \in Commands : /\ NotifyMarker(c) \in AllCommands \ Commands
                         /\ \A d \in Commands : NotifyMarker(c) = NotifyMarker(d) => c = d
  /\ \A n \in 0..MaxCommands : n < MaxCommands => n + 1 \in Commands
  /\ None \notin AllCommands /\ None \notin Threads /\ None \notin Commands
  /\ Queues \subseteq Threads /\ Clients \subseteq Threads /\ Queues \cap Clients = {}
BY HostQueueAssumption, NoneAssumption DEF Commands, AllCommands, NotifyMarker, Threads

(* Initially there are no commands. *)
LEMMA InitHost == Init => InvOrder
<1> SUFFICES ASSUME Init PROVE InvOrder OBVIOUS
<1> USE CommandFacts DEF Init
<1>1. Typed
  <2>1. created \in 0..MaxCommands /\ handles \subseteq Commands /\ active \subseteq Queues OBVIOUS
  <2>2. command \in [AllCommands -> CommandObject] BY DEF CommandObject, Kinds
  <2>3. queue \in [Queues -> QueueObject] BY DEF QueueObject
  <2>4. pc \in [Threads -> Labels] BY DEF Labels
  <2>5. my \in [Threads -> Locals] BY DEF Locals
  <2> QED BY <2>1, <2>2, <2>3, <2>4, <2>5 DEF Typed
<1>2. CommandInv
  <2>1. \A c \in Commands : ~(c <= created) BY DEF Commands
  <2>2. \A c \in AllCommands : /\ command[c].kind = "user" /\ command[c].queue = None
                               /\ command[c].waits = {} /\ Fresh(c)
    BY DEF Fresh
  <2> QED BY <2>1, <2>2 DEF CommandInv
<1>3. HandInv /\ WorkerInv BY DEF HandInv, HandOf, WorkerInv, WorkerOf, InEnqueue, Appending
<1>4. OrderInv BY DEF OrderInv, OrderOf, Fresh
<1>5. QueueInv
  <2> SUFFICES ASSUME NEW q \in Queues PROVE QueueOf(q) BY DEF QueueInv
  <2>1. Past(q) = 0 BY DEF Past, Rest
  <2> QED BY <2>1 DEF QueueOf
<1> QED BY <1>1, <1>2, <1>3, <1>4, <1>5 DEF InvOrder

----------------------------------------
(* One thread takes a step: another one is at most woken. *)
Alone(p) ==
  \A u \in Threads \ {p} :
    /\ my'[u] = my[u]
    /\ \/ pc'[u] = pc[u]
       \/ pc[u] = "waiting" /\ pc'[u] = "sleep"
       \/ pc[u] = "asleep" /\ pc'[u] = "recheck"

(* What never changes of a command that was appended or is about to be. *)
Steady ==
  \A c \in AllCommands :
    /\ ~Fresh(c) \/ (\E u \in Threads : pc[u] = "append" /\ my[u].cmd = c) =>
         /\ command'[c].queue = command[c].queue /\ command'[c].waits = command[c].waits
         /\ command'[c].kind = command[c].kind
    /\ ~Fresh(c) => command'[c].status # "new"
    /\ Done(c) => command'[c].status = command[c].status
    /\ command[c].notified => command'[c].notified

(* The steps that change no command and no list of commands. *)
Quiet(p) ==
  /\ UNCHANGED <<created, command>>
  /\ pc[p] # "append" /\ Alone(p)
  /\ my'[p].cmd \in {my[p].cmd, None}
  /\ \A q \in Queues :
       /\ queue'[q].fifo = queue[q].fifo /\ queue'[q].batch = queue[q].batch
       /\ queue'[q].order = queue[q].order /\ my'[q].taken = my[q].taken
       /\ \/ queue'[q].last \in {queue[q].last, None}
          \/ /\ queue'[q].last \in Commands /\ ~Fresh(queue'[q].last)
             /\ command[queue'[q].last].queue = q
  /\ \A c \in handles' \ handles : ~Fresh(c)

(* What another thread has in its hands. *)
LEMMA HandKept ==
  ASSUME InvOrder, Typed', Steady, NEW p \in Threads, Alone(p), created <= created',
         NEW u \in Threads, u # p,
         pc[u] = "append" => Fresh(my[u].cmd)' /\ my'[p].cmd # my[u].cmd
  PROVE  HandOf(u)'
<1> Typed /\ HandOf(u) BY DEF InvOrder, HandInv
<1> USE CommandFacts, Fields
<1>1. my'[u] = my[u] BY DEF Alone
<1>2. \/ pc'[u] = pc[u]
      \/ pc[u] = "waiting" /\ pc'[u] = "sleep"
      \/ pc[u] = "asleep" /\ pc'[u] = "recheck"
  BY DEF Alone
<1>3. created \in Int /\ created' \in Int /\ Commands \subseteq Int BY DEF Typed, Commands
<1>4. pc[u] \in InEnqueue => /\ my[u].cmd \in AllCommands
                             /\ command'[my[u].cmd].queue = command[my[u].cmd].queue
                             /\ command'[my[u].cmd].kind = command[my[u].cmd].kind
  BY DEF HandOf, InEnqueue, Appending, Steady
<1>5. pc'[u] \in InEnqueue =>
       /\ my'[u].cmd \in AllCommands /\ command'[my'[u].cmd].queue \in Queues
       /\ my'[u].cmd \in Commands =>
            /\ u \in Clients /\ my'[u].event = None /\ my'[u].cmd <= created'
            /\ command'[my'[u].cmd].kind \in {"user", "finish"}
            /\ command'[my'[u].cmd].queue \in Streams[u]
       /\ my'[u].cmd \notin Commands =>
            /\ command'[my'[u].cmd].kind = "notify" /\ my'[u].event # None
            /\ my'[u].cmd = NotifyMarker(my'[u].event) /\ command'[my'[u].event].notified
  <2>1. pc'[u] \in InEnqueue => pc[u] \in InEnqueue BY <1>2 DEF InEnqueue, Appending
  <2>2. my[u].event # None => my[u].event \in AllCommands OBVIOUS
  <2>3. my[u].event # None => (command[my[u].event].notified => command'[my[u].event].notified)
    BY <2>2 DEF Steady
  <2>4. pc'[u] \in InEnqueue /\ my[u].cmd \notin Commands =>
          my[u].event # None /\ command'[my[u].event].notified
    BY <2>1, <2>3, Zenon DEF HandOf
  <2>5. pc[u] \in InEnqueue =>
          /\ my[u].cmd \in AllCommands /\ command'[my[u].cmd].queue \in Queues
          /\ my[u].cmd \in Commands =>
               /\ u \in Clients /\ my[u].event = None /\ my[u].cmd <= created'
               /\ command'[my[u].cmd].kind \in {"user", "finish"}
               /\ command'[my[u].cmd].queue \in Streams[u]
          /\ my[u].cmd \notin Commands =>
               command'[my[u].cmd].kind = "notify" /\ my[u].cmd = NotifyMarker(my[u].event)
    <3>1. pc[u] \in InEnqueue /\ my[u].cmd \in Commands => my[u].cmd <= created'
      <4>1. pc[u] \in InEnqueue /\ my[u].cmd \in Commands => my[u].cmd <= created BY Zenon DEF HandOf
      <4>2. my[u].cmd \in Commands => my[u].cmd \in Int BY <1>3
      <4> QED BY <1>3, <4>1, <4>2
    <3> QED BY <1>4, <3>1, Zenon DEF HandOf
  <2> QED BY <1>1, <2>1, <2>4, <2>5, Zenon
<1>6. pc'[u] = "append" => /\ Fresh(my[u].cmd)'
                           /\ \A r \in Threads : my'[r].cmd = my'[u].cmd => r = u
  <2> SUFFICES ASSUME pc'[u] = "append" PROVE /\ Fresh(my[u].cmd)'
                           /\ \A r \in Threads : my'[r].cmd = my'[u].cmd => r = u
    OBVIOUS
  <2>1. pc[u] = "append" BY <1>2
  <2> QED BY <1>1, <2>1 DEF HandOf, Alone
<1>7. pc'[u] \in InEnqueue \ {"append"} => command'[my[u].cmd].status # "new"
  BY <1>2, <1>4 DEF HandOf, Steady, InEnqueue, Appending, Fresh
<1>8. my[u].event # None => command'[my[u].event].status # "new" BY DEF HandOf, Steady, Fresh
<1>9. pc'[u] = "awaited" => command'[my[u].event].status \in {"complete", "error"}
  BY <1>2 DEF HandOf, Steady, Done
<1>10. pc'[u] = "signal" => my[u].cmd # None /\ command'[my[u].cmd].status \in {"complete", "error"}
  BY <1>2 DEF HandOf, Steady, Done
<1> QED BY <1>1, <1>2, <1>5, <1>6, <1>7, <1>8, <1>9, <1>10 DEF HandOf, Done, Fresh, InEnqueue, Appending

(* The history of a queue, in every step but that of append(). *)
LEMMA OrderKept ==
  ASSUME InvOrder, Typed', Steady, NEW q \in Queues,
         queue'[q].order = queue[q].order,
         \A c \in AllCommands : Fresh(c) /\ command'[c].status # "new" => command'[c].queue # q
  PROVE  OrderOf(q)'
<1> Typed /\ CommandInv /\ OrderOf(q) BY DEF InvOrder, OrderInv
<1> USE CommandFacts, Fields
<1> DEFINE S == queue[q].order
<1>1. \A i \in DOMAIN S : S[i] \in AllCommands OBVIOUS
<1>2. ASSUME NEW i \in DOMAIN S
      PROVE  /\ command'[S[i]].status # "new" /\ command'[S[i]].queue = q
             /\ \A j \in DOMAIN S : S[i] = S[j] => i = j
             /\ \A e \in command'[S[i]].waits :
                  command'[e].queue = q => \E j \in 1..i - 1 : S[j] = e
  <2>1. ~Fresh(S[i]) /\ command[S[i]].queue = q BY DEF OrderOf
  <2>2. /\ command'[S[i]].status # "new" /\ command'[S[i]].queue = q
        /\ command'[S[i]].waits = command[S[i]].waits
    BY <1>1, <2>1 DEF Steady
  <2>3. \A e \in command[S[i]].waits : command'[e].queue = command[e].queue BY <1>1 DEF CommandInv, Steady
  <2> QED BY <2>2, <2>3 DEF OrderOf
<1>3. ASSUME NEW c \in AllCommands, command'[c].status # "new", command'[c].queue = q
      PROVE  \E i \in DOMAIN S : S[i] = c
  BY <1>3 DEF Steady, OrderOf
<1> QED
  <2> HIDE DEF S
  <2>1. queue'[q].order = S BY DEF S
  <2> QED BY <1>2, <1>3, <2>1 DEF OrderOf, Fresh

(* The parts of the history of a queue. *)
LEMMA Places ==
  ASSUME Typed, NEW q \in Queues, Past(q) \in Nat
  PROVE  /\ Rest(q) \in Nat /\ Len(queue[q].order) \in Nat
         /\ Len(queue[q].fifo) \in Nat /\ Len(queue[q].batch) \in Nat
         /\ DOMAIN queue[q].order = 1..Len(queue[q].order)
         /\ DOMAIN queue[q].fifo = 1..Len(queue[q].fifo)
         /\ DOMAIN queue[q].batch = 1..Len(queue[q].batch)
         /\ Rest(q) + Len(queue[q].fifo) = Len(queue[q].order)
         /\ my[q].taken = None => Past(q) + Len(queue[q].batch) = Rest(q)
         /\ my[q].taken # None => Past(q) + Len(queue[q].batch) + 1 = Rest(q)
         /\ \A i \in DOMAIN queue[q].fifo : Rest(q) + i \in DOMAIN queue[q].order
         /\ my[q].taken # None => Rest(q) \in DOMAIN queue[q].order
         /\ \A i \in DOMAIN queue[q].batch : Past(q) + i \in DOMAIN queue[q].order
         /\ \A i \in 1..Past(q) : i \in DOMAIN queue[q].order
<1>1. /\ Len(queue[q].order) \in Nat /\ Len(queue[q].fifo) \in Nat /\ Len(queue[q].batch) \in Nat
      /\ DOMAIN queue[q].order = 1..Len(queue[q].order)
      /\ DOMAIN queue[q].fifo = 1..Len(queue[q].fifo)
      /\ DOMAIN queue[q].batch = 1..Len(queue[q].batch)
  BY Fields
<1> DEFINE L == Len(queue[q].order)
           F == Len(queue[q].fifo)
           B == Len(queue[q].batch)
           k == IF my[q].taken = None THEN 0 ELSE 1
<1>2. L \in Nat /\ F \in Nat /\ B \in Nat /\ k \in {0, 1} /\ L - F - k - B \in Nat BY <1>1 DEF Rest, Past
<1>3. Rest(q) = L - F /\ Past(q) = L - F - k - B BY DEF Rest, Past
<1>4. my[q].taken = None <=> k = 0 OBVIOUS
<1> HIDE DEF L, F, B, k
<1>5. /\ L - F \in Nat /\ L - F + F = L
      /\ k = 0 => L - F - k - B + B = L - F
      /\ k # 0 => L - F - k - B + B + 1 = L - F
      /\ \A i \in 1..F : L - F + i \in 1..L
      /\ k # 0 => L - F \in 1..L
      /\ \A i \in 1..B : L - F - k - B + i \in 1..L
      /\ \A i \in 1..(L - F - k - B) : i \in 1..L
  BY <1>2
<1> QED BY <1>1, <1>3, <1>4, <1>5, Zenon DEF L, F, B

(* The lists of a queue, in the steps that do not touch them. *)
LEMMA QueueKept ==
  ASSUME InvOrder, Typed', Steady, NEW q \in Queues,
         queue'[q].fifo = queue[q].fifo, queue'[q].batch = queue[q].batch,
         queue'[q].order = queue[q].order, my'[q].taken = my[q].taken,
         \A c \in AllCommands : ~Fresh(c) /\ command[c].queue = q =>
           command'[c].status = command[c].status
  PROVE  QueueOf(q)'
<1> Typed /\ CommandInv /\ OrderOf(q) /\ QueueOf(q) BY DEF InvOrder, OrderInv, QueueInv
<1> USE CommandFacts, Fields
<1>1. Rest(q)' = Rest(q) /\ Past(q)' = Past(q) BY DEF Rest, Past
<1>2. ASSUME NEW i \in DOMAIN queue[q].order
      PROVE  /\ command'[queue[q].order[i]].status = command[queue[q].order[i]].status
             /\ command'[queue[q].order[i]].waits = command[queue[q].order[i]].waits
             /\ \A e \in command[queue[q].order[i]].waits :
                  /\ command'[e].queue = command[e].queue
                  /\ Done(e) => command'[e].status = command[e].status
  BY DEF OrderOf, Steady, CommandInv
<1>4. Past(q) \in Nat BY DEF QueueOf
<1>5. /\ \A i \in DOMAIN queue[q].fifo : Rest(q) + i \in DOMAIN queue[q].order
      /\ my[q].taken # None => Rest(q) \in DOMAIN queue[q].order
      /\ \A i \in DOMAIN queue[q].batch : Past(q) + i \in DOMAIN queue[q].order
      /\ \A i \in 1..Past(q) : i \in DOMAIN queue[q].order
  BY <1>4, Places
<1>6. ASSUME NEW i \in DOMAIN queue[q].fifo
      PROVE  /\ queue[q].fifo[i] = queue[q].order[Rest(q) + i]
             /\ command'[queue[q].fifo[i]].status = "queued"
  <2>1. /\ queue[q].fifo[i] = queue[q].order[Rest(q) + i]
        /\ command[queue[q].fifo[i]].status = "queued"
    BY DEF QueueOf
  <2>2. Rest(q) + i \in DOMAIN queue[q].order BY <1>5
  <2>3. command'[queue[q].order[Rest(q) + i]].status = command[queue[q].order[Rest(q) + i]].status
    BY <1>2, <2>2
  <2> QED BY <2>1, <2>3
<1>7. my[q].taken # None => /\ my[q].taken = queue[q].order[Rest(q)]
                            /\ command'[my[q].taken].status = "queued"
  BY <1>2, <1>5 DEF QueueOf
<1>8. ASSUME NEW i \in DOMAIN queue[q].batch
      PROVE  /\ queue[q].batch[i] = queue[q].order[Past(q) + i]
             /\ command'[queue[q].batch[i]].status \in {"submitted", "complete", "error"}
             /\ i > 1 => ~(command'[queue[q].batch[i]].status \in {"complete", "error"})
             /\ command'[queue[q].batch[i]].status = "submitted" =>
                  \A e \in command'[queue[q].batch[i]].waits :
                    command'[e].queue # q => command'[e].status = "complete"
  <2>1. /\ queue[q].batch[i] = queue[q].order[Past(q) + i]
        /\ Past(q) + i \in DOMAIN queue[q].order
    BY <1>5 DEF QueueOf
  <2>2. /\ command'[queue[q].batch[i]].status = command[queue[q].batch[i]].status
        /\ command'[queue[q].batch[i]].waits = command[queue[q].batch[i]].waits
        /\ \A e \in command[queue[q].batch[i]].waits :
             /\ command'[e].queue = command[e].queue
             /\ Done(e) => command'[e].status = command[e].status
    BY <1>2, <2>1, Zenon
  <2>3. /\ command[queue[q].batch[i]].status \in {"submitted", "complete", "error"}
        /\ i > 1 => ~(command[queue[q].batch[i]].status \in {"complete", "error"})
        /\ command[queue[q].batch[i]].status = "submitted" =>
             \A e \in command[queue[q].batch[i]].waits :
               command[e].queue # q => command[e].status = "complete"
    BY DEF QueueOf, Done
  <2> QED BY <2>1, <2>2, <2>3 DEF Done
<1>9. \A i \in 1..Past(q) : command'[queue[q].order[i]].status \in {"complete", "error"}
  BY <1>2, <1>5 DEF QueueOf, Done
<1> QED
  <2>1. /\ \A i \in DOMAIN queue'[q].fifo :
             /\ queue'[q].fifo[i] = queue'[q].order[Rest(q)' + i]
             /\ command'[queue'[q].fifo[i]].status = "queued"
        /\ my'[q].taken # None => /\ my'[q].taken = queue'[q].order[Rest(q)']
                                  /\ command'[my'[q].taken].status = "queued"
    BY <1>1, <1>6, <1>7, Zenon
  <2>2. \A i \in DOMAIN queue'[q].batch :
             /\ queue'[q].batch[i] = queue'[q].order[Past(q)' + i]
             /\ command'[queue'[q].batch[i]].status \in {"submitted", "complete", "error"}
             /\ i > 1 => ~(command'[queue'[q].batch[i]].status \in {"complete", "error"})
             /\ command'[queue'[q].batch[i]].status = "submitted" =>
                  \A e \in command'[queue'[q].batch[i]].waits :
                    command'[e].queue # q => command'[e].status = "complete"
    <3>1. queue'[q].batch = queue[q].batch /\ queue'[q].order = queue[q].order OBVIOUS
    <3> QED BY <1>1, <1>8, <3>1
  <2>3. Past(q)' \in Nat /\ \A i \in 1..Past(q)' : Done(queue[q].order[i])' BY <1>1, <1>4, <1>9 DEF Done
  <2> QED BY <2>1, <2>2, <2>3 DEF QueueOf, Done

(* A worker, in the steps of others. *)
LEMMA WorkerKept ==
  ASSUME InvOrder, Typed', Steady, NEW p \in Threads, Alone(p),
         NEW q \in Queues, q # p, queue'[q].batch = queue[q].batch
  PROVE  WorkerOf(q)'
<1> Typed /\ CommandInv /\ HandOf(q) /\ OrderOf(q) /\ QueueOf(q) /\ WorkerOf(q)
  BY CommandFacts DEF InvOrder, HandInv, OrderInv, QueueInv, WorkerInv
<1> USE CommandFacts, Fields
<1>1. /\ my'[q] = my[q]
      /\ \/ pc'[q] = pc[q]
         \/ pc[q] = "waiting" /\ pc'[q] = "sleep"
         \/ pc[q] = "asleep" /\ pc'[q] = "recheck"
  BY DEF Alone
<1>2. my[q].taken # None =>
        /\ my[q].taken \in AllCommands
        /\ command'[my[q].taken].waits = command[my[q].taken].waits
        /\ \A e \in command[my[q].taken].waits :
             /\ command'[e].queue = command[e].queue
             /\ Done(e) => command'[e].status = command[e].status
  <2>1. my[q].taken # None => my[q].taken \in AllCommands /\ ~Fresh(my[q].taken) BY DEF QueueOf, Fresh
  <2> QED BY <2>1 DEF Steady, CommandInv
<1>3. pc[q] = "signal" => command'[my[q].cmd].status = command[my[q].cmd].status BY DEF HandOf, Steady
<1>4. pc[q] = "signal" <=> pc'[q] = "signal" BY <1>1
<1>5. \A e \in AllCommands : command[e].status \in {"complete", "error"} <=> Done(e) BY DEF Done
<1>6. my[q].event # None => my[q].taken # None BY DEF WorkerOf
<1>7. /\ pc'[q] \in {"dequeue", "recheck", "asleep", "exited", "events", "flushBatch", "signal",
                     "await", "sleep", "waiting", "awaited"} \cup InEnqueue
      /\ pc'[q] \in {"dequeue", "recheck", "asleep", "exited"} => my'[q].taken = None
      /\ pc'[q] \in {"dequeue", "recheck", "asleep", "exited", "events"} => my'[q].event = None
      /\ pc'[q] = "events" => my'[q].taken # None
      /\ my'[q].event = None <=> (my'[q].taken = None \/ pc'[q] = "events")
      /\ pc'[q] \in {"await", "sleep", "waiting", "awaited"} \cup InEnqueue =>
           queue'[q].batch = <<>>
  BY <1>1 DEF WorkerOf, InEnqueue, Appending
<1>8. my'[q].event # None => /\ my'[q].event \in command'[my'[q].taken].waits
                             /\ command'[my'[q].event].queue # q
  BY <1>1, <1>2, <1>6 DEF WorkerOf
<1>9. pc'[q] = "signal" =>
       /\ command'[my'[q].cmd].status = "error" => my'[q].taken = None
       /\ command'[my'[q].cmd].status = "complete" =>
            queue'[q].batch # <<>> /\ Head(queue'[q].batch) = my'[q].cmd
  BY <1>1, <1>3, <1>4 DEF WorkerOf
<1>10. my'[q].taken # None =>
       /\ my'[q].todo \subseteq command'[my'[q].taken].waits
       /\ \A e \in command'[my'[q].taken].waits \ (my'[q].todo \cup {my'[q].event}) :
            command'[e].queue # q =>
              Done(e)' /\ (my'[q].failed \/ command'[e].status = "complete")
       /\ my'[q].failed => /\ queue'[q].batch = <<>>
                           /\ \E e \in command'[my'[q].taken].waits :
                                command'[e].queue # q /\ command'[e].status = "error"
  BY <1>1, <1>2, <1>5 DEF WorkerOf, Done
<1> QED BY <1>7, <1>8, <1>9, <1>10 DEF WorkerOf

(* A step that changes no command is judged by what its own thread does. *)
LEMMA QuietStep ==
  ASSUME InvOrder, Typed', NEW p \in Threads, Quiet(p), HandOf(p)',
         p \in Queues => WorkerOf(p)'
  PROVE  InvOrder'
<1> Typed /\ CommandInv /\ HandInv /\ OrderInv /\ QueueInv /\ WorkerInv BY DEF InvOrder
<1> USE CommandFacts, Fields
<1>1. Steady /\ Alone(p) /\ created' = created /\ command' = command BY DEF Quiet, Steady, Fresh, Done
<1>3. CommandInv'
  <2>1. ASSUME NEW c \in Commands, c <= created, Fresh(c)
        PROVE  \E t \in Clients : pc'[t] = "append" /\ my'[t].cmd = c
    <3>1. PICK t \in Clients : pc[t] = "append" /\ my[t].cmd = c BY <2>1 DEF CommandInv
    <3>2. t \in Threads /\ t # p BY <3>1 DEF Quiet
    <3> QED BY <1>1, <3>1, <3>2 DEF Alone
  <2>2. \A c \in handles' : ~Fresh(c) BY DEF Quiet, CommandInv
  <2>3. \A q \in Queues : queue'[q].last # None => /\ queue'[q].last \in Commands
                                                   /\ ~Fresh(queue'[q].last)
                                                   /\ command[queue'[q].last].queue = q
    BY DEF Quiet, CommandInv
  <2>4. \A c \in Commands :
         /\ c > created => Fresh(c) /\ command[c].queue = None
         /\ command[c].kind # "notify"
         /\ ~command[c].notified => Fresh(NotifyMarker(c))
    BY Zenon DEF CommandInv
  <2>5. \A c \in AllCommands :
         /\ c \notin Commands => command[c].kind \in {"user", "notify"}
         /\ command[c].kind = "userEvent" => command[c].queue = None /\ ~Fresh(c)
         /\ \A e \in command[c].waits : ~Fresh(e)
    BY Zenon DEF CommandInv
  <2>6. \A c : Fresh(c)' <=> Fresh(c) BY <1>1 DEF Fresh
  <2> QED BY <1>1, <2>1, <2>2, <2>3, <2>4, <2>5, <2>6, Zenon DEF CommandInv
<1>4. HandInv'
  <2> SUFFICES ASSUME NEW u \in Threads, u # p PROVE HandOf(u)' BY DEF HandInv
  <2>1. pc[u] = "append" => Fresh(my[u].cmd) BY DEF HandInv, HandOf
  <2>2. Fresh(my[u].cmd)' <=> Fresh(my[u].cmd)
    <3>1. my'[u] = my[u] BY <1>1 DEF Alone
    <3> QED BY <1>1, <3>1 DEF Fresh
  <2>3. pc[u] = "append" => my'[p].cmd # my[u].cmd
    <3>1. pc[u] = "append" => my[u].cmd \in AllCommands /\ my[u].cmd # my[p].cmd
      BY DEF HandInv, HandOf, InEnqueue, Appending
    <3> QED BY <3>1 DEF Quiet
  <2>4. created <= created' BY <1>1 DEF Typed
  <2> QED BY <1>1, <2>1, <2>2, <2>3, <2>4, HandKept
<1>5. OrderInv'
  <2> SUFFICES ASSUME NEW q \in Queues PROVE OrderOf(q)' BY DEF OrderInv
  <2>1. \A c \in AllCommands : ~(Fresh(c) /\ command'[c].status # "new") BY <1>1 DEF Fresh
  <2> QED BY <1>1, <2>1, OrderKept DEF Quiet
<1>6. QueueInv'
  <2> SUFFICES ASSUME NEW q \in Queues PROVE QueueOf(q)' BY DEF QueueInv
  <2> QED BY <1>1, QueueKept DEF Quiet
<1>7. WorkerInv'
  <2> SUFFICES ASSUME NEW q \in Queues, q # p PROVE WorkerOf(q)' BY DEF WorkerInv
  <2> QED BY <1>1, WorkerKept DEF Quiet
<1> QED BY <1>3, <1>4, <1>5, <1>6, <1>7 DEF InvOrder

----------------------------------------
(* A quiet step that leaves its own thread as it should be. *)
Calm(p) == Typed' /\ Quiet(p) /\ HandOf(p)' /\ (p \in Queues => WorkerOf(p)')

(* Where a thread goes, and whom it may wake on the way. *)
LEMMA GotoFacts ==
  ASSUME pc \in [Threads -> Labels], NEW p \in Threads, NEW label \in Labels, Goto(p, label)
  PROVE  /\ pc' \in [Threads -> Labels] /\ pc'[p] = label
         /\ \A u \in Threads \ {p} : pc'[u] = pc[u]
BY DEF Goto

(* notify() moves its own thread, and at most one sleeping worker. *)
LEMMA NotifyFacts ==
  ASSUME pc \in [Threads -> Labels], NEW p \in Threads, NEW q \in Queues,
         NEW label \in Labels \ {"asleep"}, Notify(q, p, label)
  PROVE  /\ pc' \in [Threads -> Labels] /\ pc'[p] = label
         /\ \A u \in Threads \ {p} : \/ pc'[u] = pc[u]
                                     \/ pc[u] = "asleep" /\ pc'[u] = "recheck"
         /\ pc'[q] # "asleep"
<1>1. q \in Threads /\ "recheck" \in Labels BY CommandFacts DEF Labels
<1>2. \A u \in Threads : pc'[u] = IF u = p THEN label
                                  ELSE IF u = q /\ pc[u] = "asleep" THEN "recheck" ELSE pc[u]
  BY DEF Notify
<1>3. pc' \in [Threads -> Labels] BY <1>1 DEF Notify
<1> QED BY <1>1, <1>2, <1>3

(* What the updates of a queue leave alone. *)
LEMMA QueueFields ==
  ASSUME NEW r \in QueueObject
  PROVE  /\ \A c \in AllCommands \cup {None} :
              /\ [r EXCEPT !.last = c] \in QueueObject
              /\ [r EXCEPT !.last = c].fifo = r.fifo /\ [r EXCEPT !.last = c].batch = r.batch
              /\ [r EXCEPT !.last = c].order = r.order /\ [r EXCEPT !.last = c].last = c
              /\ [r EXCEPT !.last = c].accepting = r.accepting
         /\ /\ [r EXCEPT !.accepting = FALSE] \in QueueObject
            /\ [r EXCEPT !.accepting = FALSE].fifo = r.fifo
            /\ [r EXCEPT !.accepting = FALSE].batch = r.batch
            /\ [r EXCEPT !.accepting = FALSE].order = r.order
            /\ [r EXCEPT !.accepting = FALSE].last = r.last
            /\ ~[r EXCEPT !.accepting = FALSE].accepting
         /\ \A s \in Seq(AllCommands) :
              /\ [r EXCEPT !.batch = s] \in QueueObject
              /\ [r EXCEPT !.batch = s].fifo = r.fifo /\ [r EXCEPT !.batch = s].batch = s
              /\ [r EXCEPT !.batch = s].order = r.order /\ [r EXCEPT !.batch = s].last = r.last
              /\ [r EXCEPT !.batch = s].accepting = r.accepting
              /\ [r EXCEPT !.fifo = s] \in QueueObject
              /\ [r EXCEPT !.fifo = s].fifo = s /\ [r EXCEPT !.fifo = s].batch = r.batch
              /\ [r EXCEPT !.fifo = s].order = r.order /\ [r EXCEPT !.fifo = s].last = r.last
              /\ [r EXCEPT !.fifo = s].accepting = r.accepting
BY DEF QueueObject

(* A queue is replaced; the others stay. *)
LEMMA QueuePut ==
  ASSUME Typed, NEW q \in Queues, NEW r \in QueueObject, queue' = [queue EXCEPT ![q] = r]
  PROVE  /\ queue' \in [Queues -> QueueObject] /\ queue'[q] = r
         /\ \A x \in Queues \ {q} : queue'[x] = queue[x]
BY DEF Typed

(* A new last command changes nothing else of a queue. *)
LEMMA WithLast ==
  ASSUME Typed, NEW q \in Queues, NEW c \in AllCommands \cup {None},
         queue' = [queue EXCEPT ![q].last = c]
  PROVE  /\ queue' \in [Queues -> QueueObject] /\ queue'[q].last = c
         /\ \A x \in Queues : /\ x # q => queue'[x] = queue[x]
                              /\ queue'[x].fifo = queue[x].fifo
                              /\ queue'[x].batch = queue[x].batch
                              /\ queue'[x].order = queue[x].order
                              /\ queue'[x].accepting = queue[x].accepting
<1>1. queue' = [queue EXCEPT ![q] = [queue[q] EXCEPT !.last = c]] OBVIOUS
<1>2. queue[q] \in QueueObject BY DEF Typed
<1> DEFINE r == [queue[q] EXCEPT !.last = c]
<1>3. r \in QueueObject /\ r.last = c /\ r.fifo = queue[q].fifo /\ r.batch = queue[q].batch
      /\ r.order = queue[q].order /\ r.accepting = queue[q].accepting
  BY <1>2, QueueFields
<1>4. queue' = [queue EXCEPT ![q] = r] BY <1>1
<1> HIDE DEF r
<1> QED BY <1>3, <1>4, QueuePut

(* A new batch changes nothing else of a queue. *)
LEMMA WithBatch ==
  ASSUME Typed, NEW q \in Queues, NEW s \in Seq(AllCommands),
         queue' = [queue EXCEPT ![q].batch = s]
  PROVE  /\ queue' \in [Queues -> QueueObject] /\ queue'[q].batch = s
         /\ \A x \in Queues : /\ x # q => queue'[x] = queue[x]
                              /\ queue'[x].fifo = queue[x].fifo
                              /\ queue'[x].last = queue[x].last
                              /\ queue'[x].order = queue[x].order
                              /\ queue'[x].accepting = queue[x].accepting
<1>1. queue' = [queue EXCEPT ![q] = [queue[q] EXCEPT !.batch = s]] OBVIOUS
<1>2. queue[q] \in QueueObject BY DEF Typed
<1> DEFINE r == [queue[q] EXCEPT !.batch = s]
<1>3. r \in QueueObject /\ r.batch = s /\ r.fifo = queue[q].fifo /\ r.last = queue[q].last
      /\ r.order = queue[q].order /\ r.accepting = queue[q].accepting
  BY <1>2, QueueFields
<1>4. queue' = [queue EXCEPT ![q] = r] BY <1>1
<1> HIDE DEF r
<1> QED BY <1>3, <1>4, QueuePut

(* A thread makes its command the last one. *)
LEMMA SwapLastCalm == ASSUME InvOrder, NEW p \in Threads, SwapLast(p) PROVE Calm(p)
<1> Typed /\ HandOf(p) BY DEF InvOrder, HandInv
<1> USE CommandFacts, Fields
<1> DEFINE c == my[p].cmd
           q == command[c].queue
<1>1. /\ pc[p] = "swapLast" /\ my' = [my EXCEPT ![p].prev = queue[q].last]
      /\ queue' = [queue EXCEPT ![q].last = c] /\ Goto(p, "dropLast")
      /\ UNCHANGED <<created, command, handles, active>>
  BY DEF SwapLast
<1>2. c \in Commands /\ c \in AllCommands /\ q \in Queues /\ ~Fresh(c) /\ p \in Clients
  BY <1>1 DEF HandOf, InEnqueue, Appending
<1> HIDE DEF c, q
<1>3. /\ pc' \in [Threads -> Labels] /\ pc'[p] = "dropLast"
      /\ \A u \in Threads \ {p} : pc'[u] = pc[u]
  BY <1>1, GotoFacts DEF Labels, Typed
<1>4. queue[q].last \in AllCommands \cup {None} BY <1>2
<1>5. /\ my' \in [Threads -> Locals] /\ my'[p].cmd = my[p].cmd /\ my'[p].event = my[p].event
      /\ my'[p].op = my[p].op /\ my'[p].on = my[p].on
      /\ my'[p].taken = my[p].taken
      /\ \A u \in Threads \ {p} : my'[u] = my[u]
  BY <1>1, <1>4 DEF Typed, Locals
<1>6. /\ queue' \in [Queues -> QueueObject]
      /\ \A r \in Queues : /\ queue'[r].fifo = queue[r].fifo /\ queue'[r].batch = queue[r].batch
                           /\ queue'[r].order = queue[r].order
                           /\ r # q => queue'[r].last = queue[r].last
      /\ queue'[q].last = c
  <2>1. queue' = [queue EXCEPT ![q].last = c] /\ c \in AllCommands \cup {None} /\ q \in Queues
    BY <1>1, <1>2
  <2> QED BY <2>1, WithLast
<1>7. Typed' BY <1>1, <1>3, <1>5, <1>6 DEF Typed
<1>8. Alone(p) BY <1>3, <1>5 DEF Alone
<1>9. Quiet(p) BY <1>1, <1>2, <1>5, <1>6, <1>8 DEF Quiet, c, q
<1>10. HandOf(p)' BY <1>1, <1>2, <1>3, <1>5 DEF HandOf, InEnqueue, Appending, c, Fresh, Done
<1> QED BY <1>2, <1>7, <1>9, <1>10 DEF Calm

(* A thread drops the command that was the last one before. *)
LEMMA DropLastCalm == ASSUME InvOrder, NEW p \in Threads, DropLast(p) PROVE Calm(p)
<1> Typed /\ HandOf(p) /\ (p \in Queues => WorkerOf(p)) BY DEF InvOrder, HandInv, WorkerInv
<1> USE CommandFacts, Fields
<1>1. /\ pc[p] = "dropLast" /\ my' = [my EXCEPT ![p].prev = None] /\ Goto(p, "flush")
      /\ active' \in {active, active \cup {command[my[p].cmd].queue}}
      /\ UNCHANGED <<created, command, handles, queue>>
  BY DEF DropLast
<1>2. my[p].cmd \in AllCommands /\ command[my[p].cmd].queue \in Queues
  BY <1>1 DEF HandOf, InEnqueue, Appending
<1>3. /\ pc' \in [Threads -> Labels] /\ pc'[p] = "flush"
      /\ \A u \in Threads \ {p} : pc'[u] = pc[u]
  BY <1>1, GotoFacts DEF Labels, Typed
<1>4. /\ my' \in [Threads -> Locals] /\ my'[p].cmd = my[p].cmd /\ my'[p].event = my[p].event
      /\ my'[p].op = my[p].op /\ my'[p].on = my[p].on
      /\ my'[p].taken = my[p].taken /\ my'[p].todo = my[p].todo /\ my'[p].failed = my[p].failed
      /\ \A u \in Threads \ {p} : my'[u] = my[u]
  BY <1>1 DEF Typed, Locals
<1>5. active' \subseteq Queues BY <1>1, <1>2 DEF Typed
<1>6. Typed' BY <1>1, <1>3, <1>4, <1>5 DEF Typed
<1>7. Quiet(p) BY <1>1, <1>3, <1>4 DEF Quiet, Alone
<1>8. HandOf(p)' BY <1>1, <1>2, <1>3, <1>4 DEF HandOf, InEnqueue, Appending, Fresh, Done
<1>9. p \in Queues => WorkerOf(p)' BY <1>1, <1>3, <1>4 DEF WorkerOf, InEnqueue, Appending, Done
<1> QED BY <1>6, <1>7, <1>8, <1>9 DEF Calm

(* Steps that change the locals of a thread, and where it is. *)
LEMMA LocalStep ==
  ASSUME Typed, NEW p \in Threads, NEW label \in Labels, pc[p] # "append", Goto(p, label),
         UNCHANGED <<created, command, queue>>,
         handles' \subseteq Commands, \A c \in handles' \ handles : ~Fresh(c),
         active' \subseteq Queues,
         my' \in [Threads -> Locals], \A u \in Threads \ {p} : my'[u] = my[u],
         my'[p].cmd \in {my[p].cmd, None}, my'[p].taken = my[p].taken
  PROVE  Typed' /\ Quiet(p) /\ pc'[p] = label
<1>1. /\ pc' \in [Threads -> Labels] /\ pc'[p] = label
      /\ \A u \in Threads \ {p} : pc'[u] = pc[u]
  BY GotoFacts DEF Typed
<1>2. Alone(p) BY <1>1 DEF Alone
<1>3. \A q \in Queues : my'[q].taken = my[q].taken BY CommandFacts
<1>4. Quiet(p) BY <1>2, <1>3 DEF Quiet
<1>5. Typed' BY <1>1 DEF Typed
<1> QED BY <1>1, <1>4, <1>5

(* Steps that only move a thread. *)
LEMMA Move ==
  ASSUME Typed, NEW p \in Threads, NEW label \in Labels, pc[p] # "append", Goto(p, label),
         UNCHANGED <<created, command, handles, queue, active, my>>
  PROVE  Typed' /\ Quiet(p) /\ pc'[p] = label
<1>1. /\ handles' \subseteq Commands /\ \A c \in handles' \ handles : ~Fresh(c)
      /\ active' \subseteq Queues /\ my' \in [Threads -> Locals]
      /\ \A u \in Threads \ {p} : my'[u] = my[u]
      /\ my'[p].cmd \in {my[p].cmd, None} /\ my'[p].taken = my[p].taken
  BY DEF Typed
<1> QED BY <1>1, LocalStep

(* The event of a wait is done. *)
LEMMA FindDoneCalm == ASSUME InvOrder, NEW p \in Threads, FindDone(p) PROVE Calm(p)
<1> Typed /\ HandOf(p) /\ (p \in Queues => WorkerOf(p)) BY DEF InvOrder, HandInv, WorkerInv
<1>1. /\ pc[p] \in {"await", "sleep"} /\ Done(my[p].event) /\ Goto(p, "awaited")
      /\ UNCHANGED <<created, command, handles, queue, active, my>>
  BY DEF FindDone
<1>2. Typed' /\ Quiet(p) /\ pc'[p] = "awaited" BY <1>1, Move DEF Labels
<1>3. HandOf(p)' BY <1>1, <1>2 DEF HandOf, InEnqueue, Appending, Fresh, Done
<1>4. p \in Queues => WorkerOf(p)' BY <1>1, <1>2 DEF WorkerOf, InEnqueue, Appending, Done
<1> QED BY <1>2, <1>3, <1>4 DEF Calm

(* notifyCmdQueue() when the queue was told already, or there is none. *)
LEMMA NotifyCalm ==
  ASSUME InvOrder, NEW p \in Threads, NotifyCmdQueue(p),
         ~(command[my[p].event].queue # None /\ ~command[my[p].event].notified)
  PROVE  Calm(p)
<1> Typed /\ HandOf(p) /\ (p \in Queues => WorkerOf(p)) BY DEF InvOrder, HandInv, WorkerInv
<1>1. /\ pc[p] = "await" /\ Goto(p, "sleep")
      /\ UNCHANGED <<created, command, handles, queue, active, my>>
  BY Zenon DEF NotifyCmdQueue
<1>2. Typed' /\ Quiet(p) /\ pc'[p] = "sleep" BY <1>1, Move DEF Labels
<1>3. HandOf(p)' BY <1>1, <1>2 DEF HandOf, InEnqueue, Appending, Fresh, Done
<1>4. p \in Queues => WorkerOf(p)' BY <1>1, <1>2 DEF WorkerOf, InEnqueue, Appending, Done
<1> QED BY <1>2, <1>3, <1>4 DEF Calm

(* A thread waits for its event. *)
LEMMA SleepCalm == ASSUME InvOrder, NEW p \in Threads, Sleep(p) PROVE Calm(p)
<1> Typed /\ HandOf(p) /\ (p \in Queues => WorkerOf(p)) BY DEF InvOrder, HandInv, WorkerInv
<1>1. /\ pc[p] = "sleep" /\ Goto(p, "waiting")
      /\ UNCHANGED <<created, command, handles, queue, active, my>>
  BY DEF Sleep
<1>2. Typed' /\ Quiet(p) /\ pc'[p] = "waiting" BY <1>1, Move DEF Labels
<1>3. HandOf(p)' BY <1>1, <1>2 DEF HandOf, InEnqueue, Appending, Fresh, Done
<1>4. p \in Queues => WorkerOf(p)' BY <1>1, <1>2 DEF WorkerOf, InEnqueue, Appending, Done
<1> QED BY <1>2, <1>3, <1>4 DEF Calm

(* A worker finds its queue empty, and waits or leaves. *)
LEMMA FindNothingCalm == ASSUME InvOrder, NEW q \in Queues, FindNothing(q) PROVE Calm(q)
<1> q \in Threads BY CommandFacts
<1> Typed /\ HandOf(q) /\ WorkerOf(q) BY DEF InvOrder, HandInv, WorkerInv
<1>1. PICK label \in {"recheck", "asleep", "exited"} : Goto(q, label) BY DEF FindNothing
<1>2. /\ pc[q] \in {"dequeue", "recheck"}
      /\ UNCHANGED <<created, command, handles, queue, active, my>>
  BY DEF FindNothing
<1>3. Typed' /\ Quiet(q) /\ pc'[q] = label BY <1>1, <1>2, Move DEF Labels
<1>4. HandOf(q)' BY <1>2, <1>3 DEF HandOf, InEnqueue, Appending, Fresh, Done
<1>5. WorkerOf(q)' BY <1>2, <1>3 DEF WorkerOf, InEnqueue, Appending, Done
<1> QED BY <1>3, <1>4, <1>5 DEF Calm

(* The batch is empty, and the worker goes on. *)
LEMMA BatchFlushedCalm == ASSUME InvOrder, NEW q \in Queues, BatchFlushed(q) PROVE Calm(q)
<1> q \in Threads BY CommandFacts
<1> Typed /\ HandOf(q) /\ WorkerOf(q) BY DEF InvOrder, HandInv, WorkerInv
<1>1. PICK label \in {"await", "dequeue"} :
        Goto(q, label) /\ (label = "await" <=> my[q].event # None)
  BY DEF BatchFlushed
<1>2. /\ pc[q] = "flushBatch" /\ queue[q].batch = <<>>
      /\ UNCHANGED <<created, command, handles, queue, active, my>>
  BY DEF BatchFlushed
<1>3. Typed' /\ Quiet(q) /\ pc'[q] = label BY <1>1, <1>2, Move DEF Labels
<1>4. HandOf(q)' BY <1>1, <1>2, <1>3 DEF HandOf, InEnqueue, Appending, Fresh, Done
<1>5. WorkerOf(q)' BY <1>1, <1>2, <1>3 DEF WorkerOf, InEnqueue, Appending, Done
<1> QED BY <1>3, <1>4, <1>5 DEF Calm

(* notifyCmdQueue() drops its marker. *)
LEMMA DropMarkerCalm == ASSUME InvOrder, NEW p \in Threads, DropMarker(p) PROVE Calm(p)
<1> Typed /\ HandOf(p) /\ (p \in Queues => WorkerOf(p)) BY DEF InvOrder, HandInv, WorkerInv
<1>1. /\ pc[p] = "dropMarker" /\ my' = [my EXCEPT ![p].cmd = None] /\ Goto(p, "sleep")
      /\ UNCHANGED <<created, command, handles, queue, active>>
  BY DEF DropMarker
<1>2. /\ my' \in [Threads -> Locals] /\ my'[p].cmd = None /\ my'[p].event = my[p].event
      /\ my'[p].op = my[p].op /\ my'[p].on = my[p].on
      /\ my'[p].taken = my[p].taken /\ my'[p].todo = my[p].todo /\ my'[p].failed = my[p].failed
      /\ \A u \in Threads \ {p} : my'[u] = my[u]
  BY <1>1 DEF Typed, Locals
<1>3. Typed' /\ Quiet(p) /\ pc'[p] = "sleep"
  <2>1. /\ handles' \subseteq Commands /\ \A c \in handles' \ handles : ~Fresh(c)
        /\ active' \subseteq Queues /\ pc[p] # "append" /\ "sleep" \in Labels
    BY <1>1 DEF Typed, Labels
  <2> QED BY <1>1, <1>2, <2>1, LocalStep
<1>4. my[p].event # None BY <1>1 DEF HandOf, InEnqueue
<1>5. HandOf(p)' BY <1>1, <1>2, <1>3, <1>4 DEF HandOf, InEnqueue, Appending, Fresh, Done
<1>6. p \in Queues => WorkerOf(p)' BY <1>1, <1>2, <1>3, <1>4 DEF WorkerOf, InEnqueue, Appending, Done
<1> QED BY <1>3, <1>5, <1>6 DEF Calm

(* flush() notifies the worker, and enqueue() returns. *)
LEMMA FlushCalm == ASSUME InvOrder, NEW p \in Threads, Flush(p) PROVE Calm(p)
<1> Typed /\ HandOf(p) /\ (p \in Queues => WorkerOf(p)) BY DEF InvOrder, HandInv, WorkerInv
<1> DEFINE c == my[p].cmd
           q == command[c].queue
<1>1. /\ pc[p] = "flush" /\ c \in AllCommands /\ q \in Queues /\ ~Fresh(c)
      /\ UNCHANGED <<created, command, queue, active>>
  BY DEF Flush, HandOf, InEnqueue, Appending
<1>2. c \in Commands => p \in Clients /\ my[p].event = None /\ command[c].kind \in {"user", "finish"}
  BY <1>1 DEF HandOf, InEnqueue, Appending
<1>3. c \notin Commands => command[c].kind = "notify" /\ my[p].event # None
  BY <1>1 DEF HandOf, InEnqueue, Appending
<1>4. PICK label \in {"idle", "dropMarker", "await"} :
        /\ Notify(q, p, label)
        /\ label = "idle" => /\ command[c].kind = "user" /\ handles' = handles \cup {c}
                             /\ my' = [my EXCEPT ![p].cmd = None]
        /\ label = "dropMarker" => command[c].kind = "notify" /\ UNCHANGED <<handles, my>>
        /\ label = "await" => /\ command[c].kind = "finish" /\ UNCHANGED handles
                              /\ my' = [my EXCEPT ![p].cmd = None, ![p].event = c]
  BY DEF Flush
<1> HIDE DEF c, q
<1>5. /\ pc' \in [Threads -> Labels] /\ pc'[p] = label
      /\ \A u \in Threads \ {p} : pc'[u] = pc[u] \/ (pc[u] = "asleep" /\ pc'[u] = "recheck")
  <2>1. Notify(q, p, label) /\ label \in Labels \ {"asleep"} /\ pc \in [Threads -> Labels]
    BY <1>4 DEF Labels, Typed
  <2> QED BY <1>1, <2>1, NotifyFacts
<1>6. c \in Commands <=> label # "dropMarker" BY <1>2, <1>3, <1>4
<1>7. /\ my' \in [Threads -> Locals]
      /\ my'[p].op = my[p].op /\ my'[p].on = my[p].on
      /\ my'[p].taken = my[p].taken /\ my'[p].todo = my[p].todo /\ my'[p].failed = my[p].failed
      /\ \A u \in Threads \ {p} : my'[u] = my[u]
      /\ label = "idle" => my'[p].cmd = None /\ my'[p].event = my[p].event
      /\ label = "dropMarker" => my'[p].cmd = my[p].cmd /\ my'[p].event = my[p].event
      /\ label = "await" => my'[p].cmd = None /\ my'[p].event = c
  <2>1. CASE label = "idle"
    <3>1. my' = [my EXCEPT ![p].cmd = None] BY <1>4, <2>1
    <3> QED BY <2>1, <3>1 DEF Typed, Locals
  <2>2. CASE label = "dropMarker" BY <1>4, <2>2 DEF Typed
  <2>3. CASE label = "await"
    <3>1. my' = [my EXCEPT ![p] = [my[p] EXCEPT !.cmd = None, !.event = c]] BY <1>4, <2>3
    <3>2. c \in Commands BY <1>6, <2>3
    <3>3. my[p] \in Locals BY DEF Typed
    <3> DEFINE r == [my[p] EXCEPT !.cmd = None, !.event = c]
    <3>4. /\ r \in Locals /\ r.cmd = None /\ r.event = c
          /\ r.op = my[p].op /\ r.on = my[p].on
          /\ r.taken = my[p].taken /\ r.todo = my[p].todo /\ r.failed = my[p].failed
      BY <3>2, <3>3 DEF Locals
    <3>5. my' = [my EXCEPT ![p] = r] BY <3>1
    <3> HIDE DEF r
    <3>6. my' \in [Threads -> Locals] /\ my'[p] = r /\ \A u \in Threads \ {p} : my'[u] = my[u]
      BY <3>4, <3>5 DEF Typed
    <3> QED BY <2>3, <3>4, <3>6
  <2> QED BY <1>4, <2>1, <2>2, <2>3
<1>8. Alone(p) /\ my'[p].cmd \in {my[p].cmd, None} BY <1>4, <1>5, <1>7 DEF Alone
<1>9. handles' \subseteq Commands /\ \A d \in handles' \ handles : ~Fresh(d) BY <1>1, <1>4, <1>6 DEF Typed
<1>10. Typed' BY <1>1, <1>5, <1>7, <1>9 DEF Typed
<1>11. Quiet(p)
  <2>1. \A x \in Queues : my'[x].taken = my[x].taken BY <1>7, CommandFacts
  <2> QED BY <1>1, <1>8, <1>9, <2>1 DEF Quiet
<1>12. HandOf(p)'
  <2>1. command' = command /\ created' = created BY <1>1
  <2>2. CASE label = "dropMarker"
    <3>1. /\ my'[p].cmd = my[p].cmd /\ my'[p].event = my[p].event /\ pc'[p] = "dropMarker"
          /\ my'[p].op = my[p].op /\ my'[p].on = my[p].on
      BY <1>5, <1>7, <2>2
    <3>2. my[p].cmd \notin Commands BY <1>6, <2>2 DEF c
    <3> QED BY <1>1, <2>1, <3>1, <3>2 DEF HandOf, InEnqueue, Appending, Fresh, Done
  <2>3. CASE label # "dropMarker"
    <3>1. /\ my'[p].cmd = None /\ pc'[p] \in {"idle", "await"} /\ pc'[p] = label
          /\ my'[p].op = my[p].op /\ my'[p].on = my[p].on
      BY <1>4, <1>5, <1>7, <2>3
    <3>2. my'[p].event # None => ~Fresh(my'[p].event) BY <1>1, <1>4, <1>7, <2>3 DEF HandOf
    <3>3. label = "await" => my'[p].event # None BY <1>1, <1>7, CommandFacts
    <3>4. my'[p].op \in {"finish", "terminate"} => my'[p].on \in Queues BY <3>1 DEF HandOf
    <3>5. label = "idle" => my'[p].event = None BY <1>2, <1>6, <1>7
    <3> QED BY <2>1, <3>1, <3>2, <3>3, <3>4, <3>5 DEF HandOf, InEnqueue, Appending, Fresh, Done
  <2> QED BY <2>2, <2>3
<1>13. p \in Queues => WorkerOf(p)'
  <2> SUFFICES ASSUME p \in Queues PROVE WorkerOf(p)' OBVIOUS
  <2>1. label = "dropMarker" BY <1>2, <1>6, CommandFacts
  <2>2. /\ pc'[p] = "dropMarker" /\ my'[p].event = my[p].event /\ my'[p].cmd = my[p].cmd
        /\ my'[p].op = my[p].op /\ my'[p].on = my[p].on
        /\ my'[p].taken = my[p].taken /\ my'[p].todo = my[p].todo /\ my'[p].failed = my[p].failed
    BY <1>5, <1>7, <2>1
  <2> QED BY <1>1, <2>2 DEF WorkerOf, InEnqueue, Appending, Done
<1> QED BY <1>10, <1>11, <1>12, <1>13 DEF Calm

(* The worker looks at one more event of the wait list. *)
LEMMA NextEventCalm == ASSUME InvOrder, NEW q \in Queues, NextEvent(q) PROVE Calm(q)
<1> q \in Threads BY CommandFacts
<1> Typed /\ HandOf(q) /\ WorkerOf(q) /\ CommandInv /\ QueueOf(q)
  BY DEF InvOrder, HandInv, WorkerInv, QueueInv
<1>1. PICK e \in my[q].todo :
        IF Satisfied(q, e)
          THEN my' = [my EXCEPT ![q].todo = @ \ {e}] /\ UNCHANGED pc
          ELSE my' = [my EXCEPT ![q].todo = @ \ {e}, ![q].event = e] /\ Goto(q, "flushBatch")
  BY DEF NextEvent
<1>2. pc[q] = "events" /\ UNCHANGED <<created, command, handles, queue, active>> BY DEF NextEvent
<1>3. /\ my[q].todo \subseteq Commands /\ e \in Commands /\ my[q].event = None
      /\ my[q].taken # None /\ my[q].cmd = None /\ my[q].taken \in AllCommands
      /\ e \in command[my[q].taken].waits /\ ~Fresh(e)
  <2>1. my[q].todo \subseteq Commands /\ my[q].taken \in AllCommands \cup {None} BY Fields
  <2>2. /\ my[q].event = None /\ my[q].taken # None /\ my[q].cmd = None
        /\ my[q].todo \subseteq command[my[q].taken].waits
    BY <1>2 DEF WorkerOf, HandOf, InEnqueue, Appending
  <2> QED BY <2>1, <2>2, CommandFacts DEF CommandInv
<1>4. Satisfied(q, e) <=> command[e].queue = q \/ command[e].status = "complete" BY DEF Satisfied
<1>5. PICK label \in Labels : Goto(q, label) /\ label = (IF Satisfied(q, e) THEN "events" ELSE "flushBatch")
  <2>1. CASE Satisfied(q, e) BY <1>1, <1>2, <2>1 DEF Goto, Labels, Typed
  <2>2. CASE ~Satisfied(q, e) BY <1>1, <2>2 DEF Labels
  <2> QED BY <2>1, <2>2
<1>6. /\ my' \in [Threads -> Locals] /\ my'[q].cmd = my[q].cmd /\ my'[q].failed = my[q].failed
      /\ my'[q].op = my[q].op /\ my'[q].on = my[q].on
      /\ my'[q].taken = my[q].taken /\ my'[q].todo = my[q].todo \ {e}
      /\ my'[q].event = (IF Satisfied(q, e) THEN None ELSE e)
      /\ \A u \in Threads \ {q} : my'[u] = my[u]
  <2> DEFINE rest == my[q].todo \ {e}
  <2>1. rest \subseteq Commands BY <1>3
  <2>2. CASE Satisfied(q, e)
    <3>1. my' = [my EXCEPT ![q].todo = rest] BY <1>1, <2>2
    <3> HIDE DEF rest
    <3>2. /\ my' \in [Threads -> Locals] /\ my'[q].cmd = my[q].cmd /\ my'[q].failed = my[q].failed
          /\ my'[q].op = my[q].op /\ my'[q].on = my[q].on
          /\ my'[q].taken = my[q].taken /\ my'[q].todo = rest /\ my'[q].event = my[q].event
          /\ \A u \in Threads \ {q} : my'[u] = my[u]
      BY <2>1, <3>1 DEF Typed, Locals
    <3> QED BY <1>3, <2>2, <3>2 DEF rest
  <2>3. CASE ~Satisfied(q, e)
    <3> DEFINE r == [my[q] EXCEPT !.todo = rest, !.event = e]
    <3>1. my' = [my EXCEPT ![q] = r] BY <1>1, <2>3
    <3>2. my[q] \in Locals BY DEF Typed
    <3> HIDE DEF rest
    <3>3. /\ r \in Locals /\ r.cmd = my[q].cmd /\ r.failed = my[q].failed
          /\ r.op = my[q].op /\ r.on = my[q].on
          /\ r.taken = my[q].taken /\ r.todo = rest /\ r.event = e
      BY <1>3, <2>1, <3>2 DEF Locals
    <3> HIDE DEF r
    <3>4. my' \in [Threads -> Locals] /\ my'[q] = r /\ \A u \in Threads \ {q} : my'[u] = my[u]
      BY <3>1, <3>3 DEF Typed
    <3> QED BY <2>3, <3>3, <3>4 DEF rest
  <2> QED BY <2>2, <2>3
<1>7. Typed' /\ Quiet(q) /\ pc'[q] = label
  <2>1. /\ handles' \subseteq Commands /\ \A c \in handles' \ handles : ~Fresh(c)
        /\ active' \subseteq Queues /\ pc[q] # "append"
    BY <1>2 DEF Typed
  <2>2. UNCHANGED <<created, command, queue>> /\ my'[q].cmd \in {my[q].cmd, None} BY <1>2, <1>6
  <2> QED BY <1>5, <1>6, <2>1, <2>2, LocalStep
<1>8. HandOf(q)' BY <1>2, <1>3, <1>5, <1>6, <1>7 DEF HandOf, InEnqueue, Appending, Fresh, Done
<1>9. WorkerOf(q)'
  <2>1. \A d \in command[my[q].taken].waits \ my[q].todo :
          command[d].queue # q => Done(d) /\ (my[q].failed \/ command[d].status = "complete")
    BY <1>3, CommandFacts, Fields DEF WorkerOf
  <2>2. my[q].todo \subseteq command[my[q].taken].waits BY <1>3 DEF WorkerOf
  <2>3. my[q].failed => /\ queue[q].batch = <<>>
                        /\ \E d \in command[my[q].taken].waits :
                             command[d].queue # q /\ command[d].status = "error"
    BY <1>3 DEF WorkerOf
  <2>4. \A d : Done(d)' <=> Done(d) BY <1>2 DEF Done
  <2>5. CASE Satisfied(q, e)
    <3>1. pc'[q] = "events" /\ my'[q].event = None BY <1>5, <1>6, <1>7, <2>5
    <3>2. \A d \in command[my[q].taken].waits \ (my'[q].todo \cup {my'[q].event}) :
            command[d].queue # q => Done(d) /\ (my[q].failed \/ command[d].status = "complete")
      BY <1>4, <1>6, <2>1, <2>5 DEF Done
    <3> QED BY <1>2, <1>3, <1>6, <2>2, <2>3, <2>4, <3>1, <3>2 DEF WorkerOf, InEnqueue, Appending
  <2>6. CASE ~Satisfied(q, e)
    <3>1. pc'[q] = "flushBatch" /\ my'[q].event = e /\ e # None /\ command[e].queue # q
      BY <1>3, <1>4, <1>5, <1>6, <1>7, <2>6, CommandFacts
    <3>2. \A d \in command[my[q].taken].waits \ (my'[q].todo \cup {my'[q].event}) :
            command[d].queue # q => Done(d) /\ (my[q].failed \/ command[d].status = "complete")
      BY <1>6, <2>1, <3>1
    <3> QED BY <1>2, <1>3, <1>6, <2>2, <2>3, <2>4, <3>1, <3>2 DEF WorkerOf, InEnqueue, Appending
  <2> QED BY <2>5, <2>6
<1> QED BY <1>7, <1>8, <1>9 DEF Calm

(* The worker has awaited an event, which may have failed. *)
LEMMA EventAwaitedCalm == ASSUME InvOrder, NEW q \in Queues, EventAwaited(q) PROVE Calm(q)
<1> q \in Threads BY CommandFacts
<1> Typed /\ HandOf(q) /\ WorkerOf(q) /\ CommandInv BY DEF InvOrder, HandInv, WorkerInv
<1> DEFINE e == my[q].event
           failed == my[q].failed \/ command[e].status # "complete"
<1>1. /\ pc[q] = "awaited" /\ Goto(q, "events")
      /\ my' = [my EXCEPT ![q].failed = my[q].failed \/ command[e].status # "complete",
                          ![q].event = None]
      /\ UNCHANGED <<created, command, handles, queue, active>>
  BY DEF EventAwaited
<1>2. /\ e # None /\ my[q].taken # None /\ my[q].cmd = None /\ Done(e)
      /\ e \in command[my[q].taken].waits /\ command[e].queue # q
      /\ queue[q].batch = <<>>
  BY <1>1 DEF WorkerOf, HandOf, InEnqueue, Appending
<1>3. /\ my' \in [Threads -> Locals] /\ my'[q].cmd = my[q].cmd /\ my'[q].event = None
      /\ my'[q].op = my[q].op /\ my'[q].on = my[q].on
      /\ my'[q].taken = my[q].taken /\ my'[q].todo = my[q].todo
      /\ my'[q].failed <=> failed
      /\ \A u \in Threads \ {q} : my'[u] = my[u]
  <2> DEFINE r == [my[q] EXCEPT !.failed = failed, !.event = None]
  <2>1. my' = [my EXCEPT ![q] = r] BY <1>1
  <2>2. my[q] \in Locals /\ failed \in BOOLEAN BY DEF Typed
  <2> HIDE DEF failed
  <2>3. /\ r \in Locals /\ r.cmd = my[q].cmd /\ r.event = None
        /\ r.op = my[q].op /\ r.on = my[q].on
        /\ r.taken = my[q].taken /\ r.todo = my[q].todo /\ r.failed = failed
    BY <2>2 DEF Locals
  <2> HIDE DEF r
  <2>4. my' \in [Threads -> Locals] /\ my'[q] = r /\ \A u \in Threads \ {q} : my'[u] = my[u]
    BY <2>1, <2>3 DEF Typed
  <2> QED BY <2>3, <2>4
<1>4. Typed' /\ Quiet(q) /\ pc'[q] = "events"
  <2>1. /\ handles' \subseteq Commands /\ \A c \in handles' \ handles : ~Fresh(c)
        /\ active' \subseteq Queues /\ pc[q] # "append" /\ "events" \in Labels
    BY <1>1 DEF Typed, Labels
  <2>2. UNCHANGED <<created, command, queue>> /\ my'[q].cmd \in {my[q].cmd, None} BY <1>1, <1>3
  <2> QED BY <1>1, <1>3, <2>1, <2>2, LocalStep
<1>5. HandOf(q)' BY <1>1, <1>2, <1>3, <1>4 DEF HandOf, InEnqueue, Appending, Fresh, Done
<1>6. WorkerOf(q)'
  <2>1. \A d \in command[my[q].taken].waits \ my[q].todo :
          command[d].queue # q => Done(d) /\ (failed \/ command[d].status = "complete")
    BY <1>2, CommandFacts, Fields DEF WorkerOf
  <2>2. my[q].todo \subseteq command[my[q].taken].waits BY <1>2 DEF WorkerOf
  <2>3. failed => \E d \in command[my[q].taken].waits :
                    command[d].queue # q /\ command[d].status = "error"
    <3>1. my[q].failed => \E d \in command[my[q].taken].waits :
                            command[d].queue # q /\ command[d].status = "error"
      BY <1>2 DEF WorkerOf
    <3>2. command[e].status # "complete" => command[e].status = "error" BY <1>2 DEF Done
    <3> QED BY <1>2, <3>1, <3>2
  <2>4. \A d : Done(d)' <=> Done(d) BY <1>1 DEF Done
  <2> HIDE DEF failed
  <2> QED BY <1>1, <1>2, <1>3, <1>4, <2>1, <2>2, <2>3, <2>4 DEF WorkerOf, InEnqueue, Appending
<1> QED BY <1>4, <1>5, <1>6 DEF Calm

(* The steps of clients: they have no command that they took. *)
LEMMA ClientCalm ==
  ASSUME NEW t \in Clients, Typed', Quiet(t), HandOf(t)'
  PROVE  Calm(t)
BY CommandFacts DEF Calm

(* awaitCompletion() returns to the application. *)
LEMMA AwaitReturnsCalm == ASSUME InvOrder, NEW t \in Clients, AwaitReturns(t) PROVE Calm(t)
<1> t \in Threads BY CommandFacts
<1> Typed /\ HandOf(t) BY DEF InvOrder, HandInv
<1>1. /\ pc[t] = "awaited" /\ Goto(t, "idle")
      /\ my' = [my EXCEPT ![t].op = "none", ![t].event = None]
      /\ UNCHANGED <<created, command, handles, queue, active>>
  BY DEF AwaitReturns
<1>2. my[t].cmd = None BY <1>1 DEF HandOf, InEnqueue, Appending
<1>3. /\ my' \in [Threads -> Locals] /\ my'[t].cmd = my[t].cmd /\ my'[t].event = None
      /\ my'[t].op = "none"
      /\ my'[t].taken = my[t].taken
      /\ \A u \in Threads \ {t} : my'[u] = my[u]
  <2> DEFINE r == [my[t] EXCEPT !.op = "none", !.event = None]
  <2>1. my' = [my EXCEPT ![t] = r] /\ my[t] \in Locals BY <1>1 DEF Typed
  <2>2. r \in Locals /\ r.op = "none" /\ r.cmd = my[t].cmd /\ r.event = None /\ r.taken = my[t].taken
    BY <2>1 DEF Locals
  <2> HIDE DEF r
  <2>3. my' \in [Threads -> Locals] /\ my'[t] = r /\ \A u \in Threads \ {t} : my'[u] = my[u]
    BY <2>1, <2>2 DEF Typed
  <2> QED BY <2>2, <2>3
<1>4. Typed' /\ Quiet(t) /\ pc'[t] = "idle"
  <2>1. /\ handles' \subseteq Commands /\ \A c \in handles' \ handles : ~Fresh(c)
        /\ active' \subseteq Queues /\ pc[t] # "append" /\ "idle" \in Labels
    BY <1>1 DEF Typed, Labels
  <2> QED BY <1>1, <1>3, <2>1, LocalStep
<1>5. HandOf(t)' BY <1>2, <1>3, <1>4 DEF HandOf, InEnqueue, Appending
<1> QED BY <1>4, <1>5, ClientCalm

(* The application awaits an event. *)
LEMMA AwaitCalm ==
  ASSUME InvOrder, NEW t \in Clients, NEW c \in handles, Await(t, c)
  PROVE  Calm(t)
<1> t \in Threads BY CommandFacts
<1> Typed /\ HandOf(t) /\ CommandInv BY DEF InvOrder, HandInv
<1>1. /\ pc[t] = "idle" /\ Goto(t, "await")
      /\ my' = [my EXCEPT ![t].op = "await", ![t].event = c]
      /\ UNCHANGED <<created, command, handles, queue, active>>
  BY DEF Await
<1>2. my[t].cmd = None /\ c \in Commands /\ ~Fresh(c) /\ c # None
  BY <1>1, CommandFacts DEF HandOf, InEnqueue, Appending, CommandInv, Typed
<1>3. /\ my' \in [Threads -> Locals] /\ my'[t].cmd = my[t].cmd /\ my'[t].event = c
      /\ my'[t].op = "await"
      /\ my'[t].taken = my[t].taken
      /\ \A u \in Threads \ {t} : my'[u] = my[u]
  <2> DEFINE r == [my[t] EXCEPT !.op = "await", !.event = c]
  <2>1. my' = [my EXCEPT ![t] = r] /\ my[t] \in Locals BY <1>1 DEF Typed
  <2>2. r \in Locals /\ r.op = "await" /\ r.cmd = my[t].cmd /\ r.event = c /\ r.taken = my[t].taken
    BY <1>2, <2>1 DEF Locals
  <2> HIDE DEF r
  <2>3. my' \in [Threads -> Locals] /\ my'[t] = r /\ \A u \in Threads \ {t} : my'[u] = my[u]
    BY <2>1, <2>2 DEF Typed
  <2> QED BY <2>2, <2>3
<1>4. Typed' /\ Quiet(t) /\ pc'[t] = "await"
  <2>1. /\ handles' \subseteq Commands /\ \A d \in handles' \ handles : ~Fresh(d)
        /\ active' \subseteq Queues /\ pc[t] # "append" /\ "await" \in Labels
    BY <1>1 DEF Typed, Labels
  <2> QED BY <1>1, <1>3, <2>1, LocalStep
<1>5. HandOf(t)' BY <1>1, <1>2, <1>3, <1>4 DEF HandOf, InEnqueue, Appending, Fresh
<1> QED BY <1>4, <1>5, ClientCalm

(* The application releases an event. *)
LEMMA ReleaseHandleCalm ==
  ASSUME InvOrder, NEW t \in Clients, NEW c \in handles, ReleaseHandle(t, c)
  PROVE  Calm(t)
<1> t \in Threads BY CommandFacts
<1> Typed /\ HandOf(t) BY DEF InvOrder, HandInv
<1>1. /\ pc[t] = "idle" /\ handles' = handles \ {c}
      /\ UNCHANGED <<created, command, queue, active, pc, my>>
  BY DEF ReleaseHandle
<1>2. Typed' /\ Quiet(t) /\ pc'[t] = "idle"
  <2>1. /\ handles' \subseteq Commands /\ \A d \in handles' \ handles : ~Fresh(d)
        /\ active' \subseteq Queues /\ pc[t] # "append" /\ "idle" \in Labels
    BY <1>1 DEF Typed, Labels
  <2>2. Goto(t, "idle") BY <1>1 DEF Goto, Typed
  <2>3. /\ my' \in [Threads -> Locals] /\ my'[t].cmd \in {my[t].cmd, None}
        /\ my'[t].taken = my[t].taken /\ \A u \in Threads \ {t} : my'[u] = my[u]
    BY <1>1 DEF Typed
  <2> QED BY <1>1, <2>1, <2>2, <2>3, LocalStep
<1>3. HandOf(t)' BY <1>1, <1>2 DEF HandOf, InEnqueue, Appending, Fresh, Done
<1> QED BY <1>2, <1>3, ClientCalm

(* finish() or terminate() returns to the application. *)
LEMMA FinishReturnsCalm == ASSUME InvOrder, NEW t \in Clients, FinishReturns(t) PROVE Calm(t)
<1> t \in Threads BY CommandFacts
<1> Typed /\ HandOf(t) BY DEF InvOrder, HandInv
<1>1. /\ pc[t] = "finished" /\ Goto(t, "idle")
      /\ my' = [my EXCEPT ![t].op = "none", ![t].on = None, ![t].due = {}]
      /\ UNCHANGED <<created, command, handles, queue, active>>
  BY DEF FinishReturns
<1>2. my[t].cmd = None BY <1>1 DEF HandOf, InEnqueue, Appending
<1>3. /\ my' \in [Threads -> Locals] /\ my'[t].cmd = my[t].cmd /\ my'[t].event = my[t].event
      /\ my'[t].op = "none"
      /\ my'[t].taken = my[t].taken
      /\ \A u \in Threads \ {t} : my'[u] = my[u]
  <2> DEFINE r == [my[t] EXCEPT !.op = "none", !.on = None, !.due = {}]
  <2>1. my' = [my EXCEPT ![t] = r] /\ my[t] \in Locals BY <1>1 DEF Typed
  <2>2. r \in Locals /\ r.op = "none" /\ r.cmd = my[t].cmd /\ r.event = my[t].event /\ r.taken = my[t].taken
    BY <2>1 DEF Locals
  <2> HIDE DEF r
  <2>3. my' \in [Threads -> Locals] /\ my'[t] = r /\ \A u \in Threads \ {t} : my'[u] = my[u]
    BY <2>1, <2>2 DEF Typed
  <2> QED BY <2>2, <2>3
<1>4. Typed' /\ Quiet(t) /\ pc'[t] = "idle"
  <2>1. /\ handles' \subseteq Commands /\ \A c \in handles' \ handles : ~Fresh(c)
        /\ active' \subseteq Queues /\ pc[t] # "append" /\ "idle" \in Labels
    BY <1>1 DEF Typed, Labels
  <2> QED BY <1>1, <1>3, <2>1, LocalStep
<1>5. HandOf(t)' BY <1>1, <1>2, <1>3, <1>4 DEF HandOf, InEnqueue, Appending, Fresh
<1> QED BY <1>4, <1>5, ClientCalm

(* terminate() drops the marker that it awaited. *)
LEMMA DropFinalMarkerCalm ==
  ASSUME InvOrder, NEW t \in Clients, DropFinalMarker(t) PROVE Calm(t)
<1> t \in Threads BY CommandFacts
<1> Typed /\ HandOf(t) BY DEF InvOrder, HandInv
<1>1. /\ pc[t] = "awaited" /\ my[t].op = "terminate"
      /\ Goto(t, "stop") /\ my' = [my EXCEPT ![t].event = None]
      /\ UNCHANGED <<created, command, handles, queue, active>>
  BY DEF DropFinalMarker
<1>2. my[t].cmd = None BY <1>1 DEF HandOf, InEnqueue, Appending
<1>3. /\ my' \in [Threads -> Locals] /\ my'[t].cmd = my[t].cmd /\ my'[t].event = None
      /\ my'[t].op = my[t].op /\ my'[t].on = my[t].on
      /\ my'[t].taken = my[t].taken
      /\ \A u \in Threads \ {t} : my'[u] = my[u]
  BY <1>1 DEF Typed, Locals
<1>4. Typed' /\ Quiet(t) /\ pc'[t] = "stop"
  <2>1. /\ handles' \subseteq Commands /\ \A c \in handles' \ handles : ~Fresh(c)
        /\ active' \subseteq Queues /\ pc[t] # "append" /\ "stop" \in Labels
    BY <1>1 DEF Typed, Labels
  <2> QED BY <1>1, <1>3, <2>1, LocalStep
<1>5. HandOf(t)' BY <1>1, <1>2, <1>3, <1>4 DEF HandOf, InEnqueue, Appending
<1> QED BY <1>4, <1>5, ClientCalm

(* The worker of the terminated queue has left. *)
LEMMA JoinCalm == ASSUME InvOrder, NEW t \in Clients, Join(t) PROVE Calm(t)
<1> t \in Threads BY CommandFacts
<1> Typed /\ HandOf(t) BY DEF InvOrder, HandInv
<1>1. /\ pc[t] = "join" /\ Goto(t, "finished") /\ active' = active \ {my[t].on}
      /\ UNCHANGED <<created, command, handles, queue, my>>
  BY DEF Join
<1>2. Typed' /\ Quiet(t) /\ pc'[t] = "finished"
  <2>1. /\ handles' \subseteq Commands /\ \A c \in handles' \ handles : ~Fresh(c)
        /\ active' \subseteq Queues /\ pc[t] # "append" /\ "finished" \in Labels
    BY <1>1 DEF Typed, Labels
  <2>2. /\ my' \in [Threads -> Locals] /\ my'[t].cmd \in {my[t].cmd, None}
        /\ my'[t].taken = my[t].taken /\ \A u \in Threads \ {t} : my'[u] = my[u]
    BY <1>1 DEF Typed
  <2> QED BY <1>1, <2>1, <2>2, LocalStep
<1>3. HandOf(t)' BY <1>1, <1>2 DEF HandOf, InEnqueue, Appending, Fresh, Done
<1> QED BY <1>2, <1>3, ClientCalm

(* finish() clears the last command that it awaited. *)
LEMMA ClearLastCalm == ASSUME InvOrder, NEW t \in Clients, ClearLast(t) PROVE Calm(t)
<1> t \in Threads BY CommandFacts
<1> Typed /\ HandOf(t) BY DEF InvOrder, HandInv
<1> DEFINE q == my[t].on
<1>1. /\ pc[t] = "awaited" /\ my[t].op = "finish" /\ Goto(t, "finished")
      /\ my' = [my EXCEPT ![t].event = None]
      /\ \/ queue' = [queue EXCEPT ![q].last = None] /\ active' = active \ {q}
         \/ UNCHANGED <<queue, active>>
      /\ UNCHANGED <<created, command, handles>>
  BY DEF ClearLast
<1>2. my[t].cmd = None /\ q \in Queues BY <1>1 DEF HandOf, InEnqueue, Appending
<1> HIDE DEF q
<1>3. /\ my' \in [Threads -> Locals] /\ my'[t].cmd = my[t].cmd /\ my'[t].event = None
      /\ my'[t].op = my[t].op /\ my'[t].on = my[t].on
      /\ my'[t].taken = my[t].taken
      /\ \A u \in Threads \ {t} : my'[u] = my[u]
  BY <1>1 DEF Typed, Locals
<1>4. /\ pc' \in [Threads -> Labels] /\ pc'[t] = "finished"
      /\ \A u \in Threads \ {t} : pc'[u] = pc[u]
  BY <1>1, GotoFacts DEF Labels, Typed
<1>5. /\ queue' \in [Queues -> QueueObject]
      /\ \A x \in Queues : /\ queue'[x].fifo = queue[x].fifo /\ queue'[x].batch = queue[x].batch
                           /\ queue'[x].order = queue[x].order
                           /\ queue'[x].last \in {queue[x].last, None}
  <2>1. CASE queue' = [queue EXCEPT ![q].last = None] BY <1>2, <2>1, WithLast
  <2>2. CASE queue' = queue BY <2>2 DEF Typed
  <2> QED BY <1>1, <2>1, <2>2
<1>6. Typed' BY <1>1, <1>3, <1>4, <1>5 DEF Typed
<1>7. Quiet(t)
  <2>1. \A x \in Queues : my'[x].taken = my[x].taken BY <1>3, CommandFacts
  <2>2. Alone(t) BY <1>3, <1>4 DEF Alone
  <2> QED BY <1>1, <1>3, <1>5, <2>1, <2>2 DEF Quiet
<1>8. HandOf(t)' BY <1>1, <1>2, <1>3, <1>4 DEF HandOf, InEnqueue, Appending, q
<1> QED BY <1>6, <1>7, <1>8, ClientCalm

(* A queue that stops changes in nothing else. *)
LEMMA WithAccepting ==
  ASSUME Typed, NEW q \in Queues, queue' = [queue EXCEPT ![q].accepting = FALSE]
  PROVE  /\ queue' \in [Queues -> QueueObject] /\ ~queue'[q].accepting
         /\ \A x \in Queues : /\ x # q => queue'[x] = queue[x]
                              /\ queue'[x].fifo = queue[x].fifo
                              /\ queue'[x].batch = queue[x].batch
                              /\ queue'[x].order = queue[x].order
                              /\ queue'[x].last = queue[x].last
<1>1. queue' = [queue EXCEPT ![q] = [queue[q] EXCEPT !.accepting = FALSE]] OBVIOUS
<1>2. queue[q] \in QueueObject BY DEF Typed
<1> DEFINE r == [queue[q] EXCEPT !.accepting = FALSE]
<1>3. r \in QueueObject /\ r.batch = queue[q].batch /\ r.fifo = queue[q].fifo
      /\ r.last = queue[q].last /\ r.order = queue[q].order /\ ~r.accepting
  BY <1>2, QueueFields
<1>4. queue' = [queue EXCEPT ![q] = r] BY <1>1
<1> HIDE DEF r
<1>5. /\ queue' \in [Queues -> QueueObject] /\ queue'[q] = r
      /\ \A x \in Queues \ {q} : queue'[x] = queue[x]
  BY <1>3, <1>4, QueuePut
<1> QED BY <1>3, <1>5

(* terminate() tells the worker to leave. *)
LEMMA StopCalm == ASSUME InvOrder, NEW t \in Clients, Stop(t) PROVE Calm(t)
<1> t \in Threads BY CommandFacts
<1> Typed /\ HandOf(t) BY DEF InvOrder, HandInv
<1> DEFINE q == my[t].on
<1>1. /\ pc[t] = "stop" /\ Notify(q, t, "join")
      /\ queue' = [queue EXCEPT ![q].accepting = FALSE]
      /\ UNCHANGED <<created, command, handles, active, my>>
  BY DEF Stop
<1>2. my[t].cmd = None /\ q \in Queues BY <1>1 DEF HandOf, InEnqueue, Appending
<1> HIDE DEF q
<1>3. /\ pc' \in [Threads -> Labels] /\ pc'[t] = "join"
      /\ \A u \in Threads \ {t} : pc'[u] = pc[u] \/ (pc[u] = "asleep" /\ pc'[u] = "recheck")
  <2>1. pc \in [Threads -> Labels] /\ "join" \in Labels \ {"asleep"} BY DEF Typed, Labels
  <2> QED BY <1>1, <1>2, <2>1, NotifyFacts
<1>4. /\ queue' \in [Queues -> QueueObject]
      /\ \A x \in Queues : /\ queue'[x].fifo = queue[x].fifo /\ queue'[x].batch = queue[x].batch
                           /\ queue'[x].order = queue[x].order
                           /\ queue'[x].last = queue[x].last
  BY <1>1, <1>2, WithAccepting
<1>5. Typed' BY <1>1, <1>3, <1>4 DEF Typed
<1>6. Quiet(t)
  <2>1. Alone(t) BY <1>1, <1>3 DEF Alone
  <2> QED BY <1>1, <1>4, <2>1 DEF Quiet
<1>7. HandOf(t)' BY <1>1, <1>2, <1>3 DEF HandOf, InEnqueue, Appending, Fresh, Done
<1> QED BY <1>5, <1>6, <1>7, ClientCalm

(* The locals of a client that begins to finish or terminate a queue. *)
LEMMA BeginFacts ==
  ASSUME Typed, NEW t \in Clients, NEW q \in Queues, NEW what \in {"finish", "terminate"}
  PROVE  /\ Begin(t, what, q) \in Locals
         /\ Begin(t, what, q).op = what /\ Begin(t, what, q).on = q
         /\ Begin(t, what, q).due = Enqueued(q)
         /\ Begin(t, what, q).cmd = my[t].cmd /\ Begin(t, what, q).event = my[t].event
         /\ Begin(t, what, q).taken = my[t].taken /\ Begin(t, what, q).todo = my[t].todo
         /\ Begin(t, what, q).failed = my[t].failed /\ Begin(t, what, q).prev = my[t].prev
<1>1. my[t] \in Locals BY CommandFacts DEF Typed
<1>2. Enqueued(q) \subseteq Commands
  <2>1. 1..created \subseteq Commands BY CommandFacts DEF Typed, Commands
  <2> QED BY <2>1 DEF Enqueued
<1> DEFINE D == Enqueued(q)
<1> HIDE DEF D
<1>3. D \subseteq Commands BY <1>2 DEF D
<1>4. Begin(t, what, q) = [my[t] EXCEPT !.op = what, !.on = q, !.due = D] BY DEF Begin, D
<1> DEFINE r == [my[t] EXCEPT !.op = what, !.on = q, !.due = D]
<1>5. /\ r \in Locals /\ r.op = what /\ r.on = q /\ r.due = D
      /\ r.cmd = my[t].cmd /\ r.event = my[t].event /\ r.taken = my[t].taken
      /\ r.todo = my[t].todo /\ r.failed = my[t].failed /\ r.prev = my[t].prev
  BY <1>1, <1>3 DEF Locals
<1> QED BY <1>4, <1>5 DEF D

(* finish() awaits the last command. *)
LEMMA FinishLastCalm ==
  ASSUME InvOrder, NEW t \in Clients, NEW q \in Queues, FinishLast(t, q)
  PROVE  Calm(t)
<1> t \in Threads BY CommandFacts
<1> Typed /\ HandOf(t) /\ CommandInv BY DEF InvOrder, HandInv
<1> DEFINE c == queue[q].last
           b == Begin(t, "finish", q)
           r == [b EXCEPT !.event = c]
<1>1. /\ pc[t] = "idle" /\ Goto(t, "await") /\ c # None
      /\ my' = [my EXCEPT ![t] = r]
      /\ UNCHANGED <<created, command, handles, queue, active>>
  BY DEF FinishLast
<1>2. my[t].cmd = None /\ c \in Commands /\ ~Fresh(c) BY <1>1 DEF HandOf, InEnqueue, Appending, CommandInv
<1>3. b \in Locals /\ b.op = "finish" /\ b.on = q /\ b.cmd = my[t].cmd /\ b.taken = my[t].taken
  BY BeginFacts
<1> HIDE DEF b, c
<1>4. /\ r \in Locals /\ r.cmd = my[t].cmd /\ r.event = c /\ r.taken = my[t].taken
      /\ r.op = "finish" /\ r.on = q
  BY <1>2, <1>3 DEF Locals
<1> HIDE DEF r
<1>5. my' \in [Threads -> Locals] /\ my'[t] = r /\ \A u \in Threads \ {t} : my'[u] = my[u]
  BY <1>1, <1>4 DEF Typed
<1>6. Typed' /\ Quiet(t) /\ pc'[t] = "await"
  <2>1. /\ handles' \subseteq Commands /\ \A d \in handles' \ handles : ~Fresh(d)
        /\ active' \subseteq Queues /\ pc[t] # "append" /\ "await" \in Labels
    BY <1>1 DEF Typed, Labels
  <2>2. my'[t].cmd \in {my[t].cmd, None} /\ my'[t].taken = my[t].taken BY <1>4, <1>5
  <2> QED BY <1>1, <1>5, <2>1, <2>2, LocalStep
<1>7. HandOf(t)' BY <1>1, <1>2, <1>4, <1>5, <1>6 DEF HandOf, InEnqueue, Appending, Fresh
<1> QED BY <1>6, <1>7, ClientCalm

(* finish() and terminate() of a queue without a last command. *)
LEMMA BeginCalm ==
  ASSUME InvOrder, NEW t \in Clients, NEW q \in Queues, pc[t] = "idle",
         NEW what \in {"finish", "terminate"}, NEW label \in {"finished", "stop"},
         my' = [my EXCEPT ![t] = Begin(t, what, q)], Goto(t, label),
         UNCHANGED <<created, command, handles, queue, active>>
  PROVE  Calm(t)
<1> t \in Threads BY CommandFacts
<1> Typed /\ HandOf(t) BY DEF InvOrder, HandInv
<1> DEFINE r == Begin(t, what, q)
<1>1. my[t].cmd = None BY DEF HandOf, InEnqueue, Appending
<1>2. /\ r \in Locals /\ r.cmd = my[t].cmd /\ r.event = my[t].event /\ r.taken = my[t].taken
      /\ r.op = what /\ r.on = q
  BY BeginFacts
<1>3. my' = [my EXCEPT ![t] = r] OBVIOUS
<1> HIDE DEF r
<1>4. my' \in [Threads -> Locals] /\ my'[t] = r /\ \A u \in Threads \ {t} : my'[u] = my[u]
  BY <1>2, <1>3 DEF Typed
<1>5. Typed' /\ Quiet(t) /\ pc'[t] = label
  <2>1. /\ handles' \subseteq Commands /\ \A d \in handles' \ handles : ~Fresh(d)
        /\ active' \subseteq Queues /\ pc[t] # "append" /\ label \in Labels
    BY DEF Typed, Labels
  <2>2. my'[t].cmd \in {my[t].cmd, None} /\ my'[t].taken = my[t].taken BY <1>2, <1>4
  <2> QED BY <1>4, <2>1, <2>2, LocalStep
<1>6. HandOf(t)' BY <1>1, <1>2, <1>4, <1>5 DEF HandOf, InEnqueue, Appending, Fresh
<1> QED BY <1>5, <1>6, ClientCalm

(* signal() wakes threads that wait, and changes no command. *)
LEMMA SignalFacts ==
  ASSUME Typed, NEW p \in Threads, NEW label \in Labels, NEW extra, Signal(p, extra, label)
  PROVE  /\ pc[p] = "signal"
         /\ pc' \in [Threads -> Labels] /\ pc'[p] = label
         /\ \A u \in Threads \ {p} : pc'[u] = pc[u] \/ (pc[u] = "waiting" /\ pc'[u] = "sleep")
         /\ my' \in [Threads -> Locals] /\ my'[p].cmd = None /\ my'[p].event = my[p].event
         /\ my'[p].op = my[p].op /\ my'[p].on = my[p].on /\ my'[p].taken = my[p].taken
         /\ my'[p].todo = my[p].todo /\ my'[p].failed = my[p].failed
         /\ my'[p].due = my[p].due
         /\ \A u \in Threads \ {p} : my'[u] = my[u]
         /\ UNCHANGED <<created, command, handles, active>>
<1> DEFINE W == Woken(my[p].cmd)
<1>1. \A u \in W : pc[u] = "waiting" BY DEF Woken, WaitersOf
<1>2. /\ pc[p] = "signal" /\ my' = [my EXCEPT ![p].cmd = None]
      /\ pc' = [u \in Threads |-> IF u = p THEN label ELSE IF u \in W THEN "sleep" ELSE pc[u]]
      /\ UNCHANGED <<created, command, handles, active>>
  BY DEF Signal
<1> HIDE DEF W
<1>3. /\ pc' \in [Threads -> Labels] /\ pc'[p] = label
      /\ \A u \in Threads \ {p} : pc'[u] = pc[u] \/ (pc[u] = "waiting" /\ pc'[u] = "sleep")
  <2>1. "sleep" \in Labels /\ \A u \in Threads : pc[u] \in Labels BY DEF Labels, Typed
  <2> QED BY <1>1, <1>2, <2>1
<1>4. /\ my' \in [Threads -> Locals] /\ my'[p].cmd = None /\ my'[p].event = my[p].event
      /\ my'[p].op = my[p].op /\ my'[p].on = my[p].on /\ my'[p].taken = my[p].taken
      /\ my'[p].todo = my[p].todo /\ my'[p].failed = my[p].failed
      /\ my'[p].due = my[p].due
      /\ \A u \in Threads \ {p} : my'[u] = my[u]
  BY <1>2 DEF Typed, Locals
<1> QED BY <1>2, <1>3, <1>4

(* A user event, or a command that failed, is signalled. *)
LEMMA SignalCalm ==
  ASSUME InvOrder, NEW p \in Threads, NEW label \in {"idle", "dequeue"},
         Signal(p, <<>>, label), UNCHANGED queue,
         label = "idle" => p \in Clients,
         p \in Queues => label = "dequeue" /\ command[my[p].cmd].status = "error"
  PROVE  Calm(p)
<1> Typed /\ HandOf(p) /\ (p \in Queues => WorkerOf(p)) BY DEF InvOrder, HandInv, WorkerInv
<1>1. /\ pc[p] = "signal"
      /\ pc' \in [Threads -> Labels] /\ pc'[p] = label
      /\ \A u \in Threads \ {p} : pc'[u] = pc[u] \/ (pc[u] = "waiting" /\ pc'[u] = "sleep")
      /\ my' \in [Threads -> Locals] /\ my'[p].cmd = None /\ my'[p].event = my[p].event
      /\ my'[p].op = my[p].op /\ my'[p].on = my[p].on /\ my'[p].taken = my[p].taken
      /\ my'[p].todo = my[p].todo /\ my'[p].failed = my[p].failed
      /\ \A u \in Threads \ {p} : my'[u] = my[u]
      /\ UNCHANGED <<created, command, handles, active>>
  <2>1. label \in Labels BY DEF Labels
  <2> QED BY <2>1, SignalFacts
<1>2. Typed' BY <1>1 DEF Typed
<1>3. Quiet(p)
  <2>1. Alone(p) BY <1>1 DEF Alone
  <2>2. \A x \in Queues : my'[x].taken = my[x].taken BY <1>1, CommandFacts
  <2> QED BY <1>1, <2>1, <2>2 DEF Quiet
<1>4. HandOf(p)' BY <1>1 DEF HandOf, InEnqueue, Appending, Fresh, Done
<1>5. p \in Queues => WorkerOf(p)'
  <2>1. p \in Queues => my[p].taken = None /\ my[p].event = None BY <1>1 DEF WorkerOf
  <2> QED BY <1>1, <2>1 DEF WorkerOf, InEnqueue, Appending
<1> QED BY <1>2, <1>3, <1>4, <1>5 DEF Calm

----------------------------------------
(* The other steps.  A new command is made by one of three calls. *)
Making(t, kind, q, W) ==
  /\ pc[t] = "idle" /\ q \in Streams[t] /\ kind \in {"user", "finish"} /\ W \subseteq handles
  /\ New(t, kind, q, W)
  /\ \/ /\ kind = "user" /\ my' = [my EXCEPT ![t].cmd = created + 1]
     \/ \E what \in {"finish", "terminate"} :
          /\ kind = "finish" /\ W = {}
          /\ my' = [my EXCEPT ![t] = [Begin(t, what, q) EXCEPT !.cmd = created + 1]]
  /\ UNCHANGED <<handles, queue, active>>

Sends(p) == command[my[p].event].queue # None /\ ~command[my[p].event].notified

Loud ==
  \/ \E p \in Threads : AppendCommand(p) \/ (NotifyCmdQueue(p) /\ Sends(p))
  \/ \E t \in Clients :
       \/ CreateUserEvent(t)
       \/ \E e \in handles, o \in {"complete", "error"} : SetUserEvent(t, e, o)
       \/ \E kind \in {"user", "finish"}, q \in Queues : \E W \in SUBSET handles :
            Making(t, kind, q, W)
  \/ \E q \in Queues : Take(q) \/ Insert(q) \/ CompleteHead(q) \/ SignalHead(q)

(* Every step is one of these, or calm. *)
LEMMA StepCases ==
  ASSUME InvOrder, Next
  PROVE  Loud \/ \E p \in Threads : Calm(p)
<1> Typed BY DEF InvOrder
<1>1. ASSUME NEW p \in Threads, InCall(p) PROVE Loud \/ Calm(p)
  <2>1. CASE AppendCommand(p) BY <2>1 DEF Loud
  <2>2. CASE NotifyCmdQueue(p) BY <2>2, NotifyCalm DEF Loud, Sends
  <2>3. CASE SwapLast(p) \/ DropLast(p) \/ Flush(p) BY <2>3, SwapLastCalm, DropLastCalm, FlushCalm
  <2>4. CASE FindDone(p) \/ DropMarker(p) \/ Sleep(p) BY <2>4, FindDoneCalm, DropMarkerCalm, SleepCalm
  <2> QED BY <1>1, <2>1, <2>2, <2>3, <2>4 DEF InCall
<1>2. ASSUME NEW q \in Queues, Worker(q) PROVE Loud \/ Calm(q)
  <2>1. CASE Take(q) \/ Insert(q) \/ CompleteHead(q) \/ SignalHead(q) BY <2>1 DEF Loud
  <2>2. CASE FindNothing(q) \/ NextEvent(q) \/ EventAwaited(q) \/ BatchFlushed(q)
    BY <2>2, FindNothingCalm, NextEventCalm, EventAwaitedCalm, BatchFlushedCalm
  <2>3. CASE SignalError(q) BY <2>3, SignalCalm, CommandFacts DEF SignalError
  <2> QED BY <1>2, <2>1, <2>2, <2>3 DEF Worker
<1>3. ASSUME NEW t \in Clients, ClientStep(t) PROVE Calm(t)
  <2>1. CASE AwaitReturns(t) \/ ClearLast(t) \/ FinishReturns(t) \/ DropFinalMarker(t)
    BY <2>1, AwaitReturnsCalm, ClearLastCalm, FinishReturnsCalm, DropFinalMarkerCalm
  <2>2. CASE Stop(t) \/ Join(t) BY <2>2, StopCalm, JoinCalm
  <2>3. CASE SignalUserEvent(t) BY <2>3, SignalCalm, CommandFacts DEF SignalUserEvent
  <2> QED BY <1>3, <2>1, <2>2, <2>3 DEF ClientStep
<1>4. ASSUME NEW t \in Clients, Call(t) PROVE Loud \/ Calm(t)
  <2>1. CASE CreateUserEvent(t) BY <2>1 DEF Loud
  <2>2. ASSUME NEW c \in handles, ReleaseHandle(t, c) \/ Await(t, c) PROVE Calm(t)
    BY <2>2, ReleaseHandleCalm, AwaitCalm
  <2>3. ASSUME NEW c \in handles, SetUserEvent(t, c, "complete") \/ SetUserEvent(t, c, "error")
        PROVE  Loud
    BY <2>3 DEF Loud
  <2>4. ASSUME NEW q \in Streams[t] PROVE q \in Queues BY <2>4, HostQueueAssumption
  <2>5. ASSUME NEW q \in Streams[t], NEW W \in SUBSET handles, Create(t, q, W) PROVE Loud
    <3>1. Making(t, "user", q, W) BY <2>5 DEF Create, Making
    <3> QED BY <2>4, <3>1 DEF Loud
  <2>6. ASSUME NEW q \in Streams[t], NEW what \in {"finish", "terminate"}, pc[t] = "idle",
               SendMarker(t, what, q), UNCHANGED <<handles, queue, active>>
        PROVE  Loud
    <3>1. Making(t, "finish", q, {}) BY <2>6 DEF SendMarker, Making
    <3> QED BY <2>4, <3>1 DEF Loud
  <2>7. ASSUME NEW q \in Streams[t], FinishWithMarker(t, q) PROVE Loud BY <2>6, <2>7 DEF FinishWithMarker
  <2>8. ASSUME NEW q \in Streams[t], FinishLast(t, q) PROVE Calm(t) BY <2>4, <2>8, FinishLastCalm
  <2>9. ASSUME NEW q \in Streams[t], FinishIdle(t, q) PROVE Calm(t)
    <3>1. /\ pc[t] = "idle" /\ my' = [my EXCEPT ![t] = Begin(t, "finish", q)]
          /\ Goto(t, "finished") /\ UNCHANGED <<created, command, handles, queue, active>>
      BY <2>9 DEF FinishIdle
    <3> QED BY <2>4, <3>1, BeginCalm
  <2>10. ASSUME NEW q \in Streams[t], Terminate(t, q) PROVE Loud \/ Calm(t)
    <3>1. CASE ~IsHip \/ queue[q].last # None BY <2>6, <2>10, <3>1 DEF Terminate
    <3>2. CASE ~(~IsHip \/ queue[q].last # None)
      <4>1. /\ pc[t] = "idle" /\ my' = [my EXCEPT ![t] = Begin(t, "terminate", q)]
            /\ Goto(t, "stop") /\ UNCHANGED <<created, command, handles, queue, active>>
        BY <2>10, <3>2 DEF Terminate
      <4> QED BY <2>4, <4>1, BeginCalm
    <3> QED BY <3>1, <3>2
  <2> QED BY <1>4, <2>1, <2>2, <2>3, <2>5, <2>7, <2>8, <2>9, <2>10 DEF Call
<1> QED BY <1>1, <1>2, <1>3, <1>4, CommandFacts DEF Next

(* A new status changes nothing else of a command. *)
LEMMA WithStatus ==
  ASSUME Typed, NEW c \in AllCommands, NEW s \in {"queued", "submitted", "complete", "error"},
         command' = [command EXCEPT ![c].status = s]
  PROVE  /\ command' \in [AllCommands -> CommandObject] /\ command'[c].status = s
         /\ \A d \in AllCommands : /\ d # c => command'[d] = command[d]
                                   /\ command'[d].kind = command[d].kind
                                   /\ command'[d].queue = command[d].queue
                                   /\ command'[d].waits = command[d].waits
                                   /\ command'[d].notified = command[d].notified
<1> DEFINE r == [command[c] EXCEPT !.status = s]
<1>1. command' = [command EXCEPT ![c] = r] OBVIOUS
<1>2. command[c] \in CommandObject BY DEF Typed
<1>3. /\ r \in CommandObject /\ r.status = s /\ r.kind = command[c].kind
      /\ r.queue = command[c].queue /\ r.waits = command[c].waits
      /\ r.notified = command[c].notified
  BY <1>2 DEF CommandObject
<1> HIDE DEF r
<1>4. /\ command' \in [AllCommands -> CommandObject] /\ command'[c] = r
      /\ \A d \in AllCommands \ {c} : command'[d] = command[d]
  BY <1>1, <1>3 DEF Typed
<1> QED BY <1>3, <1>4

(* Making the status of a command that was not done is steady. *)
LEMMA SteadyStatus ==
  ASSUME Typed, NEW c \in AllCommands, NEW s \in {"queued", "submitted", "complete", "error"},
         command' = [command EXCEPT ![c].status = s], ~Done(c)
  PROVE  Steady
<1>1. /\ command'[c].status = s
      /\ \A d \in AllCommands : /\ d # c => command'[d] = command[d]
                                /\ command'[d].kind = command[d].kind
                                /\ command'[d].queue = command[d].queue
                                /\ command'[d].waits = command[d].waits
                                /\ command'[d].notified = command[d].notified
  BY WithStatus
<1>2. \A d \in AllCommands : ~Fresh(d) => command'[d].status # "new" BY <1>1 DEF Fresh
<1>3. \A d \in AllCommands : Done(d) => command'[d].status = command[d].status BY <1>1
<1>4. \A d \in AllCommands : command[d].notified => command'[d].notified BY <1>1
<1> QED BY <1>1, <1>2, <1>3, <1>4, Zenon DEF Steady

(* What append() does: the lists of its queue, and where it goes on. *)
Appends(p, c, q) ==
  /\ c \in AllCommands /\ q \in Queues /\ Fresh(c) /\ pc[p] = "append"
  /\ \A u \in Threads : my[u].cmd = c => u = p
  /\ command' = [command EXCEPT ![c].status = "queued"]
  /\ queue'[q].fifo = Append(queue[q].fifo, c)
  /\ queue'[q].order = Append(queue[q].order, c)
  /\ \A x \in Queues : /\ x # q => queue'[x] = queue[x]
                       /\ queue'[x].batch = queue[x].batch
                       /\ queue'[x].last = queue[x].last
                       /\ queue'[x].accepting = queue[x].accepting
  /\ pc'[p] \in {"swapLast", "dropLast", "flush"}
  /\ pc'[p] = "swapLast" <=> IsHip /\ command[c].kind # "notify"
  /\ pc'[p] = "dropLast" <=> IsHip /\ command[c].kind = "notify"
  /\ \A u \in Threads \ {p} : pc'[u] = pc[u]
  /\ UNCHANGED <<created, handles, active, my>>
  /\ Typed' /\ Steady /\ Alone(p)

(* AppendCommand does this. *)
LEMMA AppendFacts ==
  ASSUME InvOrder, NEW p \in Threads, AppendCommand(p)
  PROVE  \E c, q : c = my[p].cmd /\ q = command[c].queue /\ Appends(p, c, q)
<1> DEFINE c == my[p].cmd
           q == command[c].queue
<1> Typed /\ HandOf(p) BY DEF InvOrder, HandInv
<1>1. /\ pc[p] = "append" /\ command' = [command EXCEPT ![c].status = "queued"]
      /\ queue' = [queue EXCEPT ![q].fifo = Append(@, c), ![q].order = Append(@, c)]
      /\ UNCHANGED <<created, handles, active, my>>
      /\ Goto(p, IF ~IsHip THEN "flush"
                 ELSE IF command[c].kind = "notify" THEN "dropLast" ELSE "swapLast")
  BY DEF AppendCommand
<1>2. /\ c \in AllCommands /\ q \in Queues /\ Fresh(c)
      /\ \A u \in Threads : my[u].cmd = c => u = p
  BY <1>1 DEF HandOf, InEnqueue, Appending
<1>3. PICK label \in {"swapLast", "dropLast", "flush"} :
        /\ Goto(p, label)
        /\ label = "swapLast" <=> IsHip /\ command[c].kind # "notify"
        /\ label = "dropLast" <=> IsHip /\ command[c].kind = "notify"
  BY <1>1
<1>4. /\ pc' \in [Threads -> Labels] /\ pc'[p] = label
      /\ \A u \in Threads \ {p} : pc'[u] = pc[u]
  <2>1. pc \in [Threads -> Labels] /\ label \in Labels BY DEF Typed, Labels
  <2> QED BY <1>3, <2>1, GotoFacts
<1> DEFINE f == Append(queue[q].fifo, c)
           o == Append(queue[q].order, c)
           r == [queue[q] EXCEPT !.fifo = f, !.order = o]
<1>5. f \in Seq(AllCommands) /\ o \in Seq(AllCommands) BY <1>2, Fields
<1>6. queue' = [queue EXCEPT ![q] = r] BY <1>1
<1>7. queue[q] \in QueueObject BY <1>2 DEF Typed
<1> HIDE DEF f, o
<1>8. /\ r \in QueueObject /\ r.fifo = f /\ r.order = o /\ r.batch = queue[q].batch
      /\ r.last = queue[q].last /\ r.accepting = queue[q].accepting
  BY <1>5, <1>7 DEF QueueObject
<1> HIDE DEF r
<1>9. /\ queue' \in [Queues -> QueueObject] /\ queue'[q] = r
      /\ \A x \in Queues \ {q} : queue'[x] = queue[x]
  BY <1>2, <1>6, <1>8, QueuePut
<1>10. command' \in [AllCommands -> CommandObject] BY <1>1, <1>2, WithStatus
<1>11. Typed' BY <1>1, <1>4, <1>9, <1>10 DEF Typed
<1>12. Steady
  <2>1. ~Done(c) BY <1>2 DEF Fresh, Done
  <2> QED BY <1>1, <1>2, <2>1, SteadyStatus
<1>13. Alone(p) BY <1>1, <1>4 DEF Alone
<1>14. \A x \in Queues : /\ x # q => queue'[x] = queue[x]
                         /\ queue'[x].batch = queue[x].batch
                         /\ queue'[x].last = queue[x].last
                         /\ queue'[x].accepting = queue[x].accepting
  BY <1>8, <1>9
<1>15. queue'[q].fifo = Append(queue[q].fifo, c) /\ queue'[q].order = Append(queue[q].order, c)
  BY <1>8, <1>9 DEF f, o
<1>16. Appends(p, c, q) BY <1>1, <1>2, <1>3, <1>4, <1>11, <1>12, <1>13, <1>14, <1>15 DEF Appends
<1> QED BY <1>16

(* A command is appended after all the others. *)
LEMMA AppendInv ==
  ASSUME InvOrder, NEW p \in Threads, AppendCommand(p)
  PROVE  InvOrder'
<1> Typed /\ CommandInv /\ HandInv /\ OrderInv /\ QueueInv /\ WorkerInv BY DEF InvOrder
<1>1. PICK c, q : c = my[p].cmd /\ q = command[c].queue /\ Appends(p, c, q) BY AppendFacts
<1>2. /\ c \in AllCommands /\ q \in Queues /\ Fresh(c) /\ pc[p] = "append"
      /\ \A u \in Threads : my[u].cmd = c => u = p
      /\ command' = [command EXCEPT ![c].status = "queued"]
      /\ queue'[q].fifo = Append(queue[q].fifo, c)
      /\ queue'[q].order = Append(queue[q].order, c)
      /\ \A x \in Queues : /\ x # q => queue'[x] = queue[x]
                           /\ queue'[x].batch = queue[x].batch
                           /\ queue'[x].last = queue[x].last
                           /\ queue'[x].accepting = queue[x].accepting
      /\ pc'[p] \in {"swapLast", "dropLast", "flush"}
      /\ pc'[p] = "swapLast" <=> IsHip /\ command[c].kind # "notify"
      /\ \A u \in Threads \ {p} : pc'[u] = pc[u]
      /\ UNCHANGED <<created, handles, active, my>>
      /\ Typed' /\ Steady /\ Alone(p)
  BY <1>1 DEF Appends
<1>3. /\ command'[c].status = "queued"
      /\ \A d \in AllCommands : /\ d # c => command'[d] = command[d]
                                /\ command'[d].kind = command[d].kind
                                /\ command'[d].queue = command[d].queue
                                /\ command'[d].waits = command[d].waits
                                /\ command'[d].notified = command[d].notified
  BY <1>2, WithStatus
<1>4. \A d \in AllCommands : command'[d].status = "new" <=> Fresh(d) /\ d # c BY <1>2, <1>3 DEF Fresh
<1>5. /\ c \in Commands => p \in Clients /\ c <= created /\ my[p].event = None
      /\ c \notin Commands => /\ command[c].kind = "notify" /\ my[p].event # None
                              /\ c = NotifyMarker(my[p].event) /\ command[my[p].event].notified
  BY <1>1, <1>2, Zenon DEF HandInv, HandOf, InEnqueue, Appending
<1>6. CommandInv'
  <2>1. ASSUME NEW d \in Commands
        PROVE  /\ d > created => command'[d].status = "new" /\ command'[d].queue = None
               /\ d <= created /\ command'[d].status = "new" =>
                    \E t \in Clients : pc'[t] = "append" /\ my[t].cmd = d
               /\ command'[d].kind # "notify"
               /\ ~command'[d].notified => command'[NotifyMarker(d)].status = "new"
    <3>1. d \in AllCommands /\ NotifyMarker(d) \in AllCommands \ Commands BY CommandFacts
    <3>2. d > created => d # c
      <4>1. d \in Int /\ created \in Int BY DEF Typed, Commands
      <4> QED BY <1>5, <4>1
    <3>3. d > created => command'[d].status = "new" /\ command'[d].queue = None
      BY <1>3, <1>4, <3>1, <3>2 DEF CommandInv
    <3>4. ASSUME d <= created, command'[d].status = "new"
          PROVE  \E t \in Clients : pc'[t] = "append" /\ my[t].cmd = d
      <4>1. Fresh(d) /\ d # c BY <1>4, <3>1, <3>4
      <4>2. PICK t \in Clients : pc[t] = "append" /\ my[t].cmd = d BY <3>4, <4>1 DEF CommandInv
      <4>3. t # p /\ t \in Threads BY <1>1, <4>1, <4>2, CommandFacts
      <4> QED BY <1>2, <4>2, <4>3
    <3>5. command'[d].kind # "notify" BY <1>3, <3>1 DEF CommandInv
    <3>6. ~command[d].notified => Fresh(NotifyMarker(d)) BY Zenon DEF CommandInv
    <3>7. ~command[d].notified => c # NotifyMarker(d)
      <4>1. SUFFICES ASSUME c = NotifyMarker(d) PROVE command[d].notified OBVIOUS
      <4>2. my[p].event \in Commands /\ c = NotifyMarker(my[p].event) /\ command[my[p].event].notified
        <5>1. my[p].event \in Commands \cup {None} BY Fields
        <5> QED BY <1>5, <3>1, <4>1, <5>1, Zenon
      <4>3. my[p].event = d BY <4>1, <4>2, CommandFacts
      <4> QED BY <4>2, <4>3, Zenon
    <3>8. ~command'[d].notified => command'[NotifyMarker(d)].status = "new"
      <4>1. command'[d].notified = command[d].notified BY <1>3, <3>1
      <4>2. Fresh(NotifyMarker(d)) /\ c # NotifyMarker(d) => command'[NotifyMarker(d)].status = "new"
        BY <1>4, <3>1
      <4> QED BY <3>6, <3>7, <4>1, <4>2, Zenon
    <3> QED BY <3>3, <3>4, <3>5, <3>8
  <2>2. ASSUME NEW d \in AllCommands
        PROVE  /\ d \notin Commands => command'[d].kind \in {"user", "notify"}
               /\ command'[d].kind = "userEvent" => command'[d].queue = None /\ command'[d].status # "new"
               /\ \A e \in command'[d].waits : command'[e].status # "new"
    <3>1. \A e \in command[d].waits : e \in AllCommands /\ ~Fresh(e)
      BY Fields, CommandFacts DEF CommandInv
    <3> QED BY <1>3, <1>4, <3>1 DEF CommandInv
  <2>3. \A d \in handles : command'[d].status # "new"
    <3>1. \A d \in handles : d \in AllCommands /\ ~Fresh(d) BY CommandFacts DEF CommandInv, Typed
    <3> QED BY <1>4, <3>1
  <2>4. \A x \in Queues : queue'[x].last # None => /\ queue'[x].last \in Commands
                                                   /\ command'[queue'[x].last].status # "new"
                                                   /\ command'[queue'[x].last].queue = x
    <3>1. \A x \in Queues : queue[x].last # None => /\ queue[x].last \in AllCommands
                                                    /\ queue[x].last \in Commands
                                                    /\ ~Fresh(queue[x].last)
                                                    /\ command[queue[x].last].queue = x
      BY CommandFacts DEF CommandInv
    <3> QED BY <1>2, <1>3, <1>4, <3>1
  <2>5. created' = created /\ handles' = handles /\ my' = my BY <1>2
  <2>6. \A d \in Commands :
          /\ d > created' => command'[d].status = "new" /\ command'[d].queue = None
          /\ d <= created' /\ command'[d].status = "new" =>
               \E t \in Clients : pc'[t] = "append" /\ my'[t].cmd = d
          /\ command'[d].kind # "notify"
    BY <2>1, <2>5
  <2>7. \A d \in Commands : ~command'[d].notified => command'[NotifyMarker(d)].status = "new"
    BY <2>1, Zenon
  <2>8. \A d \in handles' : command'[d].status # "new" BY <2>3, <2>5
  <2> QED BY <2>2, <2>4, <2>6, <2>7, <2>8, Zenon DEF CommandInv, Fresh
<1>7. HandInv'
  <2>1. ASSUME NEW u \in Threads, u # p PROVE HandOf(u)'
    <3>1. pc[u] = "append" => Fresh(my[u].cmd)' /\ my'[p].cmd # my[u].cmd
      <4>1. pc[u] = "append" => my[u].cmd \in AllCommands /\ Fresh(my[u].cmd) /\ my[u].cmd # c
        BY <1>2, <2>1 DEF HandInv, HandOf, InEnqueue, Appending
      <4>2. my' = my BY <1>2
      <4>3. pc[u] = "append" => command'[my'[u].cmd].status = "new" BY <1>4, <4>1, <4>2
      <4> QED BY <1>1, <4>1, <4>2, <4>3 DEF Fresh
    <3>2. created <= created' BY <1>2 DEF Typed
    <3> QED BY <1>2, <2>1, <3>1, <3>2, HandKept
  <2>2. HandOf(p)'
    <3>1. HandOf(p) BY DEF HandInv
    <3>2. my'[p] = my[p] /\ created' = created BY <1>2
    <3>3. /\ command'[c].queue = command[c].queue /\ command'[c].kind = command[c].kind
          /\ command'[c].status = "queued"
      BY <1>2, <1>3
    <3>4. my[p].event # None => command'[my[p].event].status # "new"
      <4>1. my[p].event \in Commands \cup {None} BY Fields
      <4> QED BY <1>4, <3>1, <4>1, CommandFacts DEF HandOf
    <3>5. c \notin Commands => command'[my[p].event].notified
      <4>1. my[p].event \in Commands \cup {None} BY Fields
      <4> QED BY <1>3, <1>5, <4>1, CommandFacts
    <3>6. pc'[p] = "swapLast" => c \in Commands BY <1>2, <1>5
    <3>7. /\ my'[p].cmd \in AllCommands /\ command'[my'[p].cmd].queue \in Queues
          /\ my'[p].cmd \in Commands =>
               /\ p \in Clients /\ my'[p].event = None /\ my'[p].cmd <= created'
               /\ command'[my'[p].cmd].kind \in {"user", "finish"}
               /\ command'[my'[p].cmd].queue \in Streams[p]
      BY <1>1, <1>2, <3>1, <3>2, <3>3 DEF HandOf, InEnqueue, Appending
    <3>8. my'[p].cmd \notin Commands =>
            /\ command'[my'[p].cmd].kind = "notify" /\ my'[p].event # None
            /\ my'[p].cmd = NotifyMarker(my'[p].event) /\ command'[my'[p].event].notified
      <4>1. c \notin Commands =>
              /\ command'[c].kind = "notify" /\ my[p].event # None
              /\ c = NotifyMarker(my[p].event) /\ command'[my[p].event].notified
        BY <1>5, <3>3, <3>5, Zenon
      <4> QED BY <1>1, <3>2, <4>1, Zenon
    <3>9. /\ my'[p].cmd = c /\ pc'[p] \in {"swapLast", "dropLast", "flush"}
          /\ my'[p].event # None => command'[my'[p].event].status # "new"
          /\ command'[my'[p].cmd].status # "new"
          /\ my'[p].op \in {"finish", "terminate"} => my'[p].on \in Queues
      BY <1>1, <1>2, <3>1, <3>2, <3>3, <3>4 DEF HandOf
    <3>10. /\ pc'[p] = "swapLast" => my'[p].cmd \in Commands
           /\ pc'[p] \in InEnqueue \ {"append"}
           /\ pc'[p] \notin {"append", "dropMarker", "await", "sleep", "waiting", "awaited",
                             "signal", "idle", "finished", "stop", "join"}
      BY <3>6, <3>9 DEF InEnqueue, Appending
    <3> QED BY <3>7, <3>8, <3>9, <3>10, Zenon DEF HandOf, Fresh
  <2> QED BY <2>1, <2>2 DEF HandInv
<1>8. ASSUME NEW x \in Queues, x # q PROVE OrderOf(x)' /\ QueueOf(x)'
  <2>1. \A d \in AllCommands : Fresh(d) /\ command'[d].status # "new" => command'[d].queue # x
    BY <1>1, <1>3, <1>4, <1>8
  <2>2. \A d \in AllCommands : ~Fresh(d) /\ command[d].queue = x =>
          command'[d].status = command[d].status
    BY <1>2, <1>3
  <2>3. /\ queue'[x].order = queue[x].order /\ queue'[x].fifo = queue[x].fifo
        /\ queue'[x].batch = queue[x].batch /\ my'[x].taken = my[x].taken
    BY <1>2, <1>8
  <2> QED BY <1>2, <2>1, <2>2, <2>3, OrderKept, QueueKept
<1>9. PICK S : S = queue[q].order OBVIOUS
<1>10. /\ S \in Seq(AllCommands) /\ Len(S) \in Nat /\ DOMAIN S = 1..Len(S)
       /\ Append(S, c)[Len(S) + 1] = c /\ \A i \in 1..Len(S) : Append(S, c)[i] = S[i]
       /\ DOMAIN Append(S, c) = 1..Len(S) + 1 /\ Len(Append(S, c)) = Len(S) + 1
  <2>1. S \in Seq(AllCommands) BY <1>2, <1>9, Fields
  <2> QED BY <1>2, <2>1
<1>11. OrderOf(q)'
  <2>1. \A i \in 1..Len(S) :
          /\ S[i] \in AllCommands /\ ~Fresh(S[i]) /\ command[S[i]].queue = q /\ S[i] # c
          /\ \A j \in 1..Len(S) : S[i] = S[j] => i = j
          /\ \A e \in command[S[i]].waits :
               command[e].queue = q => \E j \in 1..i - 1 : S[j] = e
    BY <1>2, <1>9, <1>10 DEF OrderInv, OrderOf
  <2>2. \A d \in AllCommands : ~Fresh(d) /\ command[d].queue = q => \E i \in 1..Len(S) : S[i] = d
    <3>1. OrderOf(q) BY <1>2 DEF OrderInv
    <3> QED BY <1>9, <1>10, <3>1 DEF OrderOf
  <2>3. \A d \in AllCommands : \A e \in command[d].waits : e \in AllCommands /\ ~Fresh(e)
    BY Fields, CommandFacts DEF CommandInv
  <2> DEFINE T == Append(S, c)
  <2>4. /\ T[Len(S) + 1] = c /\ \A i \in 1..Len(S) : T[i] = S[i]
        /\ DOMAIN T = 1..Len(S) + 1 /\ queue'[q].order = T
    BY <1>2, <1>9, <1>10
  <2> HIDE DEF T
  <2>5. ASSUME NEW i \in 1..Len(S) + 1
        PROVE  /\ command'[T[i]].status # "new" /\ command'[T[i]].queue = q
               /\ \A j \in 1..Len(S) + 1 : T[i] = T[j] => i = j
               /\ \A e \in command'[T[i]].waits :
                    command'[e].queue = q => \E j \in 1..i - 1 : T[j] = e
    <3>1. CASE i \in 1..Len(S)
      <4>1. T[i] = S[i] /\ \A j \in 1..i - 1 : j \in 1..Len(S) BY <1>10, <2>4, <3>1
      <4>2. command'[T[i]].status # "new" /\ command'[T[i]].queue = q BY <1>3, <1>4, <2>1, <3>1, <4>1
      <4>3. \A j \in 1..Len(S) + 1 : T[i] = T[j] => i = j
        <5>1. \A j \in 1..Len(S) + 1 : j \in 1..Len(S) \/ j = Len(S) + 1 BY <1>10
        <5> QED BY <2>1, <2>4, <3>1, <4>1, <5>1
      <4>4. \A e \in command'[T[i]].waits :
              command'[e].queue = q => \E j \in 1..i - 1 : T[j] = e
        <5>1. \A e \in command[S[i]].waits :
                command[e].queue = q => \E j \in 1..i - 1 : T[j] = e
          BY <2>1, <2>4, <3>1, <4>1
        <5> QED BY <1>3, <2>1, <2>3, <3>1, <4>1, <5>1
      <4> QED BY <4>2, <4>3, <4>4
    <3>2. CASE i = Len(S) + 1
      <4>1. T[i] = c /\ 1..i - 1 = 1..Len(S) BY <1>10, <2>4, <3>2
      <4>2. command'[T[i]].status # "new" /\ command'[T[i]].queue = q BY <1>1, <1>2, <1>3, <4>1
      <4>3. \A j \in 1..Len(S) + 1 : T[i] = T[j] => i = j
        <5>1. \A j \in 1..Len(S) + 1 : j \in 1..Len(S) \/ j = Len(S) + 1 BY <1>10
        <5> QED BY <2>1, <2>4, <3>2, <4>1, <5>1
      <4>4. \A e \in command'[T[i]].waits :
              command'[e].queue = q => \E j \in 1..i - 1 : T[j] = e
        <5>1. \A e \in command[c].waits :
                command[e].queue = q => \E j \in 1..Len(S) : T[j] = e
          BY <1>2, <2>2, <2>3, <2>4
        <5> QED BY <1>2, <1>3, <2>3, <4>1, <5>1
      <4> QED BY <4>2, <4>3, <4>4
    <3> QED BY <1>10, <3>1, <3>2
  <2>6. ASSUME NEW d \in AllCommands, command'[d].status # "new", command'[d].queue = q
        PROVE  \E i \in 1..Len(S) + 1 : T[i] = d
    <3>1. CASE d = c
      <4>1. Len(S) + 1 \in 1..Len(S) + 1 BY <1>10
      <4> QED BY <2>4, <3>1, <4>1
    <3>2. CASE d # c
      <4>1. PICK i \in 1..Len(S) : S[i] = d BY <1>3, <1>4, <2>2, <2>6, <3>2
      <4>2. i \in 1..Len(S) + 1 BY <1>10
      <4> QED BY <2>4, <4>1, <4>2
    <3> QED BY <3>1, <3>2
  <2>7. queue'[q].order = T /\ DOMAIN T = 1..Len(S) + 1 BY <2>4
  <2> QED BY <2>5, <2>6, <2>7 DEF OrderOf, Fresh
<1>12. QueueOf(q)'
  <2>1. QueueOf(q) /\ OrderOf(q) BY <1>2 DEF QueueInv, OrderInv
  <2>2. PICK F : F = queue[q].fifo OBVIOUS
  <2>3. /\ F \in Seq(AllCommands) /\ Len(F) \in Nat /\ DOMAIN F = 1..Len(F)
        /\ Append(F, c)[Len(F) + 1] = c /\ \A i \in 1..Len(F) : Append(F, c)[i] = F[i]
        /\ DOMAIN Append(F, c) = 1..Len(F) + 1 /\ Len(Append(F, c)) = Len(F) + 1
    <3>1. F \in Seq(AllCommands) BY <1>2, <2>2, Fields
    <3> QED BY <1>2, <3>1
  <2>4. /\ queue'[q].fifo = Append(F, c) /\ queue'[q].order = Append(S, c)
        /\ queue'[q].batch = queue[q].batch /\ my'[q].taken = my[q].taken
    BY <1>2, <1>9, <2>2
  <2>5. Past(q) \in Nat BY <2>1 DEF QueueOf
  <2>6. /\ Rest(q) \in Nat /\ Rest(q) + Len(F) = Len(S) /\ Rest(q) = Len(S) - Len(F)
        /\ \A i \in 1..Len(F) : Rest(q) + i \in 1..Len(S)
        /\ my[q].taken # None => Rest(q) \in 1..Len(S)
        /\ \A i \in DOMAIN queue[q].batch : Past(q) + i \in 1..Len(S)
        /\ \A i \in 1..Past(q) : i \in 1..Len(S)
    <3>1. Rest(q) = Len(S) - Len(F) BY <1>9, <2>2 DEF Rest
    <3> QED BY <1>2, <1>9, <1>10, <2>2, <2>3, <2>5, <3>1, Places
  <2>7. Rest(q)' = Rest(q) /\ Past(q)' = Past(q)
    <3>1. (Len(S) + 1) - (Len(F) + 1) = Len(S) - Len(F) BY <1>10, <2>3
    <3>2. Rest(q)' = Rest(q) BY <1>10, <2>3, <2>4, <2>6, <3>1 DEF Rest
    <3> QED BY <2>4, <3>2 DEF Past
  <2>8. \A i \in 1..Len(S) : /\ Append(S, c)[i] = S[i] /\ S[i] \in AllCommands
                             /\ command'[S[i]] = command[S[i]]
    <3>1. \A i \in 1..Len(S) : S[i] \in AllCommands /\ S[i] # c BY <1>2, <1>9, <1>10, <2>1 DEF OrderOf
    <3> QED BY <1>3, <1>10, <3>1
  <2>9. ASSUME NEW i \in 1..Len(F) + 1
        PROVE  /\ Append(F, c)[i] = Append(S, c)[Rest(q) + i]
               /\ command'[Append(F, c)[i]].status = "queued"
    <3>1. CASE i \in 1..Len(F)
      <4>1. F[i] = S[Rest(q) + i] /\ command[F[i]].status = "queued"
        BY <1>9, <2>1, <2>2, <2>3, <3>1 DEF QueueOf
      <4>2. Rest(q) + i \in 1..Len(S) BY <2>6, <3>1
      <4>3. Append(S, c)[Rest(q) + i] = S[Rest(q) + i] /\ command'[S[Rest(q) + i]] = command[S[Rest(q) + i]]
        BY <2>8, <4>2
      <4> QED BY <2>3, <3>1, <4>1, <4>3
    <3>2. CASE i = Len(F) + 1
      <4>1. Rest(q) + i = Len(S) + 1 BY <2>3, <2>6, <3>2
      <4> QED BY <1>3, <1>10, <2>3, <3>2, <4>1
    <3>3. i \in 1..Len(F) \/ i = Len(F) + 1
      <4>1. Len(F) \in Nat BY <2>3
      <4> QED BY <4>1
    <3> QED BY <3>1, <3>2, <3>3
  <2>10. my[q].taken # None => /\ my[q].taken = Append(S, c)[Rest(q)]
                               /\ command'[my[q].taken].status = "queued"
    <3>1. my[q].taken # None => my[q].taken = S[Rest(q)] /\ command[my[q].taken].status = "queued"
      BY <1>9, <2>1 DEF QueueOf
    <3> QED BY <2>6, <2>8, <3>1
  <2>11. ASSUME NEW i \in DOMAIN queue[q].batch
         PROVE  /\ queue[q].batch[i] = Append(S, c)[Past(q) + i]
                /\ command'[queue[q].batch[i]].status \in {"submitted", "complete", "error"}
                /\ i > 1 => ~(command'[queue[q].batch[i]].status \in {"complete", "error"})
                /\ command'[queue[q].batch[i]].status = "submitted" =>
                     \A e \in command'[queue[q].batch[i]].waits :
                       command'[e].queue # q => command'[e].status = "complete"
    <3>1. /\ queue[q].batch[i] = S[Past(q) + i]
          /\ command[queue[q].batch[i]].status \in {"submitted", "complete", "error"}
          /\ i > 1 => ~(command[queue[q].batch[i]].status \in {"complete", "error"})
          /\ command[queue[q].batch[i]].status = "submitted" =>
               \A e \in command[queue[q].batch[i]].waits :
                 command[e].queue # q => command[e].status = "complete"
      BY <1>9, <2>1 DEF QueueOf, Done
    <3>2. Past(q) + i \in 1..Len(S) BY <2>6
    <3>3. /\ Append(S, c)[Past(q) + i] = S[Past(q) + i] /\ S[Past(q) + i] \in AllCommands
          /\ command'[S[Past(q) + i]] = command[S[Past(q) + i]]
      BY <2>8, <3>2
    <3>4. \A e \in command[queue[q].batch[i]].waits : e \in AllCommands /\ e # c
      BY <1>2, <3>1, <3>3, Fields, CommandFacts DEF CommandInv
    <3>5. \A e \in command[queue[q].batch[i]].waits : command'[e] = command[e] BY <1>3, <3>4
    <3> QED BY <3>1, <3>3, <3>5
  <2>12. \A i \in 1..Past(q) : command'[Append(S, c)[i]].status \in {"complete", "error"}
    <3>1. \A i \in 1..Past(q) : command[S[i]].status \in {"complete", "error"}
      BY <1>9, <2>1 DEF QueueOf, Done
    <3> QED BY <2>6, <2>8, <3>1
  <2> DEFINE T == Append(S, c)
             G == Append(F, c)
  <2>13. /\ queue'[q].fifo = G /\ queue'[q].order = T /\ DOMAIN G = 1..Len(F) + 1 BY <2>3, <2>4
  <2>14. /\ \A i \in 1..Len(F) + 1 : G[i] = T[Rest(q) + i] /\ command'[G[i]].status = "queued"
         /\ my[q].taken # None => my[q].taken = T[Rest(q)] /\ command'[my[q].taken].status = "queued"
         /\ \A i \in 1..Past(q) : command'[T[i]].status \in {"complete", "error"}
    BY <2>9, <2>10, <2>12
  <2>15. \A i \in DOMAIN queue[q].batch :
                /\ queue[q].batch[i] = T[Past(q) + i]
                /\ command'[queue[q].batch[i]].status \in {"submitted", "complete", "error"}
                /\ i > 1 => ~(command'[queue[q].batch[i]].status \in {"complete", "error"})
                /\ command'[queue[q].batch[i]].status = "submitted" =>
                     \A e \in command'[queue[q].batch[i]].waits :
                       command'[e].queue # q => command'[e].status = "complete"
    BY <2>11
  <2> HIDE DEF T, G
  <2>16. /\ \A i \in DOMAIN queue'[q].fifo :
              /\ queue'[q].fifo[i] = queue'[q].order[Rest(q)' + i]
              /\ command'[queue'[q].fifo[i]].status = "queued"
         /\ my'[q].taken # None => /\ my'[q].taken = queue'[q].order[Rest(q)']
                                   /\ command'[my'[q].taken].status = "queued"
         /\ \A i \in 1..Past(q)' : command'[queue'[q].order[i]].status \in {"complete", "error"}
         /\ Past(q)' \in Nat
    BY <2>4, <2>5, <2>7, <2>13, <2>14
  <2>17. \A i \in DOMAIN queue'[q].batch :
                /\ queue'[q].batch[i] = queue'[q].order[Past(q)' + i]
                /\ command'[queue'[q].batch[i]].status \in {"submitted", "complete", "error"}
                /\ i > 1 => ~(command'[queue'[q].batch[i]].status \in {"complete", "error"})
                /\ command'[queue'[q].batch[i]].status = "submitted" =>
                     \A e \in command'[queue'[q].batch[i]].waits :
                       command'[e].queue # q => command'[e].status = "complete"
    BY <2>4, <2>7, <2>13, <2>15
  <2> QED BY <2>16, <2>17, Zenon DEF QueueOf, Done
<1>13. WorkerInv'
  <2>1. ASSUME NEW x \in Queues, x # p PROVE WorkerOf(x)' BY <1>2, <2>1, WorkerKept
  <2>2. ASSUME p \in Queues PROVE WorkerOf(p)'
    <3>1. WorkerOf(p) /\ QueueOf(p) BY <2>2 DEF WorkerInv, QueueInv
    <3>2. pc[p] = "append" /\ pc'[p] \in {"swapLast", "dropLast", "flush"} /\ my' = my
          /\ queue'[p].batch = queue[p].batch
      BY <1>2, <2>2
    <3>3. my[p].taken # None /\ my[p].event # None /\ my[p].taken \in AllCommands
      <4>1. p \notin Clients BY <2>2, CommandFacts
      <4>2. my[p].event # None BY <1>5, <4>1
      <4>3. my[p].taken \in AllCommands \cup {None} BY Fields
      <4> QED BY <3>1, <3>2, <4>2, <4>3 DEF WorkerOf
    <3>4. \A e \in command[my[p].taken].waits : e \in AllCommands /\ command'[e] = command[e]
      <4>1. \A e \in command[my[p].taken].waits : e \in AllCommands /\ ~Fresh(e)
        BY <3>3, Fields, CommandFacts DEF CommandInv
      <4> QED BY <1>2, <1>3, <4>1
    <3>5. command'[my[p].taken].waits = command[my[p].taken].waits BY <1>3, <3>3
    <3> QED BY <3>1, <3>2, <3>3, <3>4, <3>5 DEF WorkerOf, InEnqueue, Appending, Done
  <2> QED BY <2>1, <2>2 DEF WorkerInv
<1> QED BY <1>2, <1>6, <1>7, <1>8, <1>11, <1>12, <1>13 DEF InvOrder, OrderInv, QueueInv

(* A new command: nobody can name it but the thread that makes it. *)
MakesCommand(t, kind, q, W) ==
  /\ created' = created + 1 /\ created + 1 \in Commands
  /\ Fresh(created + 1) /\ \A u \in Threads : pc[u] \in InEnqueue => my[u].cmd # created + 1
  /\ \A c \in AllCommands :
       /\ c # created + 1 => command'[c] = command[c]
       /\ command'[c].status = command[c].status
       /\ command'[c].notified = command[c].notified
  /\ command'[created + 1].kind = kind /\ command'[created + 1].queue = q
  /\ command'[created + 1].waits = W
  /\ pc'[t] = "append" /\ \A u \in Threads \ {t} : pc'[u] = pc[u]
  /\ my'[t].cmd = created + 1 /\ my'[t].event = my[t].event /\ my'[t].taken = my[t].taken
  /\ my'[t].op \in {"finish", "terminate"} => my'[t].on \in Queues
  /\ Typed' /\ Steady /\ Alone(t)

(* The calls that make a command do this. *)
LEMMA MakingFacts ==
  ASSUME InvOrder, NEW t \in Clients, NEW kind \in {"user", "finish"}, NEW q \in Queues,
         NEW W \in SUBSET handles, Making(t, kind, q, W)
  PROVE  MakesCommand(t, kind, q, W)
<1> t \in Threads BY CommandFacts
<1> Typed /\ HandOf(t) /\ CommandInv /\ HandInv BY DEF InvOrder, HandInv
<1> DEFINE n == created + 1
<1>1. /\ pc[t] = "idle" /\ created < MaxCommands /\ created' = n
      /\ command' = [command EXCEPT ![n].kind = kind, ![n].queue = q, ![n].waits = W]
      /\ Goto(t, "append")
      /\ \/ my' = [my EXCEPT ![t].cmd = n]
         \/ \E what \in {"finish", "terminate"} :
              my' = [my EXCEPT ![t] = [Begin(t, what, q) EXCEPT !.cmd = n]]
      /\ UNCHANGED <<handles, queue, active>>
  BY DEF Making, New
<1>2. n \in Commands /\ n \in AllCommands /\ n \in 0..MaxCommands /\ n > created
  BY <1>1, CommandFacts DEF Typed, Commands
<1>3. Fresh(n) BY <1>2 DEF CommandInv
<1>4. \A u \in Threads : pc[u] \in InEnqueue => my[u].cmd # n
  <2> SUFFICES ASSUME NEW u \in Threads, pc[u] \in InEnqueue, my[u].cmd = n PROVE FALSE OBVIOUS
  <2>1. n <= created
    <3>1. HandOf(u) BY DEF HandInv
    <3>2. my[u].cmd \in Commands => my[u].cmd <= created BY <3>1, Zenon DEF HandOf
    <3> QED BY <1>2, <3>2
  <2> QED BY <1>2, <2>1 DEF Typed, Commands
<1>5. /\ pc' \in [Threads -> Labels] /\ pc'[t] = "append"
      /\ \A u \in Threads \ {t} : pc'[u] = pc[u]
  BY <1>1, GotoFacts DEF Labels, Typed
<1>6. W \subseteq Commands BY DEF Typed
<1> DEFINE r == [command[n] EXCEPT !.kind = kind, !.queue = q, !.waits = W]
<1>7. command' = [command EXCEPT ![n] = r] BY <1>1
<1> HIDE DEF n
<1>8. command[n] \in CommandObject BY <1>2 DEF Typed
<1>9. /\ r \in CommandObject /\ r.kind = kind /\ r.queue = q /\ r.waits = W
      /\ r.status = command[n].status /\ r.notified = command[n].notified
  BY <1>6, <1>8 DEF CommandObject, Kinds
<1> HIDE DEF r
<1>10. /\ command' \in [AllCommands -> CommandObject] /\ command'[n] = r
       /\ \A c \in AllCommands \ {n} : command'[c] = command[c]
  BY <1>2, <1>7, <1>9 DEF Typed
<1>11. \A c \in AllCommands : /\ c # n => command'[c] = command[c]
                              /\ command'[c].status = command[c].status
                              /\ command'[c].notified = command[c].notified
  BY <1>9, <1>10
<1>12. /\ my' \in [Threads -> Locals] /\ my'[t].cmd = n /\ my'[t].event = my[t].event
       /\ my'[t].taken = my[t].taken
       /\ my'[t].op \in {"finish", "terminate"} => my'[t].on \in Queues
       /\ \A u \in Threads \ {t} : my'[u] = my[u]
  <2>1. CASE my' = [my EXCEPT ![t].cmd = n]
    <3>1. n \in AllCommands \cup {None} BY <1>2
    <3>2. /\ my' \in [Threads -> Locals] /\ my'[t].cmd = n /\ my'[t].event = my[t].event
          /\ my'[t].taken = my[t].taken /\ my'[t].op = my[t].op /\ my'[t].on = my[t].on
          /\ \A u \in Threads \ {t} : my'[u] = my[u]
      BY <2>1, <3>1 DEF Typed, Locals
    <3> QED BY <3>2 DEF HandOf
  <2>2. CASE \E what \in {"finish", "terminate"} :
               my' = [my EXCEPT ![t] = [Begin(t, what, q) EXCEPT !.cmd = n]]
    <3>0. PICK what \in {"finish", "terminate"} :
            my' = [my EXCEPT ![t] = [Begin(t, what, q) EXCEPT !.cmd = n]]
      BY <2>2
    <3> DEFINE b == Begin(t, what, q)
               s == [b EXCEPT !.cmd = n]
    <3>1. /\ b \in Locals /\ b.op = what /\ b.on = q /\ b.event = my[t].event
          /\ b.taken = my[t].taken
      BY BeginFacts
    <3>2. my' = [my EXCEPT ![t] = s] BY <3>0
    <3> HIDE DEF b
    <3>3. /\ s \in Locals /\ s.cmd = n /\ s.event = my[t].event /\ s.taken = my[t].taken
          /\ s.on = q
      BY <1>2, <3>1 DEF Locals
    <3> HIDE DEF s
    <3>4. my' \in [Threads -> Locals] /\ my'[t] = s /\ \A u \in Threads \ {t} : my'[u] = my[u]
      BY <3>2, <3>3 DEF Typed
    <3> QED BY <3>3, <3>4
  <2> QED BY <1>1, <2>1, <2>2 DEF n
<1>13. Typed' BY <1>1, <1>2, <1>5, <1>10, <1>12 DEF Typed
<1>14. Steady
  <2>1. ASSUME NEW c \in AllCommands, ~Fresh(c) \/ \E u \in Threads : pc[u] = "append" /\ my[u].cmd = c
        PROVE  /\ command'[c].queue = command[c].queue /\ command'[c].waits = command[c].waits
               /\ command'[c].kind = command[c].kind
    BY <1>3, <1>4, <1>11, <2>1 DEF InEnqueue, Appending
  <2>2. \A c \in AllCommands : command[c].notified => command'[c].notified BY <1>11
  <2>3. \A c \in AllCommands : /\ ~Fresh(c) => command'[c].status # "new"
                               /\ Done(c) => command'[c].status = command[c].status
    BY <1>11 DEF Fresh
  <2> QED BY <2>1, <2>2, <2>3, Zenon DEF Steady
<1>15. Alone(t) BY <1>5, <1>12 DEF Alone
<1> QED
  BY <1>1, <1>2, <1>3, <1>4, <1>5, <1>9, <1>10, <1>11, <1>12, <1>13, <1>14, <1>15
     DEF MakesCommand, n

(* A new command is on no list. *)
LEMMA MakingInv ==
  ASSUME InvOrder, NEW t \in Clients, NEW kind \in {"user", "finish"}, NEW q \in Queues,
         NEW W \in SUBSET handles, Making(t, kind, q, W)
  PROVE  InvOrder'
<1> t \in Threads BY CommandFacts
<1> Typed /\ CommandInv /\ HandInv /\ OrderInv /\ QueueInv /\ WorkerInv BY DEF InvOrder
<1>1. PICK n : n = created + 1 OBVIOUS
<1>2. /\ created' = n /\ n \in Commands /\ Fresh(n)
      /\ \A u \in Threads : pc[u] \in InEnqueue => my[u].cmd # n
      /\ \A c \in AllCommands : /\ c # n => command'[c] = command[c]
                                /\ command'[c].status = command[c].status
                                /\ command'[c].notified = command[c].notified
      /\ command'[n].kind = kind /\ command'[n].queue = q /\ command'[n].waits = W
      /\ pc'[t] = "append" /\ \A u \in Threads \ {t} : pc'[u] = pc[u]
      /\ my'[t].cmd = n /\ my'[t].event = my[t].event /\ my'[t].taken = my[t].taken
      /\ my'[t].op \in {"finish", "terminate"} => my'[t].on \in Queues
      /\ Typed' /\ Steady /\ Alone(t)
  BY <1>1, MakingFacts DEF MakesCommand
<1>3. /\ pc[t] = "idle" /\ q \in Streams[t] /\ UNCHANGED <<handles, queue, active>> BY DEF Making
<1>4. \A c \in AllCommands : (Fresh(c)' <=> Fresh(c)) /\ (Done(c)' <=> Done(c)) BY <1>2 DEF Fresh, Done
<1>5. CommandInv'
  <2>1. ASSUME NEW d \in Commands
        PROVE  /\ d > created' => Fresh(d)' /\ command'[d].queue = None
               /\ d <= created' /\ Fresh(d)' => \E u \in Clients : pc'[u] = "append" /\ my'[u].cmd = d
               /\ command'[d].kind # "notify"
    <3>1. d \in AllCommands /\ d \in Int /\ created \in Int BY CommandFacts DEF Typed, Commands
    <3>2. CASE d = n BY <1>1, <1>2, <3>1, <3>2
    <3>3. CASE d # n
      <4>1. command'[d] = command[d] BY <1>2, <3>1, <3>3
      <4>2. /\ d > created' => d > created
            /\ d <= created' => d <= created
        BY <1>1, <1>2, <3>1, <3>3
      <4>3. ASSUME d <= created, Fresh(d) PROVE \E u \in Clients : pc'[u] = "append" /\ my'[u].cmd = d
        <5>1. PICK u \in Clients : pc[u] = "append" /\ my[u].cmd = d BY <4>3 DEF CommandInv
        <5>2. u # t /\ u \in Threads BY <1>3, <5>1, CommandFacts
        <5>3. pc'[u] = pc[u] /\ my'[u] = my[u] BY <1>2, <5>2 DEF Alone
        <5> QED BY <5>1, <5>3
      <4>4. /\ d > created => Fresh(d) /\ command[d].queue = None
            /\ command[d].kind # "notify"
        BY DEF CommandInv
      <4> QED BY <1>4, <3>1, <4>1, <4>2, <4>3, <4>4
    <3> QED BY <3>2, <3>3
  <2>2. ASSUME NEW d \in Commands PROVE ~command'[d].notified => Fresh(NotifyMarker(d))'
    <3>1. d \in AllCommands /\ NotifyMarker(d) \in AllCommands BY CommandFacts
    <3>2. command'[d].notified = command[d].notified BY <1>2, <3>1
    <3>3. ~command[d].notified => Fresh(NotifyMarker(d)) BY Zenon DEF CommandInv
    <3>4. command'[NotifyMarker(d)].status = command[NotifyMarker(d)].status BY <1>2, <3>1
    <3> QED BY <3>2, <3>3, <3>4, Zenon DEF Fresh
  <2>3. ASSUME NEW d \in AllCommands
        PROVE  /\ d \notin Commands => command'[d].kind \in {"user", "notify"}
               /\ command'[d].kind = "userEvent" => command'[d].queue = None /\ ~Fresh(d)'
               /\ \A e \in command'[d].waits : ~Fresh(e)'
    <3>1. \A e \in command[d].waits : e \in AllCommands /\ ~Fresh(e)
      BY Fields, CommandFacts DEF CommandInv
    <3>2. \A e \in W : e \in AllCommands /\ ~Fresh(e) BY CommandFacts DEF CommandInv, Typed
    <3>3. \A e \in AllCommands : command'[e].status = "new" <=> command[e].status = "new" BY <1>2
    <3>4. CASE d = n BY <1>2, <3>2, <3>3, <3>4 DEF Fresh
    <3>5. CASE d # n
      <4>1. command'[d] = command[d] BY <1>2, <3>5
      <4> QED BY <3>1, <3>3, <4>1 DEF Fresh, CommandInv
    <3> QED BY <3>4, <3>5
  <2>4. \A d \in handles' : ~Fresh(d)'
    <3>1. \A d \in handles : d \in AllCommands /\ ~Fresh(d) BY CommandFacts DEF CommandInv, Typed
    <3> QED BY <1>2, <1>3, <3>1 DEF Fresh
  <2>5. \A x \in Queues : queue'[x].last # None => /\ queue'[x].last \in Commands
                                                   /\ command'[queue'[x].last].status # "new"
                                                   /\ command'[queue'[x].last].queue = x
    <3>1. \A x \in Queues : queue[x].last # None => /\ queue[x].last \in AllCommands
                                                    /\ queue[x].last \in Commands
                                                    /\ ~Fresh(queue[x].last)
                                                    /\ command[queue[x].last].queue = x
      BY CommandFacts DEF CommandInv
    <3> QED BY <1>2, <1>3, <3>1 DEF Fresh
  <2> QED BY <2>1, <2>2, <2>3, <2>4, <2>5, Zenon DEF CommandInv, Fresh
<1>6. HandInv'
  <2>1. ASSUME NEW u \in Threads, u # t PROVE HandOf(u)'
    <3>1. pc[u] = "append" => Fresh(my[u].cmd)' /\ my'[t].cmd # my[u].cmd
      <4>1. pc[u] = "append" => my[u].cmd \in AllCommands /\ Fresh(my[u].cmd) /\ my[u].cmd # n
        BY <1>2 DEF HandInv, HandOf, InEnqueue, Appending
      <4>2. my'[u] = my[u] BY <1>2, <2>1 DEF Alone
      <4>3. pc[u] = "append" => command'[my'[u].cmd].status = "new" BY <1>2, <4>1, <4>2 DEF Fresh
      <4> QED BY <1>2, <4>1, <4>3 DEF Fresh
    <3>2. created <= created' BY <1>1, <1>2 DEF Typed
    <3> QED BY <1>2, <2>1, <3>1, <3>2, HandKept
  <2>2. HandOf(t)'
    <3>1. my[t].event = None /\ my[t].cmd = None BY <1>3 DEF HandInv, HandOf, InEnqueue, Appending
    <3>2. n \in AllCommands /\ n <= created' /\ command'[n].status = "new" /\ n # None
      <4>1. n \in AllCommands /\ n \in Int /\ n # None BY <1>2, CommandFacts DEF Commands
      <4> QED BY <1>2, <4>1 DEF Fresh
    <3>3. \A r \in Threads : my'[r].cmd = n => r = t
      <4> SUFFICES ASSUME NEW r \in Threads, r # t, my'[r].cmd = n PROVE FALSE OBVIOUS
      <4>1. my[r].cmd = n BY <1>2 DEF Alone
      <4>2. HandOf(r) /\ pc[r] \notin InEnqueue BY <1>2, <4>1 DEF HandInv
      <4>3. pc[r] = "signal" /\ Done(n) BY <3>2, <4>1, <4>2 DEF HandOf
      <4> QED BY <1>2, <4>3 DEF Fresh, Done
    <3>5. /\ my'[t].cmd = n /\ my'[t].event = None /\ pc'[t] = "append" /\ n \in Commands
          /\ command'[n].queue \in Queues /\ command'[n].queue \in Streams[t]
          /\ command'[n].kind \in {"user", "finish"}
          /\ my'[t].op \in {"finish", "terminate"} => my'[t].on \in Queues
      BY <1>2, <1>3, <3>1
    <3> QED BY <3>2, <3>3, <3>5 DEF HandOf, InEnqueue, Appending, Fresh
  <2> QED BY <2>1, <2>2 DEF HandInv
<1>7. ASSUME NEW x \in Queues PROVE OrderOf(x)' /\ QueueOf(x)' /\ WorkerOf(x)'
  <2>1. \A d \in AllCommands : Fresh(d) /\ command'[d].status # "new" => command'[d].queue # x
    BY <1>2 DEF Fresh
  <2>2. \A d \in AllCommands : ~Fresh(d) /\ command[d].queue = x =>
          command'[d].status = command[d].status
    BY <1>2
  <2>3. x # t /\ x \in Threads BY CommandFacts
  <2>4. /\ queue'[x].order = queue[x].order /\ queue'[x].fifo = queue[x].fifo
        /\ queue'[x].batch = queue[x].batch /\ my'[x].taken = my[x].taken
    BY <1>2, <1>3, <2>3 DEF Alone
  <2> QED BY <1>2, <2>1, <2>2, <2>3, <2>4, OrderKept, QueueKept, WorkerKept
<1> QED BY <1>2, <1>5, <1>6, <1>7 DEF InvOrder, OrderInv, QueueInv, WorkerInv

(* The marker that notifyCmdQueue() makes. *)
MakesMarker(p, e, m) ==
  /\ e \in Commands /\ m \in AllCommands \ Commands /\ m = NotifyMarker(e) /\ e # m
  /\ e = my[p].event /\ pc[p] = "await"
  /\ Fresh(m) /\ ~Fresh(e) /\ \A u \in Threads : pc[u] \in InEnqueue => my[u].cmd # m
  /\ command'[e].notified
  /\ \A d \in AllCommands :
       /\ d \notin {e, m} => command'[d] = command[d]
       /\ d # e => command'[d].notified = command[d].notified
       /\ d # m => command'[d].kind = command[d].kind /\ command'[d].queue = command[d].queue
       /\ command'[d].status = command[d].status /\ command'[d].waits = command[d].waits
  /\ command'[m].kind = "notify" /\ command'[m].queue = command[e].queue
  /\ command[e].queue \in Queues
  /\ pc'[p] = "append" /\ \A u \in Threads \ {p} : pc'[u] = pc[u]
  /\ my'[p].cmd = m /\ my'[p].event = e /\ my'[p].taken = my[p].taken
  /\ my'[p].todo = my[p].todo /\ my'[p].failed = my[p].failed
  /\ my'[p].op = my[p].op /\ my'[p].on = my[p].on /\ my'[p].due = my[p].due
  /\ UNCHANGED <<created, handles, queue, active>>
  /\ Typed' /\ Steady /\ Alone(p)

(* notifyCmdQueue() does this when the queue was not told yet. *)
LEMMA MarkerFacts ==
  ASSUME InvOrder, NEW p \in Threads, NotifyCmdQueue(p), Sends(p)
  PROVE  \E e, m : MakesMarker(p, e, m)
<1> Typed /\ HandOf(p) /\ CommandInv /\ HandInv BY DEF InvOrder, HandInv
<1> DEFINE e == my[p].event
           m == NotifyMarker(e)
<1>1. /\ pc[p] = "await" /\ command[e].queue # None /\ ~command[e].notified
      /\ command' = [command EXCEPT ![e].notified = TRUE, ![m].kind = "notify",
                                    ![m].queue = command[e].queue]
      /\ my' = [my EXCEPT ![p].cmd = m] /\ Goto(p, "append")
      /\ UNCHANGED <<created, handles, queue, active>>
  BY Zenon DEF NotifyCmdQueue, Sends
<1>2. e \in Commands /\ e \in AllCommands /\ m \in AllCommands \ Commands /\ e # m /\ ~Fresh(e)
  <2>1. e \in Commands BY <1>1, Fields DEF HandOf
  <2> QED BY <2>1, CommandFacts DEF HandOf
<1>3. Fresh(m) BY <1>1, <1>2, Zenon DEF CommandInv
<1>4. \A u \in Threads : pc[u] \in InEnqueue => my[u].cmd # m
  <2> SUFFICES ASSUME NEW u \in Threads, pc[u] \in InEnqueue, my[u].cmd = m PROVE FALSE OBVIOUS
  <2>1. my[u].cmd \notin Commands /\ HandOf(u) BY <1>2 DEF HandInv
  <2>2. /\ my[u].event # None /\ m = NotifyMarker(my[u].event)
        /\ command[my[u].event].notified
    BY <2>1, Zenon DEF HandOf
  <2>3. my[u].event \in Commands BY <2>2, Fields
  <2>4. my[u].event = e BY <1>2, <2>2, <2>3, CommandFacts
  <2> QED BY <1>1, <2>2, <2>4, Zenon
<1>5. /\ pc' \in [Threads -> Labels] /\ pc'[p] = "append"
      /\ \A u \in Threads \ {p} : pc'[u] = pc[u]
  BY <1>1, GotoFacts DEF Labels, Typed
<1> HIDE DEF m
<1>6. /\ my' \in [Threads -> Locals] /\ my'[p].cmd = m /\ my'[p].event = e
      /\ my'[p].taken = my[p].taken /\ my'[p].todo = my[p].todo /\ my'[p].failed = my[p].failed
      /\ my'[p].op = my[p].op /\ my'[p].on = my[p].on /\ my'[p].due = my[p].due
      /\ \A u \in Threads \ {p} : my'[u] = my[u]
  BY <1>1, <1>2 DEF Typed, Locals
<1> HIDE DEF e
<1>7. command[e].queue \in Queues BY <1>1, <1>2, Fields
<1> DEFINE r == [command[e] EXCEPT !.notified = TRUE]
           s == [command[m] EXCEPT !.kind = "notify", !.queue = command[e].queue]
<1>8. command' = [command EXCEPT ![e] = r, ![m] = s] BY <1>1, <1>2
<1>9. command[e] \in CommandObject /\ command[m] \in CommandObject BY <1>2 DEF Typed
<1>10. /\ r \in CommandObject /\ r.notified /\ r.kind = command[e].kind
       /\ r.queue = command[e].queue /\ r.waits = command[e].waits /\ r.status = command[e].status
  BY <1>9 DEF CommandObject
<1>11. /\ s \in CommandObject /\ s.notified = command[m].notified /\ s.kind = "notify"
       /\ s.queue = command[e].queue /\ s.waits = command[m].waits /\ s.status = command[m].status
  BY <1>7, <1>9 DEF CommandObject, Kinds
<1> HIDE DEF r, s
<1>12. /\ command' \in [AllCommands -> CommandObject] /\ command'[e] = r /\ command'[m] = s
       /\ \A d \in AllCommands \ {e, m} : command'[d] = command[d]
  BY <1>2, <1>8, <1>10, <1>11 DEF Typed
<1>13. \A d \in AllCommands :
         /\ d \notin {e, m} => command'[d] = command[d]
         /\ d # e => command'[d].notified = command[d].notified
         /\ d # m => command'[d].kind = command[d].kind /\ command'[d].queue = command[d].queue
         /\ command'[d].status = command[d].status /\ command'[d].waits = command[d].waits
  BY <1>10, <1>11, <1>12
<1>14. command'[e].notified BY <1>10, <1>12, Zenon
<1>15. command'[m].kind = "notify" /\ command'[m].queue = command[e].queue BY <1>11, <1>12
<1>16. Typed' BY <1>1, <1>5, <1>6, <1>12 DEF Typed
<1>17. Steady
  <2>1. ASSUME NEW d \in AllCommands, ~Fresh(d) \/ \E u \in Threads : pc[u] = "append" /\ my[u].cmd = d
        PROVE  /\ command'[d].queue = command[d].queue /\ command'[d].waits = command[d].waits
               /\ command'[d].kind = command[d].kind
    <3>1. d # m BY <1>3, <1>4, <2>1 DEF InEnqueue, Appending
    <3> QED BY <1>13, <3>1
  <2>2. ASSUME NEW d \in AllCommands PROVE command[d].notified => command'[d].notified
    BY <1>13, <1>14, Zenon
  <2>3. \A d \in AllCommands : /\ ~Fresh(d) => command'[d].status # "new"
                               /\ Done(d) => command'[d].status = command[d].status
    BY <1>13 DEF Fresh
  <2> QED BY <2>1, <2>2, <2>3, Zenon DEF Steady
<1>18. Alone(p) BY <1>5, <1>6 DEF Alone
<1>19. m = NotifyMarker(e) /\ e = my[p].event BY DEF m, e
<1>20. MakesMarker(p, e, m)
  BY <1>1, <1>2, <1>3, <1>4, <1>5, <1>6, <1>7, <1>13, <1>14, <1>15, <1>16, <1>17, <1>18, <1>19, Zenon
     DEF MakesMarker
<1> QED BY <1>20

(* A new marker is on no list. *)
LEMMA MarkerInv ==
  ASSUME InvOrder, NEW p \in Threads, NotifyCmdQueue(p), Sends(p)
  PROVE  InvOrder'
<1> Typed /\ CommandInv /\ HandInv /\ OrderInv /\ QueueInv /\ WorkerInv BY DEF InvOrder
<1>0. PICK e, m : MakesMarker(p, e, m) BY MarkerFacts
<1>1. /\ e \in Commands /\ m \in AllCommands \ Commands /\ m = NotifyMarker(e) /\ e # m
      /\ e = my[p].event /\ pc[p] = "await" /\ Fresh(m) /\ ~Fresh(e)
      /\ \A u \in Threads : pc[u] \in InEnqueue => my[u].cmd # m
      /\ \A d \in AllCommands :
           /\ d \notin {e, m} => command'[d] = command[d]
           /\ d # m => command'[d].kind = command[d].kind /\ command'[d].queue = command[d].queue
           /\ command'[d].status = command[d].status /\ command'[d].waits = command[d].waits
      /\ command'[m].kind = "notify" /\ command'[m].queue = command[e].queue
      /\ command[e].queue \in Queues
      /\ pc'[p] = "append" /\ \A u \in Threads \ {p} : pc'[u] = pc[u]
      /\ my'[p].cmd = m /\ my'[p].event = e /\ my'[p].taken = my[p].taken
      /\ my'[p].todo = my[p].todo /\ my'[p].failed = my[p].failed
      /\ my'[p].op = my[p].op /\ my'[p].on = my[p].on
      /\ UNCHANGED <<created, handles, queue, active>>
      /\ Typed' /\ Steady /\ Alone(p)
  BY <1>0, Zenon DEF MakesMarker
<1>2. command'[e].notified /\ \A d \in AllCommands : d # e => command'[d].notified = command[d].notified
  BY <1>0, Zenon DEF MakesMarker
<1>4. \A d \in AllCommands : (command'[d].status = "new" <=> Fresh(d)) BY <1>1 DEF Fresh
<1>5. CommandInv'
  <2>1. ASSUME NEW d \in Commands
        PROVE  /\ d > created' => command'[d].status = "new" /\ command'[d].queue = None
               /\ d <= created' /\ command'[d].status = "new" =>
                    \E u \in Clients : pc'[u] = "append" /\ my'[u].cmd = d
               /\ command'[d].kind # "notify"
    <3>1. d \in AllCommands /\ d # m /\ created' = created BY <1>1, CommandFacts
    <3>2. /\ d > created => Fresh(d) /\ command[d].queue = None
          /\ d <= created /\ Fresh(d) => \E u \in Clients : pc[u] = "append" /\ my[u].cmd = d
          /\ command[d].kind # "notify"
      BY Zenon DEF CommandInv
    <3>3. ASSUME NEW u \in Clients, pc[u] = "append" PROVE pc'[u] = "append" /\ my'[u] = my[u]
      <4>1. u \in Threads /\ u # p BY <1>1, <3>3, CommandFacts
      <4> QED BY <1>1, <3>3, <4>1 DEF Alone
    <3>4. d <= created' /\ command'[d].status = "new" =>
            \E u \in Clients : pc'[u] = "append" /\ my'[u].cmd = d
      BY <1>4, <3>1, <3>2, <3>3
    <3> QED BY <1>1, <1>4, <3>1, <3>2, <3>4
  <2>2. ASSUME NEW d \in Commands PROVE ~command'[d].notified => command'[NotifyMarker(d)].status = "new"
    <3>1. d \in AllCommands /\ NotifyMarker(d) \in AllCommands BY CommandFacts
    <3>2. ~command[d].notified => Fresh(NotifyMarker(d)) BY Zenon DEF CommandInv
    <3>3. command'[NotifyMarker(d)].status = "new" <=> Fresh(NotifyMarker(d)) BY <1>4, <3>1
    <3>4. d # e => command'[d].notified = command[d].notified BY <1>2, <3>1
    <3> QED BY <1>2, <3>2, <3>3, <3>4, Zenon
  <2>3. ASSUME NEW d \in AllCommands
        PROVE  /\ d \notin Commands => command'[d].kind \in {"user", "notify"}
               /\ command'[d].kind = "userEvent" => command'[d].queue = None /\ command'[d].status # "new"
               /\ \A c \in command'[d].waits : command'[c].status # "new"
    <3>1. \A c \in command[d].waits : c \in AllCommands /\ ~Fresh(c)
      BY Fields, CommandFacts DEF CommandInv
    <3>2. CASE d = m BY <1>1, <1>4, <3>1, <3>2
    <3>3. CASE d # m
      <4>1. /\ command'[d].kind = command[d].kind /\ command'[d].queue = command[d].queue
            /\ command'[d].waits = command[d].waits
        BY <1>1, <3>3
      <4> QED BY <1>4, <3>1, <4>1 DEF CommandInv
    <3> QED BY <3>2, <3>3
  <2>4. \A d \in handles' : command'[d].status # "new"
    <3>1. \A d \in handles : d \in AllCommands /\ ~Fresh(d) BY CommandFacts DEF CommandInv, Typed
    <3> QED BY <1>1, <1>4, <3>1
  <2>5. \A x \in Queues : queue'[x].last # None => /\ queue'[x].last \in Commands
                                                   /\ command'[queue'[x].last].status # "new"
                                                   /\ command'[queue'[x].last].queue = x
    <3>1. \A x \in Queues : queue[x].last # None => /\ queue[x].last \in AllCommands
                                                    /\ queue[x].last \in Commands
                                                    /\ ~Fresh(queue[x].last)
                                                    /\ command[queue[x].last].queue = x
      BY CommandFacts DEF CommandInv
    <3> QED BY <1>1, <1>4, <3>1
  <2> QED BY <2>1, <2>2, <2>3, <2>4, <2>5, Zenon DEF CommandInv, Fresh
<1>6. HandInv'
  <2>1. ASSUME NEW u \in Threads, u # p PROVE HandOf(u)'
    <3>1. pc[u] = "append" => Fresh(my[u].cmd)' /\ my'[p].cmd # my[u].cmd
      <4>1. pc[u] = "append" => my[u].cmd \in AllCommands /\ Fresh(my[u].cmd) /\ my[u].cmd # m
        BY <1>1 DEF HandInv, HandOf, InEnqueue, Appending
      <4>2. my'[u] = my[u] BY <1>1, <2>1 DEF Alone
      <4>3. pc[u] = "append" => command'[my'[u].cmd].status = "new" BY <1>4, <4>1, <4>2
      <4> QED BY <1>1, <4>1, <4>3 DEF Fresh
    <3>2. created <= created' BY <1>1 DEF Typed
    <3> QED BY <1>1, <2>1, <3>1, <3>2, HandKept
  <2>2. HandOf(p)'
    <3>1. \A r \in Threads : my'[r].cmd = m => r = p
      <4> SUFFICES ASSUME NEW r \in Threads, r # p, my'[r].cmd = m PROVE FALSE OBVIOUS
      <4>1. my[r].cmd = m /\ m # None BY <1>1, CommandFacts DEF Alone
      <4>2. HandOf(r) /\ pc[r] \notin InEnqueue BY <1>1, <4>1 DEF HandInv
      <4>3. pc[r] = "signal" /\ Done(m) BY <4>1, <4>2 DEF HandOf
      <4> QED BY <1>1, <4>3 DEF Fresh, Done
    <3>2. /\ my'[p].cmd \in AllCommands /\ command'[my'[p].cmd].queue \in Queues
          /\ my'[p].cmd \notin Commands /\ command'[my'[p].cmd].kind = "notify"
          /\ my'[p].event # None /\ my'[p].cmd = NotifyMarker(my'[p].event)
          /\ pc'[p] = "append" /\ command'[my'[p].cmd].status = "new"
          /\ command'[my'[p].event].status # "new"
      BY <1>1, <1>4, CommandFacts
    <3>3. command'[my'[p].event].notified BY <1>1, <1>2, Zenon
    <3>4. my'[p].op \in {"finish", "terminate"} => my'[p].on \in Queues BY <1>1 DEF HandInv, HandOf
    <3>5. /\ pc'[p] \notin InEnqueue \ {"append"} /\ pc'[p] \in InEnqueue
          /\ pc'[p] \notin {"swapLast", "dropMarker", "await", "sleep", "waiting", "awaited",
                            "signal", "idle", "finished", "stop", "join"}
      BY <3>2 DEF InEnqueue, Appending
    <3>6. \A r \in Threads : my'[r].cmd = my'[p].cmd => r = p BY <1>1, <3>1
    <3> QED BY <3>2, <3>3, <3>4, <3>5, <3>6, Zenon DEF HandOf, Fresh
  <2> QED BY <2>1, <2>2 DEF HandInv
<1>7. ASSUME NEW x \in Queues PROVE OrderOf(x)' /\ QueueOf(x)' /\ (x # p => WorkerOf(x)')
  <2>1. \A d \in AllCommands : Fresh(d) /\ command'[d].status # "new" => command'[d].queue # x BY <1>4
  <2>2. \A d \in AllCommands : ~Fresh(d) /\ command[d].queue = x =>
          command'[d].status = command[d].status
    BY <1>1
  <2>3. x \in Threads BY CommandFacts
  <2>4. /\ queue'[x].order = queue[x].order /\ queue'[x].fifo = queue[x].fifo
        /\ queue'[x].batch = queue[x].batch
    BY <1>1
  <2>5. my'[x].taken = my[x].taken BY <1>1, <2>3 DEF Alone
  <2> QED BY <1>1, <2>1, <2>2, <2>3, <2>4, <2>5, OrderKept, QueueKept, WorkerKept
<1>8. ASSUME p \in Queues PROVE WorkerOf(p)'
  <2>1. WorkerOf(p) BY <1>8 DEF WorkerInv
  <2>2. my[p].event # None /\ my[p].taken # None /\ my[p].taken \in AllCommands
    <3>1. my[p].event # None /\ my[p].taken \in AllCommands \cup {None} BY <1>1, CommandFacts, Fields
    <3> QED BY <1>1, <2>1, <3>1 DEF WorkerOf
  <2>3. \A c \in command[my[p].taken].waits :
          /\ c \in AllCommands /\ c # m /\ command'[c].queue = command[c].queue
          /\ command'[c].status = command[c].status
    <3>1. \A c \in command[my[p].taken].waits : c \in Commands BY <2>2, Fields
    <3>2. \A c \in command[my[p].taken].waits : c \in AllCommands /\ c # m BY <1>1, <3>1, CommandFacts
    <3> QED BY <1>1, <3>2
  <2>4. command'[my[p].taken].waits = command[my[p].taken].waits /\ queue' = queue BY <1>1, <2>2
  <2> QED BY <1>1, <2>1, <2>2, <2>3, <2>4 DEF WorkerOf, InEnqueue, Appending, Done
<1> QED BY <1>1, <1>5, <1>6, <1>7, <1>8 DEF InvOrder, OrderInv, QueueInv, WorkerInv

----------------------------------------
(* What the remaining steps leave alone. *)
SameCommands ==
  /\ UNCHANGED <<created, handles>>
  /\ \A d \in AllCommands : /\ command'[d].kind = command[d].kind
                            /\ command'[d].queue = command[d].queue
                            /\ command'[d].waits = command[d].waits
                            /\ command'[d].notified = command[d].notified
                            /\ command'[d].status = "new" <=> Fresh(d)

(* No command comes or goes, and none is appended. *)
LEMMA CommandKept ==
  ASSUME InvOrder, SameCommands,
         \A q \in Queues : queue'[q].last = queue[q].last,
         \A t \in Clients : pc[t] = "append" => pc'[t] = "append" /\ my'[t].cmd = my[t].cmd
  PROVE  CommandInv'
<1> Typed /\ CommandInv BY DEF InvOrder
<1>1. /\ created' = created /\ handles' = handles
      /\ \A d \in AllCommands : /\ command'[d].kind = command[d].kind
                                /\ command'[d].queue = command[d].queue
                                /\ command'[d].waits = command[d].waits
                                /\ command'[d].notified = command[d].notified
                                /\ command'[d].status = "new" <=> Fresh(d)
  BY DEF SameCommands
<1>2. Commands \subseteq AllCommands /\ \A d \in Commands : NotifyMarker(d) \in AllCommands
  BY CommandFacts
<1>3. \A d \in Commands :
        /\ d > created' => command'[d].status = "new" /\ command'[d].queue = None
        /\ d <= created' /\ command'[d].status = "new" =>
             \E t \in Clients : pc'[t] = "append" /\ my'[t].cmd = d
        /\ command'[d].kind # "notify"
  BY <1>1, <1>2 DEF CommandInv
<1>4. \A d \in Commands : ~command'[d].notified => command'[NotifyMarker(d)].status = "new"
  <2> SUFFICES ASSUME NEW d \in Commands, ~command'[d].notified
               PROVE  command'[NotifyMarker(d)].status = "new"
    OBVIOUS
  <2>1. ~command[d].notified BY <1>1, <1>2
  <2>2. Fresh(NotifyMarker(d)) BY <2>1, Zenon DEF CommandInv
  <2> QED BY <1>1, <1>2, <2>2
<1>5. \A d \in AllCommands :
        /\ d \notin Commands => command'[d].kind \in {"user", "notify"}
        /\ command'[d].kind = "userEvent" => command'[d].queue = None /\ command'[d].status # "new"
        /\ \A e \in command'[d].waits : command'[e].status # "new"
  <2>1. \A d \in AllCommands : \A e \in command[d].waits : e \in AllCommands /\ ~Fresh(e)
    BY <1>2, Fields DEF CommandInv
  <2> QED BY <1>1, <2>1 DEF CommandInv
<1>6. \A d \in handles' : command'[d].status # "new"
  <2>1. \A d \in handles : d \in AllCommands /\ ~Fresh(d) BY <1>2 DEF CommandInv, Typed
  <2> QED BY <1>1, <2>1
<1>7. \A q \in Queues : queue'[q].last # None => /\ queue'[q].last \in Commands
                                                 /\ command'[queue'[q].last].status # "new"
                                                 /\ command'[queue'[q].last].queue = q
  <2>1. \A q \in Queues : queue[q].last # None => /\ queue[q].last \in Commands
                                                  /\ queue[q].last \in AllCommands
                                                  /\ ~Fresh(queue[q].last)
                                                  /\ command[queue[q].last].queue = q
    BY <1>2 DEF CommandInv
  <2> QED BY <1>1, <2>1
<1> QED BY <1>3, <1>4, <1>5, <1>6, <1>7, Zenon DEF CommandInv, Fresh

(* A thread gives an event its final status. *)
LEMMA SettleFacts ==
  ASSUME Typed, NEW p \in Threads, NEW c \in AllCommands, NEW outcome \in {"complete", "error"},
         Settle(p, c, outcome), ~Fresh(c), ~Done(c)
  PROVE  /\ command' \in [AllCommands -> CommandObject] /\ command'[c].status = outcome
         /\ \A d \in AllCommands \ {c} : command'[d] = command[d]
         /\ UNCHANGED <<created, handles>> => SameCommands
         /\ Steady
         /\ pc' \in [Threads -> Labels] /\ pc'[p] = "signal"
         /\ \A u \in Threads \ {p} : pc'[u] = pc[u]
         /\ my' \in [Threads -> Locals] /\ my'[p].cmd = c /\ my'[p].event = my[p].event
         /\ my'[p].op = my[p].op /\ my'[p].on = my[p].on /\ my'[p].taken = my[p].taken
         /\ my'[p].todo = my[p].todo /\ my'[p].failed = my[p].failed
         /\ my'[p].due = my[p].due
         /\ \A u \in Threads \ {p} : my'[u] = my[u]
<1>1. /\ command' = [command EXCEPT ![c].status = outcome]
      /\ my' = [my EXCEPT ![p].cmd = c] /\ Goto(p, "signal")
  BY DEF Settle
<1>2. /\ command' \in [AllCommands -> CommandObject] /\ command'[c].status = outcome
      /\ \A d \in AllCommands : /\ d # c => command'[d] = command[d]
                                /\ command'[d].kind = command[d].kind
                                /\ command'[d].queue = command[d].queue
                                /\ command'[d].waits = command[d].waits
                                /\ command'[d].notified = command[d].notified
  BY <1>1, WithStatus
<1>3. Steady BY <1>1, SteadyStatus
<1>4. \A d \in AllCommands : command'[d].status = "new" <=> Fresh(d) BY <1>2 DEF Fresh
<1>5. UNCHANGED <<created, handles>> => SameCommands BY <1>2, <1>4 DEF SameCommands
<1>6. /\ pc' \in [Threads -> Labels] /\ pc'[p] = "signal"
      /\ \A u \in Threads \ {p} : pc'[u] = pc[u]
  <2>1. "signal" \in Labels /\ pc \in [Threads -> Labels] BY DEF Labels, Typed
  <2> QED BY <1>1, <2>1, GotoFacts
<1>7. /\ my' \in [Threads -> Locals] /\ my'[p].cmd = c /\ my'[p].event = my[p].event
      /\ my'[p].op = my[p].op /\ my'[p].on = my[p].on /\ my'[p].taken = my[p].taken
      /\ my'[p].todo = my[p].todo /\ my'[p].failed = my[p].failed
      /\ my'[p].due = my[p].due
      /\ \A u \in Threads \ {p} : my'[u] = my[u]
  BY <1>1 DEF Typed, Locals
<1> QED BY <1>2, <1>3, <1>5, <1>6, <1>7

(* A step of thread p touches, at most, the queue of which it is the worker. *)
LEMMA OwnStep ==
  ASSUME InvOrder, Typed', Steady, SameCommands, NEW p \in Threads, Alone(p),
         pc[p] # "append", pc'[p] # "append",
         \A u \in Threads : pc[u] = "append" => my[u].cmd # my'[p].cmd,
         \A q \in Queues : queue'[q].last = queue[q].last /\ queue'[q].order = queue[q].order,
         \A q \in Queues \ {p} :
           /\ queue'[q].fifo = queue[q].fifo /\ queue'[q].batch = queue[q].batch
           /\ \A c \in AllCommands : command[c].queue = q => command'[c].status = command[c].status,
         HandOf(p)', p \in Queues => QueueOf(p)' /\ WorkerOf(p)'
  PROVE  InvOrder'
<1> Typed /\ HandInv BY DEF InvOrder
<1>1. created <= created' BY DEF SameCommands, Typed
<1>2. \A u \in Threads \ {p} : pc[u] = "append" => pc'[u] = "append" /\ my'[u].cmd = my[u].cmd
  BY DEF Alone
<1>3. CommandInv'
  <2>1. \A t \in Clients : pc[t] = "append" => pc'[t] = "append" /\ my'[t].cmd = my[t].cmd
    BY <1>2, CommandFacts
  <2> QED BY <2>1, CommandKept
<1>4. HandInv'
  <2> SUFFICES ASSUME NEW u \in Threads, u # p PROVE HandOf(u)' BY DEF HandInv
  <2>1. pc[u] = "append" => Fresh(my[u].cmd)' /\ my'[p].cmd # my[u].cmd
    <3>1. ASSUME pc[u] = "append" PROVE my[u].cmd \in AllCommands /\ Fresh(my[u].cmd)
      BY <3>1 DEF HandInv, HandOf, InEnqueue, Appending
    <3>2. ASSUME pc[u] = "append" PROVE command'[my'[u].cmd].status = "new"
      BY <1>2, <3>1, <3>2 DEF SameCommands
    <3> QED BY <3>2 DEF Fresh
  <2> QED BY <1>1, <2>1, HandKept
<1>5. OrderInv' BY OrderKept DEF OrderInv, SameCommands, Fresh
<1>6. ASSUME NEW q \in Queues, q # p PROVE QueueOf(q)' /\ WorkerOf(q)'
  <2>1. my'[q].taken = my[q].taken BY <1>6, CommandFacts DEF Alone
  <2>2. QueueOf(q)' BY <1>6, <2>1, QueueKept
  <2>3. WorkerOf(q)' BY <1>6, WorkerKept
  <2> QED BY <2>2, <2>3
<1>7. QueueInv' /\ WorkerInv' BY <1>6 DEF QueueInv, WorkerInv
<1> QED BY <1>3, <1>4, <1>5, <1>7 DEF InvOrder

(* The application sets the status of a user event, which is on no queue. *)
LEMMA SetUserEventInv ==
  ASSUME InvOrder, NEW t \in Clients, NEW e \in handles, NEW outcome \in {"complete", "error"},
         SetUserEvent(t, e, outcome)
  PROVE  InvOrder'
<1> t \in Threads /\ t \notin Queues BY CommandFacts
<1> Typed /\ CommandInv /\ HandOf(t) /\ HandInv BY DEF InvOrder, HandInv
<1>1. /\ pc[t] = "idle" /\ command[e].kind = "userEvent" /\ ~Done(e)
      /\ Settle(t, e, outcome) /\ UNCHANGED <<created, handles, queue, active>>
  BY DEF SetUserEvent
<1>2. e \in AllCommands /\ ~Fresh(e) /\ command[e].queue = None
  BY <1>1, CommandFacts DEF Typed, CommandInv
<1>3. /\ command' \in [AllCommands -> CommandObject] /\ command'[e].status = outcome
      /\ \A d \in AllCommands \ {e} : command'[d] = command[d]
      /\ SameCommands /\ Steady
      /\ pc' \in [Threads -> Labels] /\ pc'[t] = "signal"
      /\ \A u \in Threads \ {t} : pc'[u] = pc[u]
      /\ my' \in [Threads -> Locals] /\ my'[t].cmd = e /\ my'[t].event = my[t].event
      /\ my'[t].op = my[t].op /\ my'[t].on = my[t].on
      /\ \A u \in Threads \ {t} : my'[u] = my[u]
  BY <1>1, <1>2, SettleFacts
<1>4. Typed' BY <1>1, <1>3 DEF Typed
<1>5. Alone(t) BY <1>3 DEF Alone
<1>6. HandOf(t)' BY <1>1, <1>2, <1>3, CommandFacts DEF HandOf, InEnqueue, Appending, Done, Fresh
<1>7. \A u \in Threads : pc[u] = "append" => my[u].cmd # e BY <1>2 DEF HandInv, HandOf
<1>8. \A q \in Queues : \A c \in AllCommands :
        command[c].queue = q => command'[c].status = command[c].status
  BY <1>2, <1>3, CommandFacts
<1>9. pc[t] # "append" /\ pc'[t] # "append" /\ queue' = queue BY <1>1, <1>3
<1> QED BY <1>3, <1>4, <1>5, <1>6, <1>7, <1>8, <1>9, OwnStep

(* The worker takes the first command of its queue. *)
LEMMA TakeInv == ASSUME InvOrder, NEW q \in Queues, Take(q) PROVE InvOrder'
<1> q \in Threads /\ q \notin Clients BY CommandFacts
<1> Typed /\ CommandInv /\ HandOf(q) /\ HandInv /\ QueueOf(q) /\ WorkerOf(q)
  BY DEF InvOrder, HandInv, QueueInv, WorkerInv
<1> DEFINE c == Head(queue[q].fifo)
           f == Tail(queue[q].fifo)
           W == command[c].waits
<1>1. /\ pc[q] \in {"dequeue", "recheck"} /\ queue[q].fifo # <<>>
      /\ queue' = [queue EXCEPT ![q].fifo = f]
      /\ my' = [my EXCEPT ![q].taken = c, ![q].todo = W, ![q].failed = FALSE]
      /\ Goto(q, "events") /\ UNCHANGED <<created, command, handles, active>>
  BY DEF Take
<1>2. /\ queue[q].fifo \in Seq(AllCommands) /\ f \in Seq(AllCommands)
      /\ c \in AllCommands /\ W \subseteq Commands
      /\ Len(queue[q].fifo) \in Nat /\ Len(queue[q].fifo) > 0
      /\ Len(f) = Len(queue[q].fifo) - 1 /\ c = queue[q].fifo[1]
      /\ DOMAIN f = 1..Len(f) /\ \A i \in 1..Len(f) : f[i] = queue[q].fifo[i + 1]
  <2>1. queue[q].fifo \in Seq(AllCommands) BY Fields
  <2>2. c \in AllCommands /\ f \in Seq(AllCommands) BY <1>1, <2>1
  <2>3. Len(queue[q].fifo) \in Nat /\ Len(queue[q].fifo) > 0 /\ Len(f) = Len(queue[q].fifo) - 1
    BY <1>1, <2>1
  <2>4. W \subseteq Commands BY <2>2, Fields
  <2> QED BY <1>1, <2>1, <2>2, <2>3, <2>4
<1> HIDE DEF c, f, W
<1>3. /\ my' \in [Threads -> Locals] /\ my'[q].cmd = my[q].cmd /\ my'[q].event = my[q].event
      /\ my'[q].op = my[q].op /\ my'[q].on = my[q].on
      /\ my'[q].taken = c /\ my'[q].todo = W /\ ~my'[q].failed
      /\ \A u \in Threads \ {q} : my'[u] = my[u]
  <2> DEFINE r == [my[q] EXCEPT !.taken = c, !.todo = W, !.failed = FALSE]
  <2>1. my' = [my EXCEPT ![q] = r] BY <1>1
  <2>2. my[q] \in Locals BY DEF Typed
  <2>3. /\ r \in Locals /\ r.cmd = my[q].cmd /\ r.event = my[q].event
        /\ r.op = my[q].op /\ r.on = my[q].on
        /\ r.taken = c /\ r.todo = W /\ ~r.failed
    BY <1>2, <2>2 DEF Locals
  <2> HIDE DEF r
  <2>4. my' \in [Threads -> Locals] /\ my'[q] = r /\ \A u \in Threads \ {q} : my'[u] = my[u]
    BY <2>1, <2>3 DEF Typed
  <2> QED BY <2>3, <2>4
<1>4. /\ queue' \in [Queues -> QueueObject] /\ queue'[q].fifo = f
      /\ \A x \in Queues : /\ x # q => queue'[x] = queue[x]
                           /\ queue'[x].batch = queue[x].batch
                           /\ queue'[x].order = queue[x].order
                           /\ queue'[x].last = queue[x].last
  <2> DEFINE r == [queue[q] EXCEPT !.fifo = f]
  <2>1. queue' = [queue EXCEPT ![q] = r] BY <1>1
  <2>2. queue[q] \in QueueObject BY DEF Typed
  <2>3. /\ r \in QueueObject /\ r.fifo = f /\ r.batch = queue[q].batch
        /\ r.order = queue[q].order /\ r.last = queue[q].last
    BY <1>2, <2>2 DEF QueueObject
  <2> HIDE DEF r
  <2> QED BY <2>1, <2>3, QueuePut
<1>5. /\ pc' \in [Threads -> Labels] /\ pc'[q] = "events"
      /\ \A u \in Threads \ {q} : pc'[u] = pc[u]
  <2>1. pc \in [Threads -> Labels] /\ "events" \in Labels BY DEF Typed, Labels
  <2> QED BY <1>1, <2>1, GotoFacts
<1>6. Typed' BY <1>1, <1>3, <1>4, <1>5 DEF Typed
<1>7. Alone(q) /\ Steady /\ SameCommands BY <1>1, <1>3, <1>5 DEF Alone, Steady, SameCommands, Fresh, Done
<1>8. /\ my[q].taken = None /\ my[q].event = None /\ my[q].cmd = None /\ c # None
      /\ command[c].status = "queued" /\ queue[q].batch = queue'[q].batch
  <2>1. 1 \in DOMAIN queue[q].fifo BY <1>2
  <2> QED BY <1>1, <1>2, <1>4, <2>1, CommandFacts DEF WorkerOf, HandOf, QueueOf, InEnqueue, Appending
<1>9. HandOf(q)' BY <1>1, <1>3, <1>5, <1>8 DEF HandOf, InEnqueue, Appending
<1>10. WorkerOf(q)'
  <2>1. command'[c].waits = W /\ command' = command BY <1>1 DEF W
  <2>2. \A e \in command'[my'[q].taken].waits \ (my'[q].todo \cup {my'[q].event}) : FALSE BY <1>3, <2>1
  <2>3. my'[q].taken = c /\ my'[q].event = None /\ my'[q].todo \subseteq command'[my'[q].taken].waits
    BY <1>3, <1>8, <2>1
  <2> QED BY <1>3, <1>5, <1>8, <2>2, <2>3 DEF WorkerOf, InEnqueue, Appending
<1>11. QueueOf(q)'
  <2>1. /\ Past(q) \in Nat /\ Rest(q) \in Nat /\ Len(queue[q].order) \in Nat
        /\ DOMAIN queue[q].fifo = 1..Len(queue[q].fifo)
        /\ DOMAIN queue[q].batch = 1..Len(queue[q].batch) /\ Len(queue[q].batch) \in Nat
        /\ Past(q) + Len(queue[q].batch) = Rest(q)
    BY <1>8, Places DEF QueueOf
  <2>2. Rest(q)' = Rest(q) + 1 /\ Past(q)' = Past(q)
    <3>1. queue'[q].order = queue[q].order /\ queue'[q].fifo = f /\ my'[q].taken = c BY <1>3, <1>4
    <3>2. Rest(q)' = Rest(q) + 1
      <4>1. Rest(q)' = Len(queue'[q].order) - Len(queue'[q].fifo) BY DEF Rest
      <4>2. Rest(q) = Len(queue[q].order) - Len(queue[q].fifo) BY DEF Rest
      <4>3. Len(queue'[q].order) = Len(queue[q].order) /\ Len(queue'[q].fifo) = Len(f) BY <3>1
      <4> QED BY <1>2, <2>1, <4>1, <4>2, <4>3
    <3>3. Past(q) = Rest(q) - Len(queue[q].batch) BY <1>8, <2>1
    <3>4. Past(q)' = Rest(q)' - 1 - Len(queue[q].batch)
      <4>1. Past(q)' = Rest(q)' - (IF my'[q].taken = None THEN 0 ELSE 1) - Len(queue'[q].batch)
        BY DEF Past
      <4>2. ~(my'[q].taken = None) BY <1>8, <3>1
      <4> QED BY <1>8, <4>1, <4>2
    <3> QED BY <2>1, <3>2, <3>3, <3>4
  <2>3. \A i \in 1..Len(queue[q].fifo) :
          /\ queue[q].fifo[i] = queue[q].order[Rest(q) + i]
          /\ command[queue[q].fifo[i]].status = "queued"
    BY <2>1 DEF QueueOf
  <2>4. ASSUME NEW i \in DOMAIN queue'[q].fifo
        PROVE  /\ queue'[q].fifo[i] = queue'[q].order[Rest(q)' + i]
               /\ command'[queue'[q].fifo[i]].status = "queued"
    <3>1. i \in 1..Len(f) /\ i + 1 \in 1..Len(queue[q].fifo) /\ f[i] = queue[q].fifo[i + 1]
      BY <1>2, <1>4, <2>4
    <3>2. f[i] = queue[q].order[Rest(q) + (i + 1)] /\ command[f[i]].status = "queued" BY <2>3, <3>1
    <3>3. Rest(q) + (i + 1) = Rest(q)' + i BY <2>1, <2>2, <3>1
    <3> QED BY <1>1, <1>4, <3>2, <3>3
  <2>5. c = queue[q].order[Rest(q)']
    <3>1. 1 \in 1..Len(queue[q].fifo) BY <1>2
    <3> QED BY <1>2, <2>2, <2>3, <3>1
  <2>6. /\ queue'[q].batch = queue[q].batch /\ queue'[q].order = queue[q].order
        /\ command' = command /\ my'[q].taken = c
    BY <1>1, <1>3, <1>4
  <2>7. \A i \in DOMAIN queue'[q].batch :
         /\ queue'[q].batch[i] = queue'[q].order[Past(q)' + i]
         /\ command'[queue'[q].batch[i]].status \in {"submitted", "complete", "error"}
         /\ i > 1 => ~Done(queue[q].batch[i])'
         /\ command'[queue'[q].batch[i]].status = "submitted" =>
              \A e \in command'[queue'[q].batch[i]].waits :
                command'[e].queue # q => command'[e].status = "complete"
    BY <2>2, <2>6 DEF QueueOf, Done
  <2>8. \A i \in 1..Past(q)' : Done(queue[q].order[i])' BY <2>2, <2>6 DEF QueueOf, Done
  <2> QED BY <1>8, <2>1, <2>2, <2>4, <2>5, <2>6, <2>7, <2>8 DEF QueueOf
<1>12. \A u \in Threads : pc[u] = "append" => my[u].cmd # my'[q].cmd
  BY <1>3, <1>8, CommandFacts DEF HandInv, HandOf, InEnqueue, Appending
<1>13. /\ \A x \in Queues : queue'[x].last = queue[x].last /\ queue'[x].order = queue[x].order
       /\ \A x \in Queues \ {q} :
            /\ queue'[x].fifo = queue[x].fifo /\ queue'[x].batch = queue[x].batch
            /\ \A d \in AllCommands : command[d].queue = x => command'[d].status = command[d].status
  BY <1>1, <1>4
<1> QED BY <1>1, <1>5, <1>6, <1>7, <1>9, <1>10, <1>11, <1>12, <1>13, OwnStep

(* What Insert does with the command c: it fails it, or submits it. *)
Inserts(q, c, status) ==
  /\ c \in AllCommands /\ command[c].status = "queued" /\ command[c].queue = q
  /\ command' = [command EXCEPT ![c].status = status]
  /\ status \in {"error", "submitted"}
  /\ pc[q] = "events" /\ my[q].todo = {} /\ my[q].taken = c
  /\ queue' \in [Queues -> QueueObject] /\ queue'[q].batch = Append(queue[q].batch, c)
  /\ \A x \in Queues : /\ x # q => queue'[x] = queue[x]
                       /\ queue'[x].fifo = queue[x].fifo /\ queue'[x].last = queue[x].last
                       /\ queue'[x].order = queue[x].order
  /\ pc' \in [Threads -> Labels]
  /\ status = "error" => pc'[q] = "signal" /\ my'[q].cmd = c
  /\ status = "submitted" => pc'[q] \in {"dequeue", "flushBatch"} /\ my'[q].cmd = my[q].cmd
  /\ \A u \in Threads \ {q} : pc'[u] = pc[u] /\ my'[u] = my[u]
  /\ my' \in [Threads -> Locals] /\ my'[q].taken = None /\ my'[q].event = my[q].event
  /\ my'[q].op = my[q].op /\ my'[q].on = my[q].on /\ my'[q].todo = my[q].todo
  /\ UNCHANGED <<created, handles, active>>

(* Insert does this, and fails a command exactly if an event of it failed. *)
LEMMA InsertFacts ==
  ASSUME InvOrder, NEW q \in Queues, Insert(q)
  PROVE  \E c, status : Inserts(q, c, status) /\ (my[q].failed <=> status = "error")
<1> q \in Threads /\ q \notin Clients BY CommandFacts
<1> Typed /\ OrderOf(q) /\ QueueOf(q) /\ WorkerOf(q) BY DEF InvOrder, OrderInv, QueueInv, WorkerInv
<1> DEFINE c == my[q].taken
           b == Append(queue[q].batch, c)
<1>1. /\ pc[q] = "events" /\ my[q].todo = {}
      /\ queue' = [queue EXCEPT ![q].batch = b]
      /\ UNCHANGED <<created, handles, active>>
  BY DEF Insert
<1>2. c # None /\ command[c].status = "queued" /\ c = queue[q].order[Rest(q)]
  BY <1>1 DEF WorkerOf, QueueOf
<1>3. c \in AllCommands /\ b \in Seq(AllCommands)
  <2>1. c \in AllCommands BY <1>2, Fields
  <2> QED BY <2>1, Fields
<1>4. command[c].queue = q
  <2>1. Rest(q) \in DOMAIN queue[q].order
    <3>1. /\ Past(q) \in Nat /\ Rest(q) \in Nat /\ Len(queue[q].order) \in Nat
          /\ Len(queue[q].fifo) \in Nat /\ Len(queue[q].batch) \in Nat
          /\ DOMAIN queue[q].order = 1..Len(queue[q].order)
          /\ Rest(q) + Len(queue[q].fifo) = Len(queue[q].order)
          /\ Past(q) + Len(queue[q].batch) + 1 = Rest(q)
      BY <1>2, Places DEF QueueOf
    <3>2. \A a, m, k, l, n \in Nat : a + l + 1 = m /\ m + n = k => m \in 1..k OBVIOUS
    <3>3. Rest(q) \in 1..Len(queue[q].order) BY <3>1, <3>2, Zenon
    <3> QED BY <3>1, <3>3
  <2> QED BY <1>2, <2>1 DEF OrderOf
<1> HIDE DEF b
<1>5. /\ queue' \in [Queues -> QueueObject] /\ queue'[q].batch = b
      /\ \A x \in Queues : /\ x # q => queue'[x] = queue[x]
                           /\ queue'[x].fifo = queue[x].fifo
                           /\ queue'[x].last = queue[x].last
                           /\ queue'[x].order = queue[x].order
  BY <1>1, <1>3, WithBatch
<1>6. PICK status \in {"error", "submitted"}, label \in {"signal", "dequeue", "flushBatch"},
            d \in AllCommands \cup {None} :
        /\ command' = [command EXCEPT ![c].status = status]
        /\ my' = [my EXCEPT ![q].cmd = d, ![q].taken = None]
        /\ Goto(q, label)
        /\ status = "error" => label = "signal" /\ d = c
        /\ status = "submitted" => label # "signal" /\ d = my[q].cmd
        /\ my[q].failed <=> status = "error"
  <2>1. CASE my[q].failed
    <3>1. /\ command' = [command EXCEPT ![c].status = "error"]
          /\ my' = [my EXCEPT ![q].cmd = c, ![q].taken = None] /\ Goto(q, "signal")
      BY <2>1, Zenon DEF Insert
    <3> QED BY <1>3, <2>1, <3>1
  <2>2. CASE ~my[q].failed
    <3>1. /\ command' = [command EXCEPT ![c].status = "submitted"]
          /\ my' = [my EXCEPT ![q].taken = None]
          /\ Goto(q, IF command[c].kind = "user" THEN "dequeue" ELSE "flushBatch")
      BY <2>2, Zenon DEF Insert
    <3>2. my' = [my EXCEPT ![q].cmd = my[q].cmd, ![q].taken = None] BY <3>1 DEF Typed, Locals
    <3>3. my[q].cmd \in AllCommands \cup {None} BY Fields
    <3>4. \E label \in {"dequeue", "flushBatch"} : Goto(q, label) BY <3>1
    <3> QED BY <2>2, <3>1, <3>2, <3>3, <3>4
  <2> QED BY <2>1, <2>2
<1>7. /\ pc' \in [Threads -> Labels] /\ pc'[q] = label
      /\ \A u \in Threads \ {q} : pc'[u] = pc[u]
  <2>1. pc \in [Threads -> Labels] /\ label \in Labels BY DEF Typed, Labels
  <2> QED BY <1>6, <2>1, GotoFacts
<1>8. /\ my' \in [Threads -> Locals] /\ my'[q].cmd = d /\ my'[q].event = my[q].event
      /\ my'[q].op = my[q].op /\ my'[q].on = my[q].on
      /\ my'[q].taken = None /\ my'[q].todo = my[q].todo
      /\ \A u \in Threads \ {q} : my'[u] = my[u]
  <2> DEFINE r == [my[q] EXCEPT !.cmd = d, !.taken = None]
  <2>1. my' = [my EXCEPT ![q] = r] BY <1>6
  <2>2. my[q] \in Locals BY DEF Typed
  <2>3. /\ r \in Locals /\ r.cmd = d /\ r.event = my[q].event
        /\ r.op = my[q].op /\ r.on = my[q].on
        /\ r.taken = None /\ r.todo = my[q].todo
    BY <2>2 DEF Locals
  <2> HIDE DEF r
  <2>4. my' \in [Threads -> Locals] /\ my'[q] = r /\ \A u \in Threads \ {q} : my'[u] = my[u]
    BY <2>1, <2>3 DEF Typed
  <2> QED BY <2>3, <2>4
<1>9. status = "error" => pc'[q] = "signal" /\ my'[q].cmd = c BY <1>6, <1>7, <1>8
<1>10. status = "submitted" => pc'[q] \in {"dequeue", "flushBatch"} /\ my'[q].cmd = my[q].cmd
  BY <1>6, <1>7, <1>8
<1>11. queue'[q].batch = Append(queue[q].batch, c) BY <1>5 DEF b
<1>12. Inserts(q, c, status)
  BY <1>1, <1>2, <1>3, <1>4, <1>5, <1>6, <1>7, <1>8, <1>9, <1>10, <1>11 DEF Inserts
<1> QED BY <1>3, <1>6, <1>12

(* The command that the worker took joins the batch, failed or submitted. *)
LEMMA InsertInv == ASSUME InvOrder, NEW q \in Queues, Insert(q) PROVE InvOrder'
<1> q \in Threads /\ q \notin Clients BY CommandFacts
<1> Typed /\ CommandInv /\ HandOf(q) /\ HandInv /\ QueueOf(q) /\ WorkerOf(q) /\ OrderOf(q)
  BY DEF InvOrder, HandInv, QueueInv, WorkerInv, OrderInv
<1>1. PICK c, status : Inserts(q, c, status) /\ (my[q].failed <=> status = "error") BY InsertFacts
<1>2. /\ c \in AllCommands /\ command[c].status = "queued" /\ command[c].queue = q
      /\ command' = [command EXCEPT ![c].status = status]
      /\ status \in {"error", "submitted"}
      /\ pc[q] = "events" /\ my[q].todo = {} /\ my[q].taken = c
      /\ queue' \in [Queues -> QueueObject] /\ queue'[q].batch = Append(queue[q].batch, c)
      /\ \A x \in Queues : /\ x # q => queue'[x] = queue[x]
                           /\ queue'[x].fifo = queue[x].fifo /\ queue'[x].last = queue[x].last
                           /\ queue'[x].order = queue[x].order
      /\ pc' \in [Threads -> Labels]
      /\ status = "error" => pc'[q] = "signal" /\ my'[q].cmd = c
      /\ status = "submitted" => pc'[q] \in {"dequeue", "flushBatch"} /\ my'[q].cmd = my[q].cmd
      /\ \A u \in Threads \ {q} : pc'[u] = pc[u] /\ my'[u] = my[u]
      /\ my' \in [Threads -> Locals] /\ my'[q].taken = None /\ my'[q].event = my[q].event
      /\ my'[q].op = my[q].op /\ my'[q].on = my[q].on /\ my'[q].todo = my[q].todo
      /\ UNCHANGED <<created, handles, active>>
  BY <1>1 DEF Inserts
<1>3. /\ command' \in [AllCommands -> CommandObject] /\ command'[c].status = status
      /\ \A d \in AllCommands : /\ d # c => command'[d] = command[d]
                                /\ command'[d].kind = command[d].kind
                                /\ command'[d].queue = command[d].queue
                                /\ command'[d].waits = command[d].waits
                                /\ command'[d].notified = command[d].notified
  BY <1>2, WithStatus
<1>4. Steady
  <2>1. ~Done(c) BY <1>2 DEF Done
  <2> QED BY <1>2, <2>1, SteadyStatus
<1>5. SameCommands
  <2>1. \A d \in AllCommands : command'[d].status = "new" <=> Fresh(d) BY <1>2, <1>3 DEF Fresh
  <2> QED BY <1>2, <1>3, <2>1 DEF SameCommands
<1>6. Typed' BY <1>2, <1>3 DEF Typed
<1>7. Alone(q) BY <1>2 DEF Alone
<1>8. my[q].event = None /\ my[q].cmd = None /\ c # None
  BY <1>2, CommandFacts DEF WorkerOf, HandOf, InEnqueue, Appending
<1>9. HandOf(q)' BY <1>2, <1>3, <1>8 DEF HandOf, InEnqueue, Appending, Done
<1>10. WorkerOf(q)' BY <1>2, <1>3, <1>8 DEF WorkerOf, InEnqueue, Appending
<1>11. QueueOf(q)'
  <2>1. /\ Past(q) \in Nat /\ Rest(q) \in Nat
        /\ DOMAIN queue[q].fifo = 1..Len(queue[q].fifo)
        /\ DOMAIN queue[q].batch = 1..Len(queue[q].batch) /\ Len(queue[q].batch) \in Nat
        /\ Past(q) + Len(queue[q].batch) + 1 = Rest(q)
    BY <1>2, <1>8, Places DEF QueueOf
  <2> DEFINE n == Len(queue[q].batch)
             b == queue'[q].batch
  <2>2. /\ Len(b) = n + 1 /\ DOMAIN b = 1..n + 1 /\ b[n + 1] = c
        /\ \A i \in 1..n : b[i] = queue[q].batch[i]
    <3>1. queue[q].batch \in Seq(AllCommands) BY Fields
    <3> QED BY <1>2, <3>1
  <2>3. Rest(q)' = Rest(q)
    <3>1. queue'[q].order = queue[q].order /\ queue'[q].fifo = queue[q].fifo BY <1>2
    <3> QED BY <3>1 DEF Rest
  <2> HIDE DEF b
  <2>4. Past(q)' = Past(q)
    <3>1. Past(q)' = Rest(q)' - (IF my'[q].taken = None THEN 0 ELSE 1) - Len(queue'[q].batch) BY DEF Past
    <3>2. Past(q)' = Rest(q) - (n + 1) BY <1>2, <2>1, <2>2, <2>3, <3>1 DEF b
    <3> QED BY <2>1, <3>2
  <2>5. \A i \in 1..n :
         /\ queue[q].batch[i] \in AllCommands
         /\ queue[q].batch[i] = queue[q].order[Past(q) + i]
         /\ command[queue[q].batch[i]].status \in {"submitted", "complete", "error"}
         /\ i > 1 => ~Done(queue[q].batch[i])
         /\ command[queue[q].batch[i]].status = "submitted" =>
              \A e \in command[queue[q].batch[i]].waits :
                command[e].queue # q => command[e].status = "complete"
    <3>1. queue[q].batch \in Seq(AllCommands) BY Fields
    <3> QED BY <2>1, <3>1 DEF QueueOf
  <2>6. \A d \in AllCommands : \A e \in command[d].waits :
          e \in AllCommands /\ (command[e].status = "complete" => command'[e].status = "complete")
    <3>1. \A d \in AllCommands : \A e \in command[d].waits : e \in AllCommands BY Fields, CommandFacts
    <3> QED BY <1>2, <1>3, <3>1
  <2>7. ASSUME NEW i \in 1..n + 1
        PROVE  /\ b[i] = queue'[q].order[Past(q)' + i]
               /\ command'[b[i]].status \in {"submitted", "complete", "error"}
               /\ i > 1 => ~(command'[b[i]].status \in {"complete", "error"})
               /\ command'[b[i]].status = "submitted" =>
                    \A e \in command'[b[i]].waits :
                      command'[e].queue # q => command'[e].status = "complete"
    <3>1. CASE i \in 1..n
      <4>1. b[i] \in AllCommands /\ b[i] # c /\ b[i] = queue[q].batch[i] BY <1>2, <2>2, <2>5, <3>1
      <4>2. command'[b[i]] = command[b[i]] BY <1>3, <4>1
      <4>3. b[i] = queue'[q].order[Past(q)' + i] BY <1>2, <2>4, <2>5, <3>1, <4>1
      <4>4. /\ command[b[i]].status \in {"submitted", "complete", "error"}
            /\ i > 1 => ~(command[b[i]].status \in {"complete", "error"})
            /\ command[b[i]].status = "submitted" =>
                 \A e \in command[b[i]].waits :
                   command[e].queue # q => command[e].status = "complete"
        BY <2>5, <3>1, <4>1 DEF Done
      <4>5. \A e \in command[b[i]].waits : e \in AllCommands /\ command'[e].queue = command[e].queue
        BY <1>3, <2>6, <4>1
      <4>6. command'[b[i]].status = "submitted" =>
              \A e \in command'[b[i]].waits :
                command'[e].queue # q => command'[e].status = "complete"
        BY <2>6, <4>1, <4>2, <4>4, <4>5
      <4> QED BY <4>2, <4>3, <4>4, <4>6
    <3>2. CASE i = n + 1
      <4>1. b[i] = c /\ Past(q)' + i = Rest(q) BY <2>1, <2>2, <2>4, <3>2
      <4>2. c = queue'[q].order[Past(q)' + i] BY <1>2, <1>8, <4>1 DEF QueueOf
      <4>3. status = "error" => i = 1
        <5>1. status = "error" => queue[q].batch = <<>> BY <1>1, <1>2, <1>8, Zenon DEF WorkerOf
        <5> QED BY <3>2, <5>1
      <4>4. status = "submitted" => \A e \in command'[c].waits :
              command'[e].queue # q => command'[e].status = "complete"
        <5>1. status = "submitted" => ~my[q].failed BY <1>1
        <5>2. \A e \in command[c].waits \ {None} :
                command[e].queue # q => my[q].failed \/ command[e].status = "complete"
          BY <1>2, <1>8 DEF WorkerOf
        <5>3. \A e \in command[c].waits : e # None BY <1>2, <2>6, CommandFacts
        <5> QED BY <1>2, <1>3, <2>6, <5>1, <5>2, <5>3
      <4> QED BY <1>2, <1>3, <4>1, <4>2, <4>3, <4>4
    <3>3. i \in 1..n \/ i = n + 1 BY <2>1
    <3> QED BY <3>1, <3>2, <3>3
  <2>8. \A i \in DOMAIN queue'[q].fifo :
          /\ queue'[q].fifo[i] = queue'[q].order[Rest(q)' + i]
          /\ command'[queue'[q].fifo[i]].status = "queued"
    <3>1. \A i \in DOMAIN queue[q].fifo :
            /\ queue[q].fifo[i] \in AllCommands /\ queue[q].fifo[i] # c
            /\ queue[q].fifo[i] = queue[q].order[Rest(q) + i]
            /\ command[queue[q].fifo[i]].status = "queued"
      <4>1. ASSUME NEW i \in DOMAIN queue[q].fifo PROVE queue[q].fifo[i] # c
        <5>1. queue[q].fifo[i] = queue[q].order[Rest(q) + i] /\ c = queue[q].order[Rest(q)]
          BY <1>2, <1>8 DEF QueueOf
        <5>2. Rest(q) \in DOMAIN queue[q].order /\ Rest(q) + i \in DOMAIN queue[q].order
          <6>1. /\ Len(queue[q].order) \in Nat /\ Len(queue[q].fifo) \in Nat
                /\ Rest(q) + Len(queue[q].fifo) = Len(queue[q].order)
                /\ DOMAIN queue[q].order = 1..Len(queue[q].order)
                /\ i \in 1..Len(queue[q].fifo)
            BY <2>1, <4>1, Places
          <6>2. \A a, m, k, l, r \in Nat : a + m + 1 = r /\ r + l = k => r \in 1..k OBVIOUS
          <6>3. \A k, l, r \in Nat : r + l = k => \A j \in 1..l : r + j \in 1..k OBVIOUS
          <6>4. \A j \in 1..Len(queue[q].fifo) : Rest(q) + j \in 1..Len(queue[q].order)
            BY <2>1, <6>1, <6>3, Zenon
          <6>5. Past(q) + Len(queue[q].batch) + 1 = Rest(q) BY <2>1
          <6>6. /\ Past(q) \in Nat /\ Rest(q) \in Nat /\ Len(queue[q].batch) \in Nat
                /\ Len(queue[q].order) \in Nat /\ Len(queue[q].fifo) \in Nat
            BY <2>1, <6>1
          <6>7. Rest(q) \in 1..Len(queue[q].order) /\ Rest(q) + i \in 1..Len(queue[q].order)
            BY <6>1, <6>2, <6>5, <6>6, <6>4, Zenon
          <6> QED BY <6>1, <6>7, Zenon
        <5>3. Rest(q) + i # Rest(q) BY <2>1, <4>1
        <5> QED BY <5>1, <5>2, <5>3, Zenon DEF OrderOf
      <4>2. queue[q].fifo \in Seq(AllCommands) BY Fields
      <4> QED BY <2>1, <4>1, <4>2 DEF QueueOf
    <3> QED BY <1>2, <1>3, <2>3, <3>1
  <2>9. \A i \in 1..Past(q)' : command'[queue'[q].order[i]].status \in {"complete", "error"}
    <3>1. \A i \in 1..Past(q) :
            queue[q].order[i] \in AllCommands /\ command[queue[q].order[i]].status \in {"complete", "error"}
      <4>1. Past(q) \in Nat /\ Past(q) <= Len(queue[q].order) /\ Len(queue[q].order) \in Nat
        <5>1. /\ Len(queue[q].fifo) \in Nat /\ Len(queue[q].order) \in Nat
              /\ Rest(q) + Len(queue[q].fifo) = Len(queue[q].order)
          BY <2>1, Places
        <5>2. \A a, m, k, l, r \in Nat : a + m + 1 = r /\ r + l = k => a <= k OBVIOUS
        <5> QED BY <2>1, <5>1, <5>2, Zenon
      <4>2. queue[q].order \in Seq(AllCommands) /\ \A i \in 1..Past(q) : Done(queue[q].order[i])
        BY Fields DEF QueueOf
      <4> QED BY <4>1, <4>2 DEF Done
    <3>2. queue'[q].order = queue[q].order BY <1>2
    <3> QED BY <1>2, <1>3, <2>4, <3>1, <3>2
  <2>10. Past(q)' \in Nat /\ my'[q].taken = None BY <1>2, <2>1, <2>4
  <2> QED BY <2>2, <2>7, <2>8, <2>9, <2>10 DEF QueueOf, Done, b
<1>12. \A u \in Threads : pc[u] = "append" => my[u].cmd # my'[q].cmd
  <2>1. \A u \in Threads : pc[u] = "append" => my[u].cmd # None /\ my[u].cmd # c
    BY <1>2, CommandFacts DEF HandInv, HandOf, InEnqueue, Appending, Fresh
  <2> QED BY <1>2, <1>8, <2>1
<1>13. /\ \A x \in Queues : queue'[x].last = queue[x].last /\ queue'[x].order = queue[x].order
       /\ \A x \in Queues \ {q} :
            /\ queue'[x].fifo = queue[x].fifo /\ queue'[x].batch = queue[x].batch
            /\ \A d \in AllCommands : command[d].queue = x => command'[d].status = command[d].status
  BY <1>2, <1>3
<1>14. pc[q] # "append" /\ pc'[q] # "append" BY <1>2
<1> QED BY <1>4, <1>5, <1>6, <1>7, <1>9, <1>10, <1>11, <1>12, <1>13, <1>14, OwnStep

(* The first command of the batch is done and leaves it. *)
LEMMA BatchShrinks ==
  ASSUME InvOrder, NEW q \in Queues, queue[q].batch # <<>>, Done(Head(queue[q].batch)),
         command' = command, queue' = [queue EXCEPT ![q].batch = Tail(@)],
         my'[q].taken = my[q].taken
  PROVE  /\ QueueOf(q)' /\ queue' \in [Queues -> QueueObject]
         /\ \A x \in Queues : /\ x # q => queue'[x] = queue[x]
                              /\ queue'[x].fifo = queue[x].fifo
                              /\ queue'[x].last = queue[x].last
                              /\ queue'[x].order = queue[x].order
<1> Typed /\ QueueOf(q) BY DEF InvOrder, QueueInv
<1> DEFINE b == Tail(queue[q].batch)
           n == Len(queue[q].batch)
<1>1. queue' = [queue EXCEPT ![q].batch = b] OBVIOUS
<1>2. /\ b \in Seq(AllCommands) /\ n \in Nat /\ n > 0 /\ Len(b) = n - 1
      /\ DOMAIN b = 1..n - 1 /\ \A i \in 1..n - 1 : b[i] = queue[q].batch[i + 1]
      /\ Head(queue[q].batch) = queue[q].batch[1]
  <2>1. queue[q].batch \in Seq(AllCommands) BY Fields
  <2> QED BY <2>1
<1> HIDE DEF b
<1>3. /\ queue' \in [Queues -> QueueObject] /\ queue'[q].batch = b
      /\ \A x \in Queues : /\ x # q => queue'[x] = queue[x]
                           /\ queue'[x].fifo = queue[x].fifo
                           /\ queue'[x].last = queue[x].last
                           /\ queue'[x].order = queue[x].order
  BY <1>1, <1>2, WithBatch
<1>4. /\ Past(q) \in Nat /\ Rest(q) \in Nat
      /\ DOMAIN queue[q].fifo = 1..Len(queue[q].fifo)
      /\ DOMAIN queue[q].batch = 1..n
  BY Places DEF QueueOf
<1>5. Rest(q)' = Rest(q)
  <2>1. queue'[q].order = queue[q].order /\ queue'[q].fifo = queue[q].fifo BY <1>3
  <2> QED BY <2>1 DEF Rest
<1>6. Past(q)' = Past(q) + 1
  <2> DEFINE k == IF my[q].taken = None THEN 0 ELSE 1
  <2>1. Past(q) = Rest(q) - k - n BY DEF Past
  <2>2. Past(q)' = Rest(q)' - (IF my'[q].taken = None THEN 0 ELSE 1) - Len(queue'[q].batch) BY DEF Past
  <2>3. Past(q)' = Rest(q) - k - (n - 1) BY <1>2, <1>3, <1>5, <2>2
  <2>4. k \in Nat OBVIOUS
  <2> HIDE DEF k, n
  <2> QED BY <1>2, <1>4, <2>1, <2>3, <2>4
<1>7. ASSUME NEW i \in 1..n - 1
      PROVE  /\ b[i] = queue[q].order[Past(q)' + i]
             /\ command[b[i]].status \in {"submitted", "complete", "error"}
             /\ ~Done(b[i])
             /\ command[b[i]].status = "submitted" =>
                  \A e \in command[b[i]].waits :
                    command[e].queue # q => command[e].status = "complete"
  <2>1. i + 1 \in DOMAIN queue[q].batch /\ i + 1 > 1 /\ b[i] = queue[q].batch[i + 1] BY <1>2, <1>4
  <2>2. Past(q)' + i = Past(q) + (i + 1) BY <1>4, <1>6
  <2> QED BY <2>1, <2>2 DEF QueueOf
<1>8. ASSUME NEW i \in 1..Past(q)' PROVE Done(queue[q].order[i])
  <2>1. CASE i \in 1..Past(q) BY <2>1 DEF QueueOf
  <2>2. CASE i = Past(q) + 1
    <3>1. 1 \in DOMAIN queue[q].batch BY <1>2, <1>4
    <3>2. queue[q].batch[1] = queue[q].order[Past(q) + 1] BY <3>1 DEF QueueOf
    <3> QED BY <1>2, <2>2, <3>2
  <2>3. i \in 1..Past(q) \/ i = Past(q) + 1 BY <1>4, <1>6
  <2> QED BY <2>1, <2>2, <2>3
<1>9. QueueOf(q)'
  <2>1. /\ queue'[q].order = queue[q].order /\ queue'[q].fifo = queue[q].fifo
        /\ queue'[q].batch = b /\ DOMAIN b = 1..n - 1
    BY <1>2, <1>3
  <2>2. Past(q)' \in Nat BY <1>4, <1>6
  <2>3. \A i \in DOMAIN queue'[q].batch :
         /\ queue'[q].batch[i] = queue'[q].order[Past(q)' + i]
         /\ command'[queue'[q].batch[i]].status \in {"submitted", "complete", "error"}
         /\ i > 1 => ~(command'[queue'[q].batch[i]].status \in {"complete", "error"})
         /\ command'[queue'[q].batch[i]].status = "submitted" =>
              \A e \in command'[queue'[q].batch[i]].waits :
                command'[e].queue # q => command'[e].status = "complete"
    BY <1>7, <2>1 DEF Done
  <2>4. \A i \in 1..Past(q)' : command'[queue'[q].order[i]].status \in {"complete", "error"}
    BY <1>8, <2>1 DEF Done
  <2>5. \A i \in DOMAIN queue'[q].fifo :
         /\ queue'[q].fifo[i] = queue'[q].order[Rest(q)' + i]
         /\ command'[queue'[q].fifo[i]].status = "queued"
    BY <1>5, <2>1 DEF QueueOf
  <2>6. my'[q].taken # None => /\ my'[q].taken = queue'[q].order[Rest(q)']
                               /\ command'[my'[q].taken].status = "queued"
    BY <1>5, <2>1 DEF QueueOf
  <2> QED BY <2>2, <2>3, <2>4, <2>5, <2>6 DEF QueueOf, Done
<1> QED BY <1>3, <1>9

(* The worker completes the first command of the batch, or drops it. *)
LEMMA CompleteHeadInv == ASSUME InvOrder, NEW q \in Queues, CompleteHead(q) PROVE InvOrder'
<1> q \in Threads /\ q \notin Clients BY CommandFacts
<1> Typed /\ CommandInv /\ HandOf(q) /\ HandInv /\ QueueOf(q) /\ WorkerOf(q) /\ OrderOf(q)
  BY DEF InvOrder, HandInv, QueueInv, WorkerInv, OrderInv
<1> DEFINE c == Head(queue[q].batch)
           n == Len(queue[q].batch)
<1>1. /\ pc[q] = "flushBatch" /\ queue[q].batch # <<>> /\ UNCHANGED <<created, handles, active>>
  BY DEF CompleteHead
<1>2. /\ c \in AllCommands /\ c = queue[q].batch[1] /\ n \in Nat /\ n > 0
      /\ DOMAIN queue[q].batch = 1..n
  <2>1. queue[q].batch \in Seq(AllCommands) BY Fields
  <2> QED BY <1>1, <2>1
<1>3. /\ Past(q) \in Nat /\ Rest(q) \in Nat /\ Len(queue[q].order) \in Nat
      /\ DOMAIN queue[q].fifo = 1..Len(queue[q].fifo) /\ Len(queue[q].fifo) \in Nat
      /\ DOMAIN queue[q].order = 1..Len(queue[q].order)
      /\ Rest(q) + Len(queue[q].fifo) = Len(queue[q].order)
      /\ my[q].taken = None => Past(q) + n = Rest(q)
      /\ my[q].taken # None => Past(q) + n + 1 = Rest(q)
  BY Places DEF QueueOf
<1>4. /\ c = queue[q].order[Past(q) + 1]
      /\ command[c].status \in {"submitted", "complete", "error"}
  <2>1. 1 \in DOMAIN queue[q].batch BY <1>2
  <2> QED BY <1>2, <2>1 DEF QueueOf
<1>5. Past(q) + 1 \in DOMAIN queue[q].order
  <2> DEFINE l == Len(queue[q].order)
             k == Len(queue[q].fifo)
  <2>1. /\ l \in Nat /\ k \in Nat /\ Rest(q) + k = l
        /\ Past(q) + n = Rest(q) \/ Past(q) + n + 1 = Rest(q)
    BY <1>3
  <2> HIDE DEF l, k, n
  <2>2. Past(q) + 1 \in 1..l BY <1>2, <1>3, <2>1
  <2> QED BY <1>3, <2>2 DEF l
<1>6. command[c].queue = q /\ ~Fresh(c) BY <1>4, <1>5 DEF OrderOf
<1>7. /\ my[q].cmd = None /\ (my[q].taken # None => ~my[q].failed)
  <2>1. my[q].cmd = None BY <1>1 DEF HandOf, InEnqueue, Appending
  <2>2. my[q].taken # None => ~my[q].failed BY <1>1, Zenon DEF WorkerOf
  <2> QED BY <2>1, <2>2
<1>8. CASE command[c].status = "submitted"
  <2>1. Settle(q, c, "complete") /\ UNCHANGED queue BY <1>8 DEF CompleteHead
  <2>2. ~Done(c) BY <1>8 DEF Done
  <2> HIDE DEF c
  <2>3. /\ command' \in [AllCommands -> CommandObject] /\ command'[c].status = "complete"
        /\ \A d \in AllCommands \ {c} : command'[d] = command[d]
        /\ SameCommands /\ Steady
        /\ pc' \in [Threads -> Labels] /\ pc'[q] = "signal"
        /\ \A u \in Threads \ {q} : pc'[u] = pc[u]
        /\ my' \in [Threads -> Locals] /\ my'[q].cmd = c /\ my'[q].event = my[q].event
        /\ my'[q].op = my[q].op /\ my'[q].on = my[q].on /\ my'[q].taken = my[q].taken
        /\ my'[q].todo = my[q].todo /\ my'[q].failed = my[q].failed
        /\ \A u \in Threads \ {q} : my'[u] = my[u]
    BY <1>1, <1>2, <1>6, <2>1, <2>2, SettleFacts
  <2>4. Typed' /\ Alone(q) BY <1>1, <2>1, <2>3 DEF Typed, Alone
  <2>5. HandOf(q)'
    <3>1. my[q].event \in Commands \cup {None} BY Fields
    <3>2. my[q].event # None => command'[my[q].event].status # "new"
      BY <2>3, <3>1, CommandFacts DEF HandOf, SameCommands
    <3> QED BY <1>1, <1>2, <2>3, <3>2, CommandFacts DEF HandOf, InEnqueue, Appending, Fresh, Done
  <2>6. WorkerOf(q)'
    <3>1. \A d \in AllCommands : /\ command'[d].queue = command[d].queue
                                 /\ command'[d].waits = command[d].waits
                                 /\ \A e \in command[d].waits : e \in AllCommands
                                 /\ command[d].status \in {"complete", "error"} =>
                                      command'[d].status = command[d].status
      BY <2>3, Fields, CommandFacts DEF SameCommands, Steady, Done
    <3>2. my[q].taken # None => /\ my[q].taken \in AllCommands
                                /\ my[q].todo \subseteq command[my[q].taken].waits
                                /\ ~my[q].failed
      BY <1>7, Fields DEF WorkerOf
    <3>3. \A e \in command[my[q].taken].waits \ (my[q].todo \cup {my[q].event}) :
            my[q].taken # None /\ command[e].queue # q => command[e].status = "complete"
      BY <1>7 DEF WorkerOf
    <3>4. my[q].taken # None =>
            \A e \in command'[my[q].taken].waits \ (my[q].todo \cup {my[q].event}) :
              command'[e].queue # q => command'[e].status = "complete"
      BY <3>1, <3>2, <3>3
    <3>5. /\ my[q].event = None <=> my[q].taken = None
          /\ my[q].event # None => /\ my[q].event \in command'[my[q].taken].waits
                                   /\ command'[my[q].event].queue # q
      BY <1>1, <3>1, <3>2 DEF WorkerOf
    <3>6. /\ pc'[q] = "signal" /\ queue' = queue /\ my'[q].cmd = c /\ my'[q].event = my[q].event
          /\ my'[q].taken = my[q].taken /\ my'[q].todo = my[q].todo /\ command'[c].status = "complete"
          /\ my[q].taken # None => ~my'[q].failed
      BY <2>1, <2>3, <3>2
    <3>7. my[q].taken # None => my[q].todo \subseteq command'[my[q].taken].waits BY <3>1, <3>2
    <3> QED BY <1>1, <3>4, <3>5, <3>6, <3>7 DEF WorkerOf, InEnqueue, Appending, Done, c
  <2>7. QueueOf(q)'
    <3>1. Past(q)' = Past(q) /\ Rest(q)' = Rest(q) /\ queue' = queue /\ my'[q].taken = my[q].taken
      BY <2>1, <2>3 DEF Past, Rest
    <3>2. \A d \in AllCommands : /\ d # c => command'[d] = command[d]
                                 /\ command'[d].queue = command[d].queue
                                 /\ command'[d].waits = command[d].waits
                                 /\ \A e \in command[d].waits :
                                      command[e].status = "complete" => command'[e].status = "complete"
                                 /\ command[d].status \in {"complete", "error"} =>
                                      command'[d].status \in {"complete", "error"}
      BY <2>3, Fields, CommandFacts DEF SameCommands, Steady, Done
    <3>3. \A i \in DOMAIN queue[q].fifo :
            queue[q].fifo[i] \in AllCommands /\ queue[q].fifo[i] # c
      <4>1. queue[q].fifo \in Seq(AllCommands) BY Fields
      <4> QED BY <1>8, <4>1 DEF QueueOf
    <3>4. \A i \in DOMAIN queue[q].fifo :
            /\ queue[q].fifo[i] = queue[q].order[Rest(q) + i]
            /\ command'[queue[q].fifo[i]].status = "queued"
      BY <3>2, <3>3 DEF QueueOf
    <3>5. my[q].taken # None => /\ my[q].taken = queue[q].order[Rest(q)]
                                /\ command'[my[q].taken].status = "queued"
      <4>1. my[q].taken # None => my[q].taken \in AllCommands BY Fields
      <4> QED BY <1>8, <3>2, <4>1 DEF QueueOf
    <3>6. ASSUME NEW i \in DOMAIN queue[q].batch
          PROVE  /\ queue[q].batch[i] = queue[q].order[Past(q) + i]
                 /\ command'[queue[q].batch[i]].status \in {"submitted", "complete", "error"}
                 /\ i > 1 => ~(command'[queue[q].batch[i]].status \in {"complete", "error"})
                 /\ command'[queue[q].batch[i]].status = "submitted" =>
                      \A e \in command'[queue[q].batch[i]].waits :
                        command'[e].queue # q => command'[e].status = "complete"
      <4>1. /\ queue[q].batch[i] \in AllCommands
            /\ queue[q].batch[i] = queue[q].order[Past(q) + i]
            /\ command[queue[q].batch[i]].status \in {"submitted", "complete", "error"}
            /\ i > 1 => ~(command[queue[q].batch[i]].status \in {"complete", "error"})
            /\ command[queue[q].batch[i]].status = "submitted" =>
                 \A e \in command[queue[q].batch[i]].waits :
                   command[e].queue # q => command[e].status = "complete"
        <5>1. queue[q].batch \in Seq(AllCommands) BY Fields
        <5> QED BY <3>6, <5>1 DEF QueueOf, Done
      <4>2. \A e \in command[queue[q].batch[i]].waits :
              e \in AllCommands /\ command'[e].queue = command[e].queue
        BY <3>2, <4>1, Fields, CommandFacts
      <4>3. i > 1 => queue[q].batch[i] # c
        <5> SUFFICES ASSUME i > 1 PROVE Past(q) + i # Past(q) + 1 /\ Past(q) + i \in DOMAIN queue[q].order
          BY <1>4, <1>5, <4>1 DEF OrderOf
        <5> DEFINE l == Len(queue[q].order)
                   k == Len(queue[q].fifo)
        <5>1. /\ l \in Nat /\ k \in Nat /\ Rest(q) + k = l
              /\ Past(q) + n = Rest(q) \/ Past(q) + n + 1 = Rest(q)
          BY <1>3
        <5>2. i \in 1..n BY <1>2, <3>6
        <5> HIDE DEF l, k, n
        <5>3. Past(q) + i \in 1..l /\ Past(q) + i # Past(q) + 1 BY <1>2, <1>3, <5>1, <5>2
        <5> QED BY <1>3, <5>3 DEF l
      <4>4. CASE queue[q].batch[i] = c BY <1>2, <2>3, <3>6, <4>1, <4>3, <4>4
      <4>5. CASE queue[q].batch[i] # c BY <3>2, <4>1, <4>2, <4>5
      <4> QED BY <4>4, <4>5
    <3>7. \A i \in 1..Past(q) : command'[queue[q].order[i]].status \in {"complete", "error"}
      <4>1. \A i \in 1..Past(q) : queue[q].order[i] \in AllCommands
        <5> DEFINE l == Len(queue[q].order)
        <5>1. l \in Nat /\ DOMAIN queue[q].order = 1..l BY <1>3
        <5> HIDE DEF l
        <5>2. \A i \in 1..Past(q) : i \in DOMAIN queue[q].order BY <1>3, <1>5, <5>1
        <5> QED BY <5>2, Fields
      <4> QED BY <3>2, <4>1 DEF QueueOf, Done
    <3>8. /\ Past(q)' \in Nat
          /\ \A i \in 1..Past(q)' : command'[queue'[q].order[i]].status \in {"complete", "error"}
          /\ \A i \in DOMAIN queue'[q].fifo :
               /\ queue'[q].fifo[i] = queue'[q].order[Rest(q)' + i]
               /\ command'[queue'[q].fifo[i]].status = "queued"
      BY <1>3, <3>1, <3>4, <3>7
    <3>9. \A i \in DOMAIN queue'[q].batch :
            /\ queue'[q].batch[i] = queue'[q].order[Past(q)' + i]
            /\ command'[queue'[q].batch[i]].status \in {"submitted", "complete", "error"}
            /\ i > 1 => ~(command'[queue'[q].batch[i]].status \in {"complete", "error"})
            /\ command'[queue'[q].batch[i]].status = "submitted" =>
                 \A e \in command'[queue'[q].batch[i]].waits :
                   command'[e].queue # q => command'[e].status = "complete"
      BY <3>1, <3>6
    <3>10. my'[q].taken # None => /\ my'[q].taken = queue'[q].order[Rest(q)']
                                  /\ command'[my'[q].taken].status = "queued"
      BY <3>1, <3>5
    <3> QED BY <3>8, <3>9, <3>10 DEF QueueOf, Done
  <2>8. \A u \in Threads : pc[u] = "append" => my[u].cmd # my'[q].cmd BY <1>6, <2>3 DEF HandInv, HandOf
  <2>9. /\ pc[q] # "append" /\ pc'[q] # "append"
        /\ \A x \in Queues \ {q} : \A d \in AllCommands :
             command[d].queue = x => command'[d].status = command[d].status
    BY <1>1, <1>6, <2>3
  <2> QED BY <2>1, <2>3, <2>4, <2>5, <2>6, <2>7, <2>8, <2>9, OwnStep
<1>9. CASE command[c].status # "submitted"
  <2>1. /\ queue' = [queue EXCEPT ![q].batch = Tail(@)] /\ UNCHANGED <<command, pc, my>>
    BY <1>9 DEF CompleteHead
  <2>2. Done(c) BY <1>4, <1>9 DEF Done
  <2>3. /\ QueueOf(q)' /\ queue' \in [Queues -> QueueObject]
        /\ \A x \in Queues : /\ x # q => queue'[x] = queue[x]
                             /\ queue'[x].fifo = queue[x].fifo
                             /\ queue'[x].last = queue[x].last
                             /\ queue'[x].order = queue[x].order
    BY <1>1, <2>1, <2>2, BatchShrinks
  <2>4. Typed' /\ Alone(q) /\ Steady /\ SameCommands
    BY <1>1, <2>1, <2>3 DEF Typed, Alone, Steady, SameCommands, Fresh, Done
  <2>5. HandOf(q)' BY <1>1, <2>1 DEF HandOf, InEnqueue, Appending, Fresh, Done
  <2>6. WorkerOf(q)' BY <1>1, <1>7, <2>1 DEF WorkerOf, InEnqueue, Appending, Done
  <2>7. \A u \in Threads : pc[u] = "append" => my[u].cmd # my'[q].cmd
    BY <1>7, <2>1, CommandFacts DEF HandInv, HandOf, InEnqueue, Appending
  <2>8. pc[q] # "append" /\ pc'[q] # "append" BY <1>1, <2>1
  <2> QED BY <2>1, <2>3, <2>4, <2>5, <2>6, <2>7, <2>8, OwnStep
<1> QED BY <1>8, <1>9

(* The worker has signalled the first command of the batch, and drops it. *)
LEMMA SignalHeadInv == ASSUME InvOrder, NEW q \in Queues, SignalHead(q) PROVE InvOrder'
<1> q \in Threads /\ q \notin Clients BY CommandFacts
<1> Typed /\ HandOf(q) /\ HandInv /\ WorkerOf(q) BY DEF InvOrder, HandInv, WorkerInv
<1>1. /\ pc[q] = "signal" /\ command[my[q].cmd].status = "complete"
      /\ Signal(q, <<my[q].cmd>>, "flushBatch")
      /\ queue' = [queue EXCEPT ![q].batch = Tail(@)]
  BY DEF SignalHead
<1>2. /\ queue[q].batch # <<>> /\ Head(queue[q].batch) = my[q].cmd
      /\ Done(Head(queue[q].batch))
  BY <1>1 DEF WorkerOf, Done
<1>3. /\ pc' \in [Threads -> Labels] /\ pc'[q] = "flushBatch"
      /\ \A u \in Threads \ {q} : pc'[u] = pc[u] \/ (pc[u] = "waiting" /\ pc'[u] = "sleep")
      /\ my' \in [Threads -> Locals] /\ my'[q].cmd = None /\ my'[q].event = my[q].event
      /\ my'[q].op = my[q].op /\ my'[q].on = my[q].on /\ my'[q].taken = my[q].taken
      /\ my'[q].todo = my[q].todo /\ my'[q].failed = my[q].failed
      /\ \A u \in Threads \ {q} : my'[u] = my[u]
      /\ UNCHANGED <<created, command, handles, active>>
  <2>1. "flushBatch" \in Labels BY DEF Labels
  <2> QED BY <1>1, <2>1, SignalFacts
<1>4. /\ QueueOf(q)' /\ queue' \in [Queues -> QueueObject]
      /\ \A x \in Queues : /\ x # q => queue'[x] = queue[x]
                           /\ queue'[x].fifo = queue[x].fifo
                           /\ queue'[x].last = queue[x].last
                           /\ queue'[x].order = queue[x].order
  BY <1>1, <1>2, <1>3, BatchShrinks
<1>5. Typed' /\ Alone(q) /\ Steady /\ SameCommands
  BY <1>3, <1>4 DEF Typed, Alone, Steady, SameCommands, Fresh, Done
<1>6. HandOf(q)' BY <1>1, <1>3, CommandFacts DEF HandOf, InEnqueue, Appending, Fresh, Done
<1>7. WorkerOf(q)'
  <2>1. my[q].taken # None => ~my[q].failed BY <1>2, Zenon DEF WorkerOf
  <2> QED BY <1>1, <1>3, <2>1 DEF WorkerOf, InEnqueue, Appending, Done
<1>8. \A u \in Threads : pc[u] = "append" => my[u].cmd # my'[q].cmd
  BY <1>3, CommandFacts DEF HandInv, HandOf, InEnqueue, Appending
<1>9. /\ pc[q] # "append" /\ pc'[q] # "append"
      /\ \A x \in Queues : queue'[x].last = queue[x].last /\ queue'[x].order = queue[x].order
      /\ \A x \in Queues \ {q} :
           /\ queue'[x].fifo = queue[x].fifo /\ queue'[x].batch = queue[x].batch
           /\ \A d \in AllCommands : command[d].queue = x => command'[d].status = command[d].status
  BY <1>1, <1>3, <1>4
<1> QED BY <1>4, <1>5, <1>6, <1>7, <1>8, <1>9, OwnStep

(* The application makes a user event. *)
LEMMA CreateUserEventInv ==
  ASSUME InvOrder, NEW t \in Clients, CreateUserEvent(t)
  PROVE  InvOrder'
<1> t \in Threads BY CommandFacts
<1> Typed /\ CommandInv /\ HandInv /\ OrderInv /\ QueueInv /\ WorkerInv BY DEF InvOrder
<1> DEFINE e == created + 1
           r == [command[e] EXCEPT !.kind = "userEvent", !.status = "submitted"]
<1>1. /\ pc[t] = "idle" /\ created < MaxCommands /\ created' = e
      /\ command' = [command EXCEPT ![e].kind = "userEvent", ![e].status = "submitted"]
      /\ handles' = handles \cup {e} /\ UNCHANGED <<queue, active, pc, my>>
  BY DEF CreateUserEvent
<1>2. /\ e \in Commands /\ e \in AllCommands /\ e \in 0..MaxCommands /\ created \in Nat
  BY <1>1, CommandFacts DEF Typed, Commands
<1>3. Fresh(e) /\ command[e].queue = None BY <1>2 DEF CommandInv
<1>4. \A u \in Threads : pc[u] \in InEnqueue => my[u].cmd # e
  <2> SUFFICES ASSUME NEW u \in Threads, pc[u] \in InEnqueue, my[u].cmd = e PROVE FALSE OBVIOUS
  <2>1. e <= created
    <3>1. HandOf(u) BY DEF HandInv
    <3>2. my[u].cmd \in Commands => my[u].cmd <= created BY <3>1, Zenon DEF HandOf
    <3> QED BY <1>2, <3>2
  <2> QED BY <1>2, <2>1
<1>5. command' = [command EXCEPT ![e] = r] BY <1>1
<1> HIDE DEF e
<1>6. /\ r \in CommandObject /\ r.kind = "userEvent" /\ r.status = "submitted"
      /\ r.queue = command[e].queue /\ r.waits = command[e].waits
      /\ r.notified = command[e].notified
  <2>1. command[e] \in CommandObject BY <1>2 DEF Typed
  <2> QED BY <2>1 DEF CommandObject, Kinds
<1> HIDE DEF r
<1>7. /\ command' \in [AllCommands -> CommandObject]
      /\ command'[e].kind = "userEvent" /\ command'[e].status = "submitted"
      /\ command'[e].queue = None
      /\ \A d \in AllCommands : /\ d # e => command'[d] = command[d]
                                /\ command'[d].queue = command[d].queue
                                /\ command'[d].waits = command[d].waits
                                /\ command'[d].notified = command[d].notified
                                /\ command'[d].status = "new" <=> Fresh(d) /\ d # e
  <2>1. /\ command' \in [AllCommands -> CommandObject] /\ command'[e] = r
        /\ \A d \in AllCommands \ {e} : command'[d] = command[d]
    BY <1>2, <1>5, <1>6 DEF Typed
  <2> QED BY <1>3, <1>6, <2>1 DEF Fresh
<1>8. Typed' BY <1>1, <1>2, <1>7 DEF Typed
<1>9. Steady
  <2>1. ASSUME NEW c \in AllCommands, ~Fresh(c) \/ \E u \in Threads : pc[u] = "append" /\ my[u].cmd = c
        PROVE  c # e
    BY <1>3, <1>4, <2>1 DEF InEnqueue, Appending
  <2>2. \A c \in AllCommands : command[c].notified => command'[c].notified BY <1>7
  <2>3. \A c \in AllCommands : ~Fresh(c) => command'[c].status # "new" BY <1>7
  <2>4. \A c \in AllCommands : Done(c) => command'[c].status = command[c].status
    BY <1>3, <1>7 DEF Fresh, Done
  <2>5. \A c \in AllCommands :
          ~Fresh(c) \/ (\E u \in Threads : pc[u] = "append" /\ my[u].cmd = c) =>
            /\ command'[c].queue = command[c].queue /\ command'[c].waits = command[c].waits
            /\ command'[c].kind = command[c].kind
    BY <1>7, <2>1
  <2> QED BY <2>2, <2>3, <2>4, <2>5, Zenon DEF Steady
<1>10. Alone(t) BY <1>1 DEF Alone
<1>11. CommandInv'
  <2>1. ASSUME NEW d \in Commands
        PROVE  /\ d > created' => command'[d].status = "new" /\ command'[d].queue = None
               /\ d <= created' /\ command'[d].status = "new" =>
                    \E u \in Clients : pc'[u] = "append" /\ my'[u].cmd = d
               /\ command'[d].kind # "notify"
               /\ ~command'[d].notified => command'[NotifyMarker(d)].status = "new"
    <3>1. d \in AllCommands /\ NotifyMarker(d) \in AllCommands \ Commands BY CommandFacts
    <3>2. d \in Int /\ created \in Int /\ created' = created + 1 /\ e = created + 1
      BY <1>1, <1>2 DEF Commands, e
    <3>3. d > created' => command'[d].status = "new" /\ command'[d].queue = None
      BY <1>7, <3>1, <3>2 DEF CommandInv
    <3>4. d <= created' /\ command'[d].status = "new" =>
            \E u \in Clients : pc'[u] = "append" /\ my'[u].cmd = d
      BY <1>1, <1>7, <3>1, <3>2 DEF CommandInv
    <3>5. command'[d].kind # "notify" BY <1>7, <3>1 DEF CommandInv
    <3>6. ~command'[d].notified => command'[NotifyMarker(d)].status = "new"
      <4>1. ~command[d].notified => Fresh(NotifyMarker(d)) BY Zenon DEF CommandInv
      <4>2. command'[d].notified = command[d].notified /\ NotifyMarker(d) # e BY <1>2, <1>7, <3>1
      <4>3. Fresh(NotifyMarker(d)) => command'[NotifyMarker(d)].status = "new" BY <1>7, <3>1, <4>2
      <4> QED BY <4>1, <4>2, <4>3, Zenon
    <3> QED BY <3>3, <3>4, <3>5, <3>6
  <2>2. \A d \in AllCommands :
          /\ d \notin Commands => command'[d].kind \in {"user", "notify"}
          /\ command'[d].kind = "userEvent" => command'[d].queue = None /\ command'[d].status # "new"
          /\ \A c \in command'[d].waits : command'[c].status # "new"
    <3>1. \A d \in AllCommands : \A c \in command[d].waits : c \in AllCommands /\ ~Fresh(c)
      BY Fields, CommandFacts DEF CommandInv
    <3>2. \A d \in AllCommands : \A c \in command'[d].waits : command'[c].status # "new" BY <1>7, <3>1
    <3>3. \A d \in AllCommands :
            /\ d \notin Commands => command[d].kind \in {"user", "notify"}
            /\ command[d].kind = "userEvent" => command[d].queue = None /\ ~Fresh(d)
      BY DEF CommandInv
    <3>4. \A d \in AllCommands \ {e} :
            /\ d \notin Commands => command'[d].kind \in {"user", "notify"}
            /\ command'[d].kind = "userEvent" => command'[d].queue = None /\ command'[d].status # "new"
      BY <1>7, <3>3
    <3> QED BY <1>2, <1>7, <3>2, <3>4
  <2>3. \A d \in handles' : command'[d].status # "new"
    <3>1. \A d \in handles : d \in AllCommands /\ ~Fresh(d) BY CommandFacts DEF CommandInv, Typed
    <3> QED BY <1>1, <1>7, <3>1
  <2>4. \A q \in Queues : queue'[q].last # None => /\ queue'[q].last \in Commands
                                                   /\ command'[queue'[q].last].status # "new"
                                                   /\ command'[queue'[q].last].queue = q
    <3>1. \A q \in Queues : queue[q].last # None => /\ queue[q].last \in Commands
                                                    /\ queue[q].last \in AllCommands
                                                    /\ ~Fresh(queue[q].last)
                                                    /\ command[queue[q].last].queue = q
      BY CommandFacts DEF CommandInv
    <3> QED BY <1>1, <1>7, <3>1
  <2> QED BY <2>1, <2>2, <2>3, <2>4, Zenon DEF CommandInv, Fresh
<1>12. HandInv'
  <2>1. created <= created' BY <1>1, <1>2 DEF e
  <2>2. ASSUME NEW u \in Threads, u # t PROVE HandOf(u)'
    <3>1. pc[u] = "append" => Fresh(my[u].cmd)' /\ my'[t].cmd # my[u].cmd
      <4>1. pc[u] = "append" => my[u].cmd \in AllCommands /\ Fresh(my[u].cmd) /\ my[u].cmd # e
        BY <1>4 DEF HandInv, HandOf, InEnqueue, Appending
      <4>2. pc[u] = "append" => command'[my'[u].cmd].status = "new" BY <1>1, <1>7, <4>1
      <4>3. my[t].cmd = None BY <1>1 DEF HandInv, HandOf, InEnqueue, Appending
      <4> QED BY <1>1, <4>1, <4>2, <4>3, CommandFacts DEF Fresh
    <3> QED BY <1>8, <1>9, <1>10, <2>1, <2>2, <3>1, HandKept
  <2>3. HandOf(t)'
    <3>1. HandOf(t) BY DEF HandInv
    <3>2. my[t].event = None /\ my[t].cmd = None BY <1>1, <3>1 DEF HandOf, InEnqueue, Appending
    <3>3. /\ pc'[t] = "idle" /\ my'[t].event = None /\ my'[t].cmd = None
          /\ my'[t].op = my[t].op /\ my'[t].on = my[t].on
      BY <1>1, <3>2
    <3> QED BY <3>1, <3>3 DEF HandOf, InEnqueue, Appending
  <2> QED BY <2>2, <2>3 DEF HandInv
<1>13. ASSUME NEW q \in Queues PROVE OrderOf(q)' /\ QueueOf(q)' /\ WorkerOf(q)'
  <2>1. \A c \in AllCommands : Fresh(c) /\ command'[c].status # "new" => command'[c].queue # q
    BY <1>7, CommandFacts
  <2>2. \A c \in AllCommands : ~Fresh(c) /\ command[c].queue = q =>
          command'[c].status = command[c].status
    BY <1>3, <1>7
  <2>3. q # t BY CommandFacts
  <2> QED BY <1>1, <1>8, <1>9, <1>10, <2>1, <2>2, <2>3, OrderKept, QueueKept, WorkerKept
<1> QED BY <1>8, <1>11, <1>12, <1>13 DEF InvOrder, OrderInv, QueueInv, WorkerInv

(* Every step keeps the order of the queues. *)
LEMMA StepInv == InvOrder /\ [Next]_vars => InvOrder'
<1> SUFFICES ASSUME InvOrder, [Next]_vars PROVE InvOrder' OBVIOUS
<1>1. CASE UNCHANGED vars
  <2>1. UNCHANGED <<created, command, handles, queue, active, pc, my>> BY <1>1 DEF vars
  <2>2. Typed' /\ CommandInv' BY <2>1 DEF InvOrder, Typed, CommandInv, Fresh
  <2>3. HandInv' BY <2>1 DEF InvOrder, HandInv, HandOf, Fresh, Done
  <2>4. OrderInv' BY <2>1 DEF InvOrder, OrderInv, OrderOf, Fresh
  <2>5. QueueInv'
    <3>1. \A q \in Queues : Rest(q)' = Rest(q) /\ Past(q)' = Past(q) BY <2>1 DEF Rest, Past
    <3> QED BY <2>1, <3>1 DEF InvOrder, QueueInv, QueueOf, Done
  <2>6. WorkerInv' BY <2>1 DEF InvOrder, WorkerInv, WorkerOf, Done
  <2> QED BY <2>2, <2>3, <2>4, <2>5, <2>6 DEF InvOrder
<1>2. ASSUME NEW p \in Threads, Calm(p) PROVE InvOrder' BY <1>2, QuietStep DEF Calm
<1>3. CASE Loud
  <2>1. ASSUME NEW p \in Threads, AppendCommand(p) \/ (NotifyCmdQueue(p) /\ Sends(p))
        PROVE  InvOrder'
    BY <2>1, AppendInv, MarkerInv
  <2>2. ASSUME NEW t \in Clients, CreateUserEvent(t) PROVE InvOrder' BY <2>2, CreateUserEventInv
  <2>3. ASSUME NEW t \in Clients, NEW e \in handles, NEW o \in {"complete", "error"},
               SetUserEvent(t, e, o)
        PROVE  InvOrder'
    BY <2>3, SetUserEventInv
  <2>4. ASSUME NEW t \in Clients, NEW kind \in {"user", "finish"}, NEW q \in Queues,
               NEW W \in SUBSET handles, Making(t, kind, q, W)
        PROVE  InvOrder'
    BY <2>4, MakingInv
  <2>5. ASSUME NEW q \in Queues, Take(q) \/ Insert(q) \/ CompleteHead(q) \/ SignalHead(q)
        PROVE  InvOrder'
    BY <2>5, TakeInv, InsertInv, CompleteHeadInv, SignalHeadInv
  <2> QED BY <1>3, <2>1, <2>2, <2>3, <2>4, <2>5, Zenon DEF Loud
<1>4. CASE Next BY <1>2, <1>3, <1>4, StepCases
<1> QED BY <1>1, <1>4

(* The commands of a queue keep their order, whatever the clients do. *)
THEOREM QueuesKeepOrder == Spec => []InvOrder
<1>1. Init => InvOrder BY InitHost
<1> QED BY <1>1, StepInv, PTL DEF Spec

----------------------------------------
(* The queues implement AbstractHostQueue.  What an observer sees: *)
Outcome(c) == IF Done(c) THEN command[c].status ELSE "pending"

(* A step that the observer does not see. *)
LEMMA Unseen ==
  ASSUME \A q \in Queues : queue'[q].order = queue[q].order,
         \A c \in AllCommands : /\ command'[c].queue = command[c].queue
                                /\ command'[c].waits = command[c].waits
                                /\ Outcome(c)' = Outcome(c)
  PROVE  UNCHANGED Abs!vars
<1>1. [q \in Queues |-> queue'[q].order] = [q \in Queues |-> queue[q].order] OBVIOUS
<1>2. /\ [c \in AllCommands |-> command'[c].waits] = [c \in AllCommands |-> command[c].waits]
      /\ [c \in AllCommands |-> command'[c].queue] = [c \in AllCommands |-> command[c].queue]
  OBVIOUS
<1>3. [c \in AllCommands |-> Outcome(c)'] = [c \in AllCommands |-> Outcome(c)] OBVIOUS
<1> QED BY <1>1, <1>2, <1>3 DEF Abs!vars, Outcome, Done

(* A command that is appended already is not fresh. *)
LEMMA AppendedFacts ==
  ASSUME InvOrder, NEW c \in AllCommands, Fresh(c)
  PROVE  c \in AllCommands \ Abs!Appended
<1> SUFFICES ASSUME NEW q \in Queues, NEW i \in DOMAIN queue[q].order, queue[q].order[i] = c
             PROVE  FALSE
  BY DEF Abs!Appended
<1> QED BY DEF InvOrder, OrderInv, OrderOf

(* A command in its place comes to its outcome. *)
LEMMA SettleSeen ==
  ASSUME InvOrder, NEW q \in Queues, NEW i \in DOMAIN queue[q].order,
         NEW c \in AllCommands, c = queue[q].order[i], ~Done(c),
         NEW outcome \in {"complete", "error"},
         \A j \in 1..i - 1 : Done(queue[q].order[j]),
         \A e \in command[c].waits : command[e].queue # q => Done(e),
         outcome = "error" <=>
           \E e \in command[c].waits : command[e].queue # q /\ command[e].status = "error",
         command' = [command EXCEPT ![c].status = outcome],
         \A x \in Queues : queue'[x].order = queue[x].order
  PROVE  Abs!Next
<1> Typed /\ OrderOf(q) BY DEF InvOrder, OrderInv
<1>1. /\ queue[q].order \in Seq(AllCommands) /\ Len(queue[q].order) \in Nat
      /\ i \in 1..Len(queue[q].order)
  <2>1. queue[q].order \in Seq(AllCommands) BY Fields
  <2> QED BY <2>1
<1>2. /\ command'[c].status = outcome
      /\ \A d \in AllCommands : /\ d # c => command'[d] = command[d]
                                /\ command'[d].queue = command[d].queue
                                /\ command'[d].waits = command[d].waits
  BY WithStatus
<1>3. \A d \in AllCommands : \A e \in command[d].waits : e \in AllCommands BY Fields, CommandFacts
<1>4. command[c].queue = q BY DEF OrderOf
<1>5. \A e \in command[c].waits : Done(e)
  <2>1. \A e \in command[c].waits : command[e].queue = q => \E j \in 1..i - 1 : queue[q].order[j] = e
    BY DEF OrderOf
  <2> QED BY <2>1
<1>6. /\ [x \in Queues |-> queue'[x].order] = [x \in Queues |-> queue[x].order]
      /\ [d \in AllCommands |-> command'[d].waits] = [d \in AllCommands |-> command[d].waits]
      /\ [d \in AllCommands |-> command'[d].queue] = [d \in AllCommands |-> command[d].queue]
  BY <1>2
<1> DEFINE seen == [d \in AllCommands |-> Outcome(d)]
<1>7. seen' = [seen EXCEPT ![c] = outcome]
  <2>1. Outcome(c)' = outcome BY <1>2 DEF Outcome, Done
  <2>2. \A d \in AllCommands \ {c} : Outcome(d)' = Outcome(d) BY <1>2 DEF Outcome, Done
  <2> QED BY <2>1, <2>2
<1>8. /\ seen[c] = "pending" /\ \A e \in command[c].waits : seen[e] # "pending"
      /\ \A e \in AllCommands : seen[e] = "error" <=> command[e].status = "error"
  BY <1>3, <1>5 DEF Outcome, Done
<1>9. \A j \in 1..i - 1 : seen[queue[q].order[j]] # "pending"
  <2>1. \A j \in 1..i - 1 : queue[q].order[j] \in AllCommands BY <1>1
  <2> QED BY <2>1 DEF Outcome, Done
<1>10. outcome = IF \E e \in command[c].waits : command[e].queue # command[c].queue /\ seen[e] = "error"
                   THEN "error" ELSE "complete"
  BY <1>3, <1>4, <1>8
<1> DEFINE o == [x \in Queues |-> queue[x].order]
           w == [d \in AllCommands |-> command[d].waits]
           k == [d \in AllCommands |-> command[d].queue]
<1>11. /\ i \in DOMAIN o[q] /\ seen[o[q][i]] = "pending"
       /\ \A j \in 1..i - 1 : seen[o[q][j]] # "pending"
       /\ \A e \in w[o[q][i]] : seen[e] # "pending"
       /\ seen' = [seen EXCEPT ![o[q][i]] =
                     IF \E e \in {e \in w[o[q][i]] : k[e] # k[o[q][i]]} : seen[e] = "error"
                       THEN "error" ELSE "complete"]
       /\ o' = o /\ w' = w /\ k' = k
  <2>1. /\ o[q] = queue[q].order /\ w[c] = command[c].waits
        /\ \A e \in AllCommands : k[e] = command[e].queue
    OBVIOUS
  <2>2. o' = o /\ w' = w /\ k' = k BY <1>6
  <2> HIDE DEF o, w, k, seen
  <2>3. outcome = IF \E e \in {e \in w[c] : k[e] # k[c]} : seen[e] = "error"
                    THEN "error" ELSE "complete"
    BY <1>3, <1>10, <2>1
  <2>4. o[q][i] = c /\ i \in DOMAIN o[q] BY <2>1
  <2>5. /\ seen[c] = "pending" /\ \A j \in 1..i - 1 : seen[o[q][j]] # "pending"
        /\ \A e \in w[c] : seen[e] # "pending"
        /\ seen' = [seen EXCEPT ![c] = IF \E e \in {e \in w[c] : k[e] # k[c]} : seen[e] = "error"
                                         THEN "error" ELSE "complete"]
    BY <1>7, <1>8, <1>9, <2>1, <2>3
  <2> QED BY <2>2, <2>4, <2>5
<1>12. Abs!Settle BY <1>11, Zenon DEF Abs!Settle, Abs!Foreign, Outcome, Done
<1> QED BY <1>12 DEF Abs!Next

(* Initially nothing was appended. *)
LEMMA InitSeen == Init => Abs!Init
BY CommandFacts DEF Init, Abs!Init, Done, Threads

(* A command that is made gets its wait list and queue. *)
LEMMA MakeSeen ==
  ASSUME InvOrder, NEW n \in AllCommands, Fresh(n),
         \A d \in AllCommands : d # n => /\ command'[d].queue = command[d].queue
                                         /\ command'[d].waits = command[d].waits,
         \A d \in AllCommands : command'[d].status = command[d].status,
         \A q \in Queues : queue'[q].order = queue[q].order
  PROVE  Abs!Next
<1> DEFINE o == [x \in Queues |-> queue[x].order]
           w == [d \in AllCommands |-> command[d].waits]
           k == [d \in AllCommands |-> command[d].queue]
           seen == [d \in AllCommands |-> Outcome(d)]
<1>1. n \in AllCommands \ Abs!Appended BY AppendedFacts
<1>2. \A d \in AllCommands \ {n} : w'[d] = w[d] /\ k'[d] = k[d] OBVIOUS
<1>3. o' = o /\ seen' = seen BY DEF Outcome, Done
<1>4. Abs!Make BY <1>1, <1>2, <1>3, Zenon DEF Abs!Make, Outcome, Done
<1> QED BY <1>4 DEF Abs!Next

(* A command is appended. *)
LEMMA AppendSeen ==
  ASSUME InvOrder, NEW p \in Threads, AppendCommand(p)
  PROVE  Abs!Next
<1>1. PICK c, q : c = my[p].cmd /\ q = command[c].queue /\ Appends(p, c, q) BY AppendFacts
<1>2. /\ c \in AllCommands /\ q \in Queues /\ Fresh(c)
      /\ command' = [command EXCEPT ![c].status = "queued"]
      /\ queue'[q].order = Append(queue[q].order, c)
      /\ \A x \in Queues : x # q => queue'[x] = queue[x]
  BY <1>1 DEF Appends
<1>3. /\ command'[c].status = "queued"
      /\ \A d \in AllCommands : /\ d # c => command'[d] = command[d]
                                /\ command'[d].queue = command[d].queue
                                /\ command'[d].waits = command[d].waits
  BY <1>2, WithStatus DEF InvOrder
<1>4. c \in AllCommands \ Abs!Appended BY <1>2, AppendedFacts
<1> DEFINE o == [x \in Queues |-> queue[x].order]
           w == [d \in AllCommands |-> command[d].waits]
           k == [d \in AllCommands |-> command[d].queue]
           seen == [d \in AllCommands |-> Outcome(d)]
<1>5. w' = w /\ k' = k BY <1>3
<1>6. seen' = seen
  <2>1. \A d \in AllCommands : Outcome(d)' = Outcome(d) BY <1>2, <1>3 DEF Outcome, Done, Fresh
  <2> QED BY <2>1
<1>7. k[c] = q /\ o' = [o EXCEPT ![q] = Append(o[q], c)] BY <1>1, <1>2
<1>8. Abs!Enqueue BY <1>2, <1>4, <1>5, <1>6, <1>7, Zenon DEF Abs!Enqueue, Outcome, Done
<1> QED BY <1>8 DEF Abs!Next

(* The application sets a user event. *)
LEMMA SetUserEventSeen ==
  ASSUME InvOrder, NEW t \in Clients, NEW e \in handles, NEW outcome \in {"complete", "error"},
         SetUserEvent(t, e, outcome)
  PROVE  Abs!Next
<1> DEFINE o == [x \in Queues |-> queue[x].order]
           w == [d \in AllCommands |-> command[d].waits]
           k == [d \in AllCommands |-> command[d].queue]
           seen == [d \in AllCommands |-> Outcome(d)]
<1> Typed /\ CommandInv BY DEF InvOrder
<1>1. /\ command[e].kind = "userEvent" /\ ~Done(e) /\ UNCHANGED queue
      /\ command' = [command EXCEPT ![e].status = outcome]
  BY DEF SetUserEvent, Settle
<1>2. e \in AllCommands /\ command[e].queue \notin Queues BY <1>1, CommandFacts DEF Typed, CommandInv
<1>3. /\ command'[e].status = outcome
      /\ \A d \in AllCommands : /\ d # e => command'[d] = command[d]
                                /\ command'[d].queue = command[d].queue
                                /\ command'[d].waits = command[d].waits
  BY <1>1, <1>2, WithStatus
<1>4. o' = o /\ w' = w /\ k' = k BY <1>1, <1>3
<1>5. seen' = [seen EXCEPT ![e] = outcome]
  <2>1. Outcome(e)' = outcome /\ \A d \in AllCommands \ {e} : Outcome(d)' = Outcome(d)
    BY <1>3 DEF Outcome, Done
  <2> QED BY <2>1
<1>6. k[e] \notin Queues /\ seen[e] = "pending" BY <1>1, <1>2 DEF Outcome
<1>7. Abs!SetUserEvent BY <1>2, <1>4, <1>5, <1>6, Zenon DEF Abs!SetUserEvent, Outcome, Done
<1> QED BY <1>7 DEF Abs!Next

(* A command whose events failed fails when the worker inserts it; another
   one is submitted, which nobody sees. *)
LEMMA InsertSeen ==
  ASSUME InvOrder, NEW q \in Queues, Insert(q)
  PROVE  Abs!Next \/ UNCHANGED Abs!vars
<1> Typed /\ QueueOf(q) /\ WorkerOf(q) BY DEF InvOrder, QueueInv, WorkerInv
<1>1. PICK c, status : Inserts(q, c, status) /\ (my[q].failed <=> status = "error") BY InsertFacts
<1>2. /\ c \in AllCommands /\ command[c].status = "queued" /\ command[c].queue = q
      /\ command' = [command EXCEPT ![c].status = status]
      /\ status \in {"error", "submitted"}
      /\ pc[q] = "events" /\ my[q].todo = {} /\ my[q].taken = c
      /\ \A x \in Queues : queue'[x].order = queue[x].order
  BY <1>1 DEF Inserts
<1>3. c # None /\ my[q].event = None /\ ~Done(c) BY <1>2, CommandFacts DEF WorkerOf, Done
<1>4. CASE status = "submitted"
  <2>1. /\ command'[c].status = status
        /\ \A d \in AllCommands : /\ d # c => command'[d] = command[d]
                                  /\ command'[d].queue = command[d].queue
                                  /\ command'[d].waits = command[d].waits
    BY <1>2, WithStatus
  <2>2. \A d \in AllCommands : Outcome(d)' = Outcome(d) BY <1>2, <1>4, <2>1 DEF Outcome, Done
  <2> QED BY <1>2, <2>1, <2>2, Unseen
<1>5. CASE status = "error"
  <2>1. queue[q].batch = <<>> /\ \E e \in command[c].waits :
          command[e].queue # q /\ command[e].status = "error"
    BY <1>1, <1>2, <1>3, <1>5 DEF WorkerOf
  <2>2. \A e \in command[c].waits : command[e].queue # q => Done(e)
    <3>1. \A e \in command[c].waits \ {None} : command[e].queue # q => Done(e) BY <1>2, <1>3 DEF WorkerOf
    <3> QED BY <1>2, <3>1, Fields, CommandFacts
  <2>3. c = queue[q].order[Rest(q)] BY <1>2, <1>3 DEF QueueOf
  <2>4. /\ Rest(q) \in DOMAIN queue[q].order
        /\ \A j \in 1..Rest(q) - 1 : Done(queue[q].order[j])
    <3>1. /\ Past(q) \in Nat /\ Rest(q) \in Nat /\ Len(queue[q].order) \in Nat
          /\ Len(queue[q].fifo) \in Nat /\ Len(queue[q].batch) = 0
          /\ DOMAIN queue[q].order = 1..Len(queue[q].order)
          /\ Rest(q) + Len(queue[q].fifo) = Len(queue[q].order)
          /\ Past(q) + Len(queue[q].batch) + 1 = Rest(q)
      BY <1>2, <1>3, <2>1, Places DEF QueueOf
    <3> DEFINE l == Len(queue[q].order)
               k == Len(queue[q].fifo)
               n == Len(queue[q].batch)
    <3>2. /\ l \in Nat /\ k \in Nat /\ n = 0 /\ Rest(q) + k = l /\ Past(q) + n + 1 = Rest(q)
          /\ Past(q) \in Nat /\ Rest(q) \in Nat
      BY <3>1
    <3> HIDE DEF l, k, n
    <3>3. Rest(q) \in 1..l /\ Rest(q) - 1 = Past(q) BY <3>2
    <3>4. \A j \in 1..Past(q) : Done(queue[q].order[j]) BY DEF QueueOf
    <3> QED BY <3>1, <3>3, <3>4 DEF l
  <2>5. command' = [command EXCEPT ![c].status = "error"] BY <1>2, <1>5
  <2> QED BY <1>2, <1>3, <2>1, <2>2, <2>3, <2>4, <2>5, SettleSeen
<1> QED BY <1>2, <1>4, <1>5

(* The first submitted command of the batch completes; that it leaves the
   batch nobody sees. *)
LEMMA CompleteHeadSeen ==
  ASSUME InvOrder, NEW q \in Queues, CompleteHead(q)
  PROVE  Abs!Next \/ UNCHANGED Abs!vars
<1> Typed /\ QueueOf(q) BY DEF InvOrder, QueueInv
<1> DEFINE c == Head(queue[q].batch)
           n == Len(queue[q].batch)
<1>1. CASE command[c].status = "submitted"
  <2>1. /\ queue[q].batch # <<>> /\ UNCHANGED queue
        /\ command' = [command EXCEPT ![c].status = "complete"]
    BY <1>1 DEF CompleteHead, Settle
  <2>2. /\ c \in AllCommands /\ c = queue[q].batch[1] /\ n \in Nat /\ n > 0
        /\ DOMAIN queue[q].batch = 1..n
    <3>1. queue[q].batch \in Seq(AllCommands) BY Fields
    <3> QED BY <2>1, <3>1
  <2>3. /\ c = queue[q].order[Past(q) + 1] /\ ~Done(c)
        /\ \A e \in command[c].waits : command[e].queue # q => command[e].status = "complete"
    <3>1. 1 \in DOMAIN queue[q].batch BY <2>2
    <3> QED BY <1>1, <2>2, <3>1 DEF QueueOf, Done
  <2>4. /\ Past(q) + 1 \in DOMAIN queue[q].order
        /\ \A j \in 1..(Past(q) + 1) - 1 : Done(queue[q].order[j])
    <3> DEFINE l == Len(queue[q].order)
               k == Len(queue[q].fifo)
    <3>1. /\ l \in Nat /\ k \in Nat /\ Rest(q) + k = l
          /\ Past(q) \in Nat /\ Rest(q) \in Nat /\ DOMAIN queue[q].order = 1..l
          /\ Past(q) + n = Rest(q) \/ Past(q) + n + 1 = Rest(q)
      BY Places DEF QueueOf
    <3> HIDE DEF l, k, n
    <3>2. Past(q) + 1 \in 1..l /\ (Past(q) + 1) - 1 = Past(q) BY <2>2, <3>1
    <3>3. \A j \in 1..Past(q) : Done(queue[q].order[j]) BY DEF QueueOf
    <3> QED BY <3>1, <3>2, <3>3
  <2>5. \A e \in command[c].waits : command[e].queue # q =>
          Done(e) /\ command[e].status # "error"
    BY <2>3 DEF Done
  <2> HIDE DEF c
  <2> QED BY <2>1, <2>2, <2>3, <2>4, <2>5, SettleSeen
<1>2. CASE command[c].status # "submitted"
  <2>1. queue' = [queue EXCEPT ![q].batch = Tail(queue[q].batch)] /\ UNCHANGED command
    BY <1>2 DEF CompleteHead
  <2>2. Tail(queue[q].batch) \in Seq(AllCommands)
    <3>1. queue[q].batch \in Seq(AllCommands) /\ queue[q].batch # <<>> BY Fields DEF CompleteHead
    <3> QED BY <3>1
  <2>3. \A x \in Queues : queue'[x].order = queue[x].order BY <2>1, <2>2, WithBatch
  <2> QED BY <2>1, <2>3, Unseen DEF Outcome, Done
<1> QED BY <1>1, <1>2

(* Every step is one of the abstract queues, or nobody sees it. *)
LEMMA StepSeen == InvOrder /\ [Next]_vars => [Abs!Next]_(Abs!vars)
<1> SUFFICES ASSUME InvOrder, [Next]_vars PROVE Abs!Next \/ UNCHANGED Abs!vars OBVIOUS
<1>1. ASSUME UNCHANGED command, \A q \in Queues : queue'[q].order = queue[q].order
      PROVE  UNCHANGED Abs!vars
  BY <1>1, Unseen DEF Outcome, Done
<1>2. CASE UNCHANGED vars BY <1>1, <1>2 DEF vars
<1>3. ASSUME NEW p \in Threads, Calm(p) PROVE UNCHANGED Abs!vars BY <1>1, <1>3 DEF Calm, Quiet
<1>4. CASE Loud
  <2>1. ASSUME NEW p \in Threads, AppendCommand(p) PROVE Abs!Next BY <2>1, AppendSeen
  <2>2. ASSUME NEW p \in Threads, NotifyCmdQueue(p) /\ Sends(p) PROVE Abs!Next
    <3>1. PICK e, m : MakesMarker(p, e, m) BY <2>2, MarkerFacts
    <3>2. /\ m \in AllCommands /\ Fresh(m) /\ UNCHANGED queue
          /\ \A d \in AllCommands :
               /\ d # m => command'[d].queue = command[d].queue
               /\ command'[d].status = command[d].status /\ command'[d].waits = command[d].waits
      BY <3>1 DEF MakesMarker
    <3> QED BY <3>2, MakeSeen
  <2>3. ASSUME NEW t \in Clients, CreateUserEvent(t) PROVE UNCHANGED Abs!vars
    <3> DEFINE e == created + 1
               r == [command[e] EXCEPT !.kind = "userEvent", !.status = "submitted"]
    <3>1. /\ created < MaxCommands /\ command' = [command EXCEPT ![e] = r] /\ UNCHANGED queue
      BY <2>3 DEF CreateUserEvent
    <3>2. e \in Commands /\ e \in AllCommands /\ Fresh(e) /\ command[e] \in CommandObject
      <4>1. e \in Commands /\ e > created BY <3>1, CommandFacts DEF InvOrder, Typed, Commands
      <4>2. e \in AllCommands BY <4>1, CommandFacts
      <4> QED BY <4>1, <4>2 DEF InvOrder, Typed, CommandInv
    <3> HIDE DEF e
    <3>3. r.queue = command[e].queue /\ r.waits = command[e].waits /\ r.status = "submitted"
      BY <3>2 DEF CommandObject
    <3> HIDE DEF r
    <3>4. command'[e] = r /\ \A d \in AllCommands \ {e} : command'[d] = command[d]
      BY <3>1, <3>2 DEF InvOrder, Typed
    <3>5. \A d \in AllCommands : Outcome(d)' = Outcome(d) BY <3>2, <3>3, <3>4 DEF Outcome, Done, Fresh
    <3> QED BY <3>1, <3>3, <3>4, <3>5, Unseen
  <2>4. ASSUME NEW t \in Clients, NEW e \in handles, NEW o \in {"complete", "error"},
               SetUserEvent(t, e, o)
        PROVE  Abs!Next
    BY <2>4, SetUserEventSeen
  <2>5. ASSUME NEW t \in Clients, NEW kind \in {"user", "finish"}, NEW q \in Queues,
               NEW W \in SUBSET handles, Making(t, kind, q, W)
        PROVE  Abs!Next
    <3>1. MakesCommand(t, kind, q, W) /\ UNCHANGED queue BY <2>5, MakingFacts DEF Making
    <3>2. created + 1 \in AllCommands BY <3>1, CommandFacts DEF MakesCommand
    <3> QED BY <3>1, <3>2, MakeSeen DEF MakesCommand
  <2>6. ASSUME NEW q \in Queues, Take(q) PROVE UNCHANGED Abs!vars
    <3> DEFINE f == Tail(queue[q].fifo)
               r == [queue[q] EXCEPT !.fifo = f]
    <3>1. queue' = [queue EXCEPT ![q] = r] /\ UNCHANGED command BY <2>6 DEF Take
    <3> HIDE DEF f
    <3>2. r.order = queue[q].order BY DEF InvOrder, Typed, QueueObject
    <3> HIDE DEF r
    <3>3. \A x \in Queues : queue'[x].order = queue[x].order BY <3>1, <3>2 DEF InvOrder, Typed
    <3> QED BY <1>1, <3>1, <3>3
  <2>7. ASSUME NEW q \in Queues, SignalHead(q) PROVE UNCHANGED Abs!vars
    <3>1. UNCHANGED command BY <2>7 DEF SignalHead, Signal
    <3>2. queue' = [queue EXCEPT ![q].batch = Tail(queue[q].batch)] BY <2>7 DEF SignalHead
    <3>3. queue[q].batch \in Seq(AllCommands) /\ queue[q].batch # <<>>
      <4>1. pc[q] = "signal" /\ command[my[q].cmd].status = "complete" BY <2>7 DEF SignalHead
      <4> QED BY <4>1, Fields DEF InvOrder, WorkerInv, WorkerOf
    <3>4. Tail(queue[q].batch) \in Seq(AllCommands) BY <3>3
    <3>5. \A x \in Queues : queue'[x].order = queue[x].order BY <3>2, <3>4, WithBatch DEF InvOrder
    <3> QED BY <1>1, <3>1, <3>5
  <2>8. ASSUME NEW q \in Queues, Insert(q) \/ CompleteHead(q)
        PROVE  Abs!Next \/ UNCHANGED Abs!vars
    BY <2>8, InsertSeen, CompleteHeadSeen
  <2> QED BY <1>4, <2>1, <2>2, <2>3, <2>4, <2>5, <2>6, <2>7, <2>8, Zenon DEF Loud
<1>5. CASE Next BY <1>3, <1>4, <1>5, StepCases
<1> QED BY <1>2, <1>5

(* The commands of a queue come to their outcomes in order, each after the
   events it waits for, and fail exactly if an event of another queue did. *)
THEOREM ImplementsOrder == Spec => InOrder
<1>1. Init => Abs!Init BY InitSeen
<1>2. InvOrder /\ [Next]_vars => [Abs!Next]_(Abs!vars) BY StepSeen
<1> QED BY <1>1, <1>2, QueuesKeepOrder, PTL DEF Spec, InOrder, Abs!Spec

----------------------------------------
(* Command c was appended to queue q no later than command d. *)
UpTo(q, c, d) == \E i, j \in DOMAIN queue[q].order :
                   queue[q].order[i] = c /\ queue[q].order[j] = d /\ i <= j

(* What finish() and terminate() have to wait for is done, or was appended
   before the command that they wait for. *)
DueOf(t) ==
  /\ \A d \in my[t].due : ~Fresh(d) /\ command[d].queue = my[t].on
  /\ my[t].op \in {"finish", "terminate"} =>
       /\ my[t].cmd \in Commands => command[my[t].cmd].queue = my[t].on
       /\ pc[t] \in Appending /\ my[t].event = None =>
            \A d \in my[t].due : Done(d) \/ pc[t] = "append" \/ UpTo(my[t].on, d, my[t].cmd)
       /\ my[t].event # None =>
            \A d \in my[t].due : Done(d) \/ UpTo(my[t].on, d, my[t].event)
  /\ my[t].op \notin {"finish", "terminate"} => my[t].due = {}
  /\ pc[t] \in {"idle", "signal"} => my[t].op = "none"
  /\ pc[t] \in Appending /\ my[t].cmd \in Commands /\ command[my[t].cmd].kind = "user" =>
       my[t].op = "none"
  /\ pc[t] \in {"finished", "stop", "join"} => \A d \in my[t].due : Done(d)

(* With HIP, and a client to each queue, the last command of a queue covers
   what the client has enqueued to it. *)
OneClientEach == \A t, u \in Clients : t # u => Streams[t] \cap Streams[u] = {}

Swapping(t, q) == pc[t] = "swapLast" /\ command[my[t].cmd].queue = q

LastInv ==
  IsHip /\ OneClientEach =>
    \A q \in Queues, c \in AllCommands :
      ~Fresh(c) /\ command[c].queue = q /\ command[c].kind # "notify" =>
        /\ \A t \in Clients : Swapping(t, q) => UpTo(q, c, my[t].cmd)
        /\ \/ Done(c)
           \/ queue[q].last # None /\ UpTo(q, c, queue[q].last)
           \/ \E t \in Clients : Swapping(t, q)

InvFinish == (\A t \in Clients : DueOf(t)) /\ LastInv


----------------------------------------
(* No list of commands loses one, or changes its order. *)
Grows ==
  \A q \in Queues : \A i \in DOMAIN queue[q].order :
    i \in DOMAIN queue'[q].order /\ queue'[q].order[i] = queue[q].order[i]

(* What was appended before another command stays before it. *)
LEMMA UpToKept ==
  ASSUME Grows, NEW q \in Queues, NEW c, NEW d, UpTo(q, c, d)
  PROVE  UpTo(q, c, d)'
BY DEF Grows, UpTo

(* Commands come to their outcomes in order. *)
LEMMA DoneUpTo ==
  ASSUME InvOrder, NEW q \in Queues, NEW c, NEW d, UpTo(q, c, d), Done(d)
  PROVE  Done(c)
<1> Typed /\ QueueOf(q) /\ OrderOf(q) BY DEF InvOrder, QueueInv, OrderInv
<1> DEFINE l == Len(queue[q].order)
           f == Len(queue[q].fifo)
           b == Len(queue[q].batch)
           S == queue[q].order
<1>1. PICK i, j \in 1..l : S[i] = c /\ S[j] = d /\ i <= j
  <2>1. DOMAIN S = 1..l BY Places DEF QueueOf
  <2> QED BY <2>1 DEF UpTo
<1>2. /\ l \in Nat /\ f \in Nat /\ b \in Nat /\ Past(q) \in Nat /\ Rest(q) \in Nat
      /\ Rest(q) + f = l
      /\ my[q].taken = None => Past(q) + b = Rest(q)
      /\ my[q].taken # None => Past(q) + b + 1 = Rest(q)
      /\ DOMAIN queue[q].fifo = 1..f /\ DOMAIN queue[q].batch = 1..b
  BY Places DEF QueueOf
<1>3. /\ \A k \in 1..f : command[S[Rest(q) + k]].status = "queued"
      /\ my[q].taken # None => command[S[Rest(q)]].status = "queued"
      /\ \A k \in 1..b : k > 1 => ~Done(S[Past(q) + k])
      /\ \A k \in 1..Past(q) : Done(S[k])
  <2>1. /\ \A k \in 1..f : queue[q].fifo[k] = S[Rest(q) + k] /\ command[queue[q].fifo[k]].status = "queued"
        /\ my[q].taken # None => my[q].taken = S[Rest(q)] /\ command[my[q].taken].status = "queued"
        /\ \A k \in 1..b : queue[q].batch[k] = S[Past(q) + k] /\ (k > 1 => ~Done(queue[q].batch[k]))
        /\ \A k \in 1..Past(q) : Done(S[k])
    BY <1>2, Zenon DEF QueueOf
  <2> HIDE DEF S, f, b
  <2> QED BY <2>1, Zenon
<1> HIDE DEF l, f, b, S
<1>4. j <= Past(q) + 1
  <2> SUFFICES ASSUME ~(j <= Past(q) + 1) PROVE FALSE OBVIOUS
  <2>1. j - Rest(q) \in 1..f \/ (my[q].taken # None /\ j = Rest(q)) \/ (j - Past(q) \in 1..b /\ j - Past(q) > 1)
    BY <1>2
  <2>2. j = Rest(q) + (j - Rest(q)) /\ j = Past(q) + (j - Past(q)) BY <1>2
  <2>3. CASE j - Rest(q) \in 1..f
    <3>1. command[S[Rest(q) + (j - Rest(q))]].status = "queued" BY <1>3, <2>3
    <3> QED BY <1>1, <2>2, <3>1 DEF Done
  <2>4. CASE my[q].taken # None /\ j = Rest(q) BY <1>1, <1>3, <2>4 DEF Done
  <2>5. CASE j - Past(q) \in 1..b /\ j - Past(q) > 1
    <3>1. ~Done(S[Past(q) + (j - Past(q))]) BY <1>3, <2>5
    <3> QED BY <1>1, <2>2, <3>1
  <2> QED BY <2>1, <2>3, <2>4, <2>5
<1>5. i = j \/ i \in 1..Past(q) BY <1>1, <1>2, <1>4
<1> QED BY <1>1, <1>3, <1>5

(* A thread that goes on with what it was doing. *)
LEMMA DueSame ==
  ASSUME InvOrder, Steady, Grows, NEW t \in Clients, DueOf(t),
         my'[t].op = my[t].op, my'[t].on = my[t].on, my'[t].due = my[t].due,
         my'[t].event = my[t].event, my'[t].cmd = my[t].cmd \/ my'[t].cmd = None,
         pc'[t] = pc[t] \/ my[t].op = "none" \/ pc'[t] \notin {"idle", "signal"},
         pc'[t] \in Appending => pc[t] \in Appending /\ my'[t].cmd = my[t].cmd,
         pc'[t] \in Appending => (pc'[t] = "append" <=> pc[t] = "append"),
         pc'[t] \in {"finished", "stop", "join"} => pc[t] \in {"finished", "stop", "join"}
  PROVE  DueOf(t)'
<1> t \in Threads BY CommandFacts
<1> Typed /\ HandOf(t) /\ CommandInv BY DEF InvOrder, HandInv
<1> DEFINE c == my[t].cmd
           q == my[t].on
<1>1. \A d \in my[t].due : /\ d \in AllCommands /\ command'[d].queue = q
                           /\ command'[d].status # "new"
                           /\ Done(d) => Done(d)'
  <2>1. \A d \in my[t].due : d \in AllCommands BY Fields, CommandFacts
  <2> QED BY <2>1 DEF DueOf, Steady, Done
<1>2. my'[t].cmd \in Commands /\ my[t].op \in {"finish", "terminate"} =>
        /\ my'[t].cmd = c /\ command'[c].queue = q /\ command[c].queue = q
        /\ command'[c].kind = command[c].kind
  <2> SUFFICES ASSUME my'[t].cmd \in Commands, my[t].op \in {"finish", "terminate"}
               PROVE  /\ my'[t].cmd = c /\ command'[c].queue = q /\ command[c].queue = q
                      /\ command'[c].kind = command[c].kind
    OBVIOUS
  <2>1. my'[t].cmd = c /\ c \in Commands /\ c \in AllCommands /\ command[c].queue = q /\ c # None
    BY CommandFacts DEF DueOf
  <2>2. pc[t] # "signal" BY DEF DueOf
  <2>3. pc[t] \in InEnqueue BY <2>1, <2>2 DEF HandOf
  <2>4. ~Fresh(c) \/ pc[t] = "append" BY <2>3 DEF HandOf
  <2> QED BY <2>1, <2>4 DEF Steady
<1>3. pc'[t] \in Appending /\ c \in Commands => command'[c].kind = command[c].kind
  <2>1. pc'[t] \in Appending => pc[t] \in InEnqueue /\ (~Fresh(c) \/ pc[t] = "append")
    BY DEF HandOf, InEnqueue
  <2> QED BY <2>1, CommandFacts DEF Steady
<1>4. my[t].op \in {"finish", "terminate"} => q \in Queues BY DEF HandOf
<1>5. my[t].op \in {"finish", "terminate"} =>
        \A d \in my[t].due : \A e : UpTo(q, d, e) => UpTo(q, d, e)'
  BY <1>4, UpToKept
<1> HIDE DEF c, q
<1>6. /\ my[t].op \in {"finish", "terminate"} /\ pc'[t] \in Appending /\ my[t].event = None =>
           \A d \in my[t].due : Done(d)' \/ pc'[t] = "append" \/ UpTo(q, d, c)'
      /\ my[t].op \in {"finish", "terminate"} /\ my[t].event # None =>
           \A d \in my[t].due : Done(d)' \/ UpTo(q, d, my[t].event)'
  BY <1>1, <1>5 DEF DueOf, c, q
<1>7. my'[t].op \in {"finish", "terminate"} =>
       /\ my'[t].cmd \in Commands => command'[my'[t].cmd].queue = my'[t].on
       /\ pc'[t] \in Appending /\ my'[t].event = None =>
            \A d \in my'[t].due : Done(d)' \/ pc'[t] = "append" \/ UpTo(my[t].on, d, my[t].cmd)'
       /\ my'[t].event # None =>
            \A d \in my'[t].due : Done(d)' \/ UpTo(my[t].on, d, my[t].event)'
  <2>1. /\ my'[t].op \in {"finish", "terminate"} /\ my'[t].cmd \in Commands =>
              command'[my'[t].cmd].queue = my'[t].on
    BY <1>2 DEF q
  <2>2. my'[t].op \in {"finish", "terminate"} /\ my'[t].event # None =>
            \A d \in my'[t].due : Done(d)' \/ UpTo(my[t].on, d, my[t].event)'
    BY <1>6 DEF q, UpTo
  <2>3. my'[t].op \in {"finish", "terminate"} /\ pc'[t] \in Appending /\ my'[t].event = None =>
            \A d \in my'[t].due : Done(d)' \/ pc'[t] = "append" \/ UpTo(my[t].on, d, my[t].cmd)'
    BY <1>6 DEF q, c, UpTo
  <2> QED BY <2>1, <2>2, <2>3
<1>8. /\ \A d \in my'[t].due : command'[d].status # "new" /\ command'[d].queue = my'[t].on
      /\ my'[t].op \notin {"finish", "terminate"} => my'[t].due = {}
      /\ pc'[t] \in {"idle", "signal"} => my'[t].op = "none"
      /\ pc'[t] \in {"finished", "stop", "join"} => \A d \in my'[t].due : Done(d)'
  BY <1>1 DEF DueOf, q
<1>9. pc'[t] \in Appending /\ my'[t].cmd \in Commands /\ command'[my'[t].cmd].kind = "user" =>
        my'[t].op = "none"
  BY <1>3 DEF DueOf, c
<1> QED BY <1>7, <1>8, <1>9 DEF DueOf, Fresh

(* What one thread does leaves what the clients wait for as it was. *)
LEMMA OthersDue ==
  ASSUME InvOrder, Steady, Grows, NEW p \in Threads, Alone(p),
         \A t \in Clients : DueOf(t), p \in Clients => DueOf(p)'
  PROVE  \A t \in Clients : DueOf(t)'
<1> SUFFICES ASSUME NEW t \in Clients, t # p PROVE DueOf(t)' OBVIOUS
<1>1. t \in Threads /\ my'[t] = my[t] BY CommandFacts DEF Alone
<1>2. \/ pc'[t] = pc[t]
      \/ pc[t] = "waiting" /\ pc'[t] = "sleep"
      \/ pc[t] = "asleep" /\ pc'[t] = "recheck"
  BY <1>1 DEF Alone
<1>3. /\ pc'[t] = pc[t] \/ pc'[t] \notin {"idle", "signal"}
      /\ pc'[t] \in Appending => pc'[t] = pc[t]
      /\ pc'[t] \in {"finished", "stop", "join"} => pc'[t] = pc[t]
  BY <1>2 DEF Appending
<1> QED BY <1>1, <1>3, DueSame

(* The last commands, in a step that leaves them and appends no command that
   becomes one. *)
LEMMA LastKept ==
  ASSUME InvOrder, Steady, Grows, NEW p \in Threads, Alone(p), LastInv,
         p \in Clients => pc[p] # "swapLast" /\ pc'[p] # "swapLast",
         \A q \in Queues : queue'[q].last = queue[q].last,
         \A c \in AllCommands : Fresh(c) /\ command'[c].status # "new" =>
           command'[c].kind = "notify" \/ command'[c].queue \notin Queues
  PROVE  LastInv'
<1> Typed /\ HandInv BY DEF InvOrder
<1> SUFFICES ASSUME IsHip, OneClientEach, NEW q \in Queues, NEW c \in AllCommands,
                    command'[c].status # "new", command'[c].queue = q,
                    command'[c].kind # "notify"
             PROVE  /\ \A t \in Clients : Swapping(t, q)' => UpTo(q, c, my[t].cmd)'
                    /\ \/ Done(c)'
                       \/ queue'[q].last # None /\ UpTo(q, c, queue[q].last)'
                       \/ \E t \in Clients : Swapping(t, q)'
  BY DEF LastInv, Fresh, OneClientEach
<1>1. ~Fresh(c) /\ command[c].queue = q /\ command[c].kind # "notify" BY DEF Steady
<1>2. /\ \A t \in Clients : Swapping(t, q) => UpTo(q, c, my[t].cmd)
      /\ \/ Done(c)
         \/ queue[q].last # None /\ UpTo(q, c, queue[q].last)
         \/ \E t \in Clients : Swapping(t, q)
  BY <1>1 DEF LastInv
<1>3. \A t \in Clients : (Swapping(t, q)' <=> Swapping(t, q)) /\ (Swapping(t, q) => my'[t] = my[t])
  <2> SUFFICES ASSUME NEW t \in Clients
               PROVE  (Swapping(t, q)' <=> Swapping(t, q)) /\ (Swapping(t, q) => my'[t] = my[t])
    OBVIOUS
  <2> t \in Threads BY CommandFacts
  <2>1. CASE t = p BY <2>1 DEF Swapping
  <2>2. CASE t # p
    <3>1. my'[t] = my[t] /\ (pc'[t] = "swapLast" <=> pc[t] = "swapLast") BY <2>2 DEF Alone
    <3>2. pc[t] = "swapLast" => command'[my[t].cmd].queue = command[my[t].cmd].queue
      <4>1. pc[t] = "swapLast" => my[t].cmd \in AllCommands /\ ~Fresh(my[t].cmd)
        BY DEF HandInv, HandOf, InEnqueue, Appending
      <4> QED BY <4>1 DEF Steady
    <3> QED BY <3>1, <3>2 DEF Swapping
  <2> QED BY <2>1, <2>2
<1>4. \A d : UpTo(q, c, d) => UpTo(q, c, d)' BY UpToKept
<1>5. Done(c) => Done(c)' BY DEF Steady, Done
<1>6. queue[q].last # None /\ UpTo(q, c, queue[q].last) =>
        queue'[q].last # None /\ UpTo(q, c, queue[q].last)'
  BY <1>4 DEF UpTo
<1>7. \A t \in Clients : Swapping(t, q)' => UpTo(q, c, my[t].cmd)' BY <1>2, <1>3, <1>4 DEF UpTo
<1> QED BY <1>2, <1>3, <1>5, <1>6, <1>7

(* Both, for a step that changes no command. *)
LEMMA CalmDue ==
  ASSUME InvOrder, InvFinish, NEW p \in Threads, Calm(p),
         p \in Clients => DueOf(p)'
  PROVE  /\ Steady /\ Grows /\ \A t \in Clients : DueOf(t)'
         /\ /\ p \in Clients => pc[p] # "swapLast" /\ pc'[p] # "swapLast"
            /\ \A q \in Queues : queue'[q].last = queue[q].last
            => LastInv'
<1>1. Steady BY DEF Calm, Quiet, Steady, Fresh, Done
<1>2. Grows /\ Alone(p) BY DEF Calm, Quiet, Grows
<1>3. \A c \in AllCommands : Fresh(c) => command'[c].status = "new" BY DEF Calm, Quiet, Fresh
<1> QED BY <1>1, <1>2, <1>3, OthersDue, LastKept DEF InvFinish

(* The steps of calls that do not touch what was enqueued. *)
LEMMA CallFinish ==
  ASSUME InvOrder, InvFinish, NEW p \in Threads, NEW label \in Labels, Goto(p, label), Calm(p),
         UNCHANGED my \/ (\E c : my' = [my EXCEPT ![p].prev = c])
                      \/ (my' = [my EXCEPT ![p].cmd = None] /\ label \notin Appending),
         \/ pc[p] = "dropLast" /\ label = "flush"
         \/ pc[p] \notin {"append", "swapLast"} /\ label \in {"awaited", "sleep", "waiting"},
         UNCHANGED queue
  PROVE  InvFinish'
<1> Typed /\ HandOf(p) BY DEF InvOrder, HandInv
<1>1. pc'[p] = label BY GotoFacts DEF Typed
<1>2. /\ my'[p].op = my[p].op /\ my'[p].on = my[p].on /\ my'[p].due = my[p].due
      /\ my'[p].event = my[p].event
      /\ my'[p].cmd = my[p].cmd \/ (my'[p].cmd = None /\ label \notin Appending)
  BY DEF Typed, Locals
<1>3. pc[p] # "swapLast" /\ pc'[p] # "swapLast" BY <1>1
<1>4. Steady /\ Grows BY DEF Calm, Quiet, Steady, Grows, Fresh, Done
<1>5. p \in Clients => DueOf(p)'
  <2> SUFFICES ASSUME p \in Clients PROVE DueOf(p)' OBVIOUS
  <2>1. DueOf(p) BY DEF InvFinish
  <2>2. /\ pc'[p] \notin {"idle", "signal", "finished", "stop", "join", "append"}
        /\ pc'[p] \in Appending => pc[p] \in Appending /\ my'[p].cmd = my[p].cmd /\ pc[p] # "append"
    BY <1>1, <1>2 DEF Appending
  <2> QED BY <1>2, <1>4, <2>1, <2>2, DueSame
<1> QED BY <1>3, <1>5, CalmDue DEF InvFinish

(* Append and swap: the last command covers what was enqueued. *)
LEMMA SwapLastFinish ==
  ASSUME InvOrder, InvFinish, NEW p \in Threads, SwapLast(p)
  PROVE  InvFinish'
<1> Typed /\ HandOf(p) /\ HandInv BY DEF InvOrder, HandInv
<1> DEFINE c == my[p].cmd
           q == command[c].queue
<1>1. /\ pc[p] = "swapLast" /\ my' = [my EXCEPT ![p].prev = queue[q].last]
      /\ queue' = [queue EXCEPT ![q].last = c] /\ Goto(p, "dropLast")
      /\ UNCHANGED <<created, command, handles, active>>
  BY DEF SwapLast
<1>2. c \in Commands /\ c \in AllCommands /\ q \in Queues /\ ~Fresh(c) /\ p \in Clients
  BY <1>1, CommandFacts DEF HandOf, InEnqueue, Appending
<1>3. Calm(p) BY SwapLastCalm
<1>4. /\ pc' \in [Threads -> Labels] /\ pc'[p] = "dropLast"
      /\ \A u \in Threads \ {p} : pc'[u] = pc[u]
  BY <1>1, GotoFacts DEF Labels, Typed
<1>5. /\ my'[p].op = my[p].op /\ my'[p].on = my[p].on /\ my'[p].due = my[p].due
      /\ my'[p].event = my[p].event /\ my'[p].cmd = c
      /\ \A u \in Threads \ {p} : my'[u] = my[u]
  BY <1>1 DEF Typed, Locals
<1>6. queue'[q].last = c /\ \A x \in Queues : x # q => queue'[x] = queue[x]
  <2>1. queue' = [queue EXCEPT ![q].last = c] /\ c \in AllCommands \cup {None} /\ q \in Queues
    BY <1>1, <1>2
  <2> HIDE DEF c, q
  <2> QED BY <2>1, WithLast
<1>7. Steady /\ Grows BY <1>3 DEF Calm, Quiet, Steady, Grows, Fresh, Done
<1>8. DueOf(p)'
  <2>1. DueOf(p) BY <1>2 DEF InvFinish
  <2> QED BY <1>1, <1>2, <1>4, <1>5, <1>7, <2>1, DueSame DEF Appending
<1>9. LastInv'
  <2> HIDE DEF c, q
  <2> SUFFICES ASSUME IsHip, OneClientEach, NEW x \in Queues, NEW d \in AllCommands,
                      ~Fresh(d), command[d].queue = x, command[d].kind # "notify"
               PROVE  /\ \A t \in Clients : Swapping(t, x)' => UpTo(x, d, my[t].cmd)'
                      /\ \/ Done(d)'
                         \/ queue'[x].last # None /\ UpTo(x, d, queue[x].last)'
                         \/ \E t \in Clients : Swapping(t, x)'
    BY <1>1 DEF LastInv, Fresh, OneClientEach
  <2>1. /\ \A t \in Clients : Swapping(t, x) => UpTo(x, d, my[t].cmd)
        /\ \/ Done(d)
           \/ queue[x].last # None /\ UpTo(x, d, queue[x].last)
           \/ \E t \in Clients : Swapping(t, x)
    BY DEF InvFinish, LastInv
  <2>2. \A e : UpTo(x, d, e) => UpTo(x, d, e)' BY <1>7, UpToKept
  <2>3. \A t \in Clients \ {p} : (Swapping(t, x)' <=> Swapping(t, x)) /\ my'[t] = my[t]
    <3> SUFFICES ASSUME NEW t \in Clients \ {p}
                 PROVE (Swapping(t, x)' <=> Swapping(t, x)) /\ my'[t] = my[t]
      OBVIOUS
    <3>1. t \in Threads BY CommandFacts
    <3> QED BY <1>1, <1>4, <1>5, <3>1 DEF Swapping
  <2>4. ~Swapping(p, x)' /\ (Swapping(p, x) <=> x = q) BY <1>1, <1>4 DEF Swapping, c, q
  <2>5. \A t \in Clients : Swapping(t, x)' => UpTo(x, d, my[t].cmd)' BY <2>1, <2>2, <2>3, <2>4 DEF UpTo
  <2>6. CASE x = q
    <3>1. UpTo(x, d, c) BY <1>2, <2>1, <2>4, <2>6 DEF c
    <3>2. c # None BY <1>2, CommandFacts
    <3> QED BY <1>6, <2>2, <2>5, <2>6, <3>1, <3>2 DEF UpTo
  <2>7. CASE x # q
    <3>1. queue'[x] = queue[x] /\ (Done(d) => Done(d)') BY <1>1, <1>6, <2>7 DEF Done
    <3>2. queue[x].last # None /\ UpTo(x, d, queue[x].last) =>
            queue'[x].last # None /\ UpTo(x, d, queue[x].last)'
      BY <2>2, <3>1 DEF UpTo
    <3> QED BY <2>1, <2>3, <2>4, <2>5, <2>7, <3>1, <3>2
  <2> QED BY <2>6, <2>7
<1> QED BY <1>3, <1>8, <1>9, CalmDue DEF InvFinish

(* enqueue() returns: the command is nobody's, or what finish() waits for. *)
LEMMA FlushFinish ==
  ASSUME InvOrder, InvFinish, NEW p \in Threads, Flush(p)
  PROVE  InvFinish'
<1> Typed /\ HandOf(p) BY DEF InvOrder, HandInv
<1> DEFINE c == my[p].cmd
           q == command[c].queue
<1>1. /\ pc[p] = "flush" /\ c \in AllCommands /\ q \in Queues
      /\ UNCHANGED <<created, command, queue, active>>
  BY DEF Flush, HandOf, InEnqueue, Appending
<1>2. command[c].kind # "notify" => c \in Commands /\ p \in Clients /\ my[p].event = None
  BY <1>1 DEF HandOf, InEnqueue, Appending
<1>3. PICK label \in {"idle", "dropMarker", "await"} :
        /\ Notify(q, p, label)
        /\ label = "idle" => /\ command[c].kind = "user"
                             /\ my' = [my EXCEPT ![p].cmd = None]
        /\ label = "dropMarker" => command[c].kind = "notify" /\ UNCHANGED my
        /\ label = "await" => /\ command[c].kind = "finish"
                              /\ my' = [my EXCEPT ![p].cmd = None, ![p].event = c]
  BY DEF Flush
<1>4. pc'[p] = label
  <2>1. label \in Labels \ {"asleep"} /\ pc \in [Threads -> Labels] BY DEF Labels, Typed
  <2> HIDE DEF c, q
  <2> QED BY <1>1, <1>3, <2>1, NotifyFacts
<1>5. Calm(p) BY FlushCalm
<1>6. Steady /\ Grows BY <1>5 DEF Calm, Quiet, Steady, Grows, Fresh, Done
<1>7. p \in Clients => DueOf(p)'
  <2> SUFFICES ASSUME p \in Clients PROVE DueOf(p)' OBVIOUS
  <2>1. DueOf(p) BY DEF InvFinish
  <2>2. CASE label = "idle"
    <3>1. /\ my'[p].op = my[p].op /\ my'[p].on = my[p].on /\ my'[p].due = my[p].due
          /\ my'[p].event = my[p].event /\ my'[p].cmd = None
      BY <1>3, <2>2 DEF Typed, Locals
    <3>2. my[p].op = "none" BY <1>1, <1>2, <1>3, <2>1, <2>2 DEF DueOf, Appending
    <3> QED BY <1>4, <1>6, <2>1, <2>2, <3>1, <3>2, DueSame DEF Appending
  <2>3. CASE label = "dropMarker"
    <3>1. my'[p] = my[p] BY <1>3, <2>3
    <3> QED BY <1>4, <1>6, <2>1, <2>3, <3>1, DueSame DEF Appending
  <2>4. CASE label = "await"
    <3>1. c \in Commands /\ my[p].event = None /\ c # None BY <1>2, <1>3, <2>4, CommandFacts
    <3>2. /\ my'[p].op = my[p].op /\ my'[p].on = my[p].on /\ my'[p].due = my[p].due
          /\ my'[p].event = c /\ my'[p].cmd = None
      <4> DEFINE r == [my[p] EXCEPT !.cmd = None, !.event = c]
      <4>1. my' = [my EXCEPT ![p] = r] /\ my[p] \in Locals BY <1>3, <2>4 DEF Typed
      <4>2. /\ r.op = my[p].op /\ r.on = my[p].on /\ r.due = my[p].due
            /\ r.event = c /\ r.cmd = None
        BY <4>1 DEF Locals
      <4> HIDE DEF r
      <4>3. my'[p] = r BY <4>1 DEF Typed
      <4> QED BY <4>2, <4>3
    <3>3. my[p].op \in {"finish", "terminate"} =>
            \A d \in my[p].due : Done(d) \/ UpTo(my[p].on, d, c)
      BY <1>1, <2>1, <3>1 DEF DueOf, Appending
    <3>5. my'[p].op \in {"finish", "terminate"} =>
            \A d \in my'[p].due : Done(d)' \/ UpTo(my[p].on, d, my[p].event)'
      <4>1. UNCHANGED <<command, queue>> BY <1>1
      <4> HIDE DEF c, q
      <4> QED BY <3>2, <3>3, <4>1 DEF UpTo, Done
    <3>6. \A d \in my'[p].due : command'[d].status # "new" /\ command'[d].queue = my'[p].on
      BY <1>1, <2>1, <3>2 DEF DueOf, Fresh
    <3>7. my'[p].op \notin {"finish", "terminate"} => my'[p].due = {} BY <2>1, <3>2 DEF DueOf
    <3> HIDE DEF c
    <3>8. pc'[p] = "await" /\ my'[p].cmd \notin Commands BY <1>4, <2>4, <3>2, CommandFacts
    <3> QED BY <3>5, <3>6, <3>7, <3>8 DEF DueOf, Appending, Fresh
  <2> QED BY <2>2, <2>3, <2>4
<1>8. pc[p] # "swapLast" /\ pc'[p] # "swapLast" BY <1>1, <1>4
<1>9. \A x \in Queues : queue'[x].last = queue[x].last BY <1>1
<1> QED BY <1>5, <1>7, <1>8, <1>9, CalmDue DEF InvFinish

(* The marker that notifyCmdQueue() makes is not yet appended. *)
LEMMA MarkerFinish ==
  ASSUME InvOrder, InvFinish, NEW p \in Threads, NotifyCmdQueue(p), Sends(p)
  PROVE  InvFinish'
<1> Typed /\ HandOf(p) BY DEF InvOrder, HandInv
<1>1. PICK e, m : MakesMarker(p, e, m) BY MarkerFacts
<1>2. /\ e \in Commands /\ m \in AllCommands \ Commands /\ e = my[p].event /\ pc[p] = "await"
      /\ \A d \in AllCommands : command'[d].status = command[d].status
                                /\ (d # m => command'[d].queue = command[d].queue)
      /\ Fresh(m)
      /\ pc'[p] = "append" /\ my'[p].cmd = m /\ my'[p].event = e
      /\ my'[p].op = my[p].op /\ my'[p].on = my[p].on /\ my'[p].due = my[p].due
      /\ UNCHANGED queue /\ Typed' /\ Steady /\ Alone(p)
  BY <1>1 DEF MakesMarker
<1>3. Grows BY <1>2 DEF Grows
<1>4. p \in Clients => DueOf(p)'
  <2> SUFFICES ASSUME p \in Clients PROVE DueOf(p)' OBVIOUS
  <2>1. DueOf(p) BY DEF InvFinish
  <2>2. \A d \in my[p].due : d \in AllCommands /\ ~Fresh(d) /\ command[d].queue = my[p].on
    BY <2>1, Fields, CommandFacts DEF DueOf
  <2>3. \A d \in my'[p].due : command'[d].status # "new" /\ command'[d].queue = my'[p].on
    BY <1>2, <2>2 DEF Fresh
  <2>5. my'[p].op \in {"finish", "terminate"} =>
          \A d \in my'[p].due : Done(d)' \/ UpTo(my[p].on, d, my[p].event)'
    <3>1. my[p].op \in {"finish", "terminate"} =>
            \A d \in my[p].due : Done(d) \/ UpTo(my[p].on, d, my[p].event)
      BY <1>2, <2>1, CommandFacts DEF DueOf
    <3> QED BY <1>2, <2>2, <3>1 DEF UpTo, Done
  <2>6. my'[p].event # None /\ my'[p].cmd \notin Commands BY <1>2, CommandFacts
  <2>7. my'[p].op \notin {"finish", "terminate"} => my'[p].due = {} BY <1>2, <2>1 DEF DueOf
  <2> QED BY <1>2, <2>3, <2>5, <2>6, <2>7 DEF DueOf, Fresh
<1>5. \A t \in Clients : DueOf(t)' BY <1>2, <1>3, <1>4, OthersDue DEF InvFinish
<1>6. LastInv'
  <2>1. /\ pc[p] # "swapLast" /\ pc'[p] # "swapLast"
        /\ \A x \in Queues : queue'[x].last = queue[x].last
        /\ \A d \in AllCommands : Fresh(d) => command'[d].status = "new"
    BY <1>2 DEF Fresh
  <2> QED BY <1>2, <1>3, <2>1, LastKept DEF InvFinish
<1> QED BY <1>5, <1>6 DEF InvFinish

(* What is appended comes after what was. *)
LEMMA AppendUpTo ==
  ASSUME InvOrder, NEW p \in Threads, NEW c, NEW q, Appends(p, c, q)
  PROVE  Grows /\ \A d \in AllCommands :
                    command'[d].status # "new" /\ command'[d].queue = q => UpTo(q, d, c)'
<1> Typed /\ OrderOf(q) BY DEF InvOrder, OrderInv, Appends
<1>1. /\ c \in AllCommands /\ q \in Queues /\ Fresh(c)
      /\ command' = [command EXCEPT ![c].status = "queued"]
      /\ queue'[q].order = Append(queue[q].order, c)
      /\ \A x \in Queues : x # q => queue'[x] = queue[x]
  BY DEF Appends
<1> DEFINE S == queue[q].order
           l == Len(S)
<1>2. S \in Seq(AllCommands) /\ l \in Nat /\ DOMAIN S = 1..l BY <1>1, Fields
<1>3. /\ DOMAIN Append(S, c) = 1..l + 1 /\ Append(S, c)[l + 1] = c
      /\ \A i \in 1..l : Append(S, c)[i] = S[i]
  BY <1>1, <1>2
<1>4. l + 1 \in 1..l + 1 /\ \A i \in 1..l : i \in 1..l + 1 /\ i <= l + 1 BY <1>2
<1>5. Grows BY <1>1, <1>2, <1>3, <1>4 DEF Grows
<1>6. \A d \in AllCommands : /\ d # c => command'[d] = command[d]
                             /\ command'[d].queue = command[d].queue
  BY <1>1, WithStatus
<1>7. ASSUME NEW d \in AllCommands, command'[d].status # "new", command'[d].queue = q
      PROVE  UpTo(q, d, c)'
  <2>1. CASE d = c
    <3>1. l + 1 \in DOMAIN queue'[q].order /\ queue'[q].order[l + 1] = c /\ l + 1 <= l + 1
      BY <1>1, <1>2, <1>3, <1>4
    <3> HIDE DEF l, S
    <3> QED BY <2>1, <3>1 DEF UpTo
  <2>2. CASE d # c
    <3>1. ~Fresh(d) /\ command[d].queue = q BY <1>6, <1>7, <2>2 DEF Fresh
    <3>2. PICK i \in 1..l : S[i] = d BY <1>2, <3>1 DEF OrderOf
    <3>3. /\ l + 1 \in DOMAIN queue'[q].order /\ queue'[q].order[l + 1] = c /\ i <= l + 1
          /\ i \in DOMAIN queue'[q].order /\ queue'[q].order[i] = d
      BY <1>1, <1>3, <1>4, <3>2
    <3> HIDE DEF l, S
    <3> QED BY <3>3 DEF UpTo
  <2> QED BY <2>1, <2>2
<1> QED BY <1>5, <1>7

(* append(): what was enqueued before it is before it in the queue. *)
LEMMA AppendFinish ==
  ASSUME InvOrder, InvFinish, NEW p \in Threads, AppendCommand(p)
  PROVE  InvFinish'
<1> Typed /\ HandOf(p) /\ HandInv BY DEF InvOrder, HandInv
<1>1. PICK c, q : c = my[p].cmd /\ q = command[c].queue /\ Appends(p, c, q) BY AppendFacts
<1>2. /\ c \in AllCommands /\ q \in Queues /\ Fresh(c) /\ pc[p] = "append"
      /\ command' = [command EXCEPT ![c].status = "queued"]
      /\ \A x \in Queues : queue'[x].last = queue[x].last
      /\ pc'[p] \in {"swapLast", "dropLast", "flush"}
      /\ pc'[p] = "swapLast" <=> IsHip /\ command[c].kind # "notify"
      /\ \A u \in Threads \ {p} : pc'[u] = pc[u]
      /\ my' = my /\ Typed' /\ Steady /\ Alone(p)
  BY <1>1 DEF Appends
<1>3. /\ Grows
      /\ \A d \in AllCommands :
           command'[d].status # "new" /\ command'[d].queue = q => UpTo(q, d, c)'
  BY <1>1, AppendUpTo
<1>4. /\ command'[c].status = "queued"
      /\ \A d \in AllCommands : /\ d # c => command'[d] = command[d]
                                /\ command'[d].kind = command[d].kind
                                /\ command'[d].queue = command[d].queue
  BY <1>2, WithStatus
<1>5. p \in Clients => DueOf(p)'
  <2> SUFFICES ASSUME p \in Clients PROVE DueOf(p)' OBVIOUS
  <2>1. DueOf(p) BY DEF InvFinish
  <2>2. \A d \in my[p].due : /\ d \in AllCommands /\ command'[d].queue = my[p].on
                             /\ command'[d].status # "new" /\ (Done(d) => Done(d)')
    <3>1. \A d \in my[p].due : d \in AllCommands /\ ~Fresh(d) /\ command[d].queue = my[p].on
      BY <2>1, Fields, CommandFacts DEF DueOf
    <3> QED BY <1>2, <1>4, <3>1 DEF Fresh, Done
  <2>3. my[p].op \in {"finish", "terminate"} => my[p].on \in Queues BY DEF HandOf
  <2>4. my[p].op \in {"finish", "terminate"} /\ my[p].event # None =>
          \A d \in my[p].due : Done(d)' \/ UpTo(my[p].on, d, my[p].event)'
    <3>1. my[p].op \in {"finish", "terminate"} /\ my[p].event # None =>
            \A d \in my[p].due : Done(d) \/ UpTo(my[p].on, d, my[p].event)
      BY <2>1 DEF DueOf
    <3>2. my[p].op \in {"finish", "terminate"} /\ my[p].event # None =>
            \A d \in my[p].due : UpTo(my[p].on, d, my[p].event) => UpTo(my[p].on, d, my[p].event)'
      <4>1. \A x \in Queues : \A d, e : UpTo(x, d, e) => UpTo(x, d, e)' BY <1>3, UpToKept
      <4>2. my' = my BY <1>2
      <4> QED BY <2>3, <4>1, <4>2 DEF UpTo
    <3> QED BY <2>2, <3>1, <3>2
  <2>5. my[p].op \in {"finish", "terminate"} /\ my[p].event = None =>
          \A d \in my[p].due : UpTo(my[p].on, d, my[p].cmd)'
    <3> SUFFICES ASSUME my[p].op \in {"finish", "terminate"}, my[p].event = None
                 PROVE  \A d \in my[p].due : UpTo(my[p].on, d, my[p].cmd)'
      OBVIOUS
    <3>1. c \in Commands BY <1>1, <1>2 DEF HandOf, InEnqueue, Appending
    <3>2. q = my[p].on BY <1>1, <2>1, <3>1 DEF DueOf
    <3> QED BY <1>1, <1>2, <1>3, <2>2, <3>2 DEF UpTo
  <2>6. my[p].cmd \in Commands =>
          /\ command'[my[p].cmd].queue = command[my[p].cmd].queue
          /\ command'[my[p].cmd].kind = command[my[p].cmd].kind
    BY <1>4, CommandFacts
  <2>7. /\ my'[p] = my[p] /\ pc[p] \in Appending
        /\ pc'[p] \notin {"idle", "signal", "finished", "stop", "join"}
    BY <1>2 DEF Appending
  <2>8. my[p].op \in {"finish", "terminate"} =>
          /\ my[p].cmd \in Commands => command'[my[p].cmd].queue = my[p].on
          /\ my[p].event = None => \A d \in my[p].due : UpTo(my[p].on, d, my[p].cmd)'
          /\ my[p].event # None =>
               \A d \in my[p].due : Done(d)' \/ UpTo(my[p].on, d, my[p].event)'
    BY <2>1, <2>4, <2>5, <2>6 DEF DueOf
  <2>9. /\ my[p].op \notin {"finish", "terminate"} => my[p].due = {}
        /\ my[p].cmd \in Commands /\ command'[my[p].cmd].kind = "user" => my[p].op = "none"
    BY <2>1, <2>6, <2>7 DEF DueOf
  <2> QED BY <2>2, <2>7, <2>8, <2>9 DEF DueOf, Fresh, UpTo
<1>6. \A t \in Clients : DueOf(t)' BY <1>2, <1>3, <1>5, OthersDue DEF InvFinish
<1>7. LastInv'
  <2>1. CASE pc'[p] # "swapLast"
    <3>1. IsHip => \A d \in AllCommands : Fresh(d) /\ command'[d].status # "new" =>
                     command'[d].kind = "notify"
      BY <1>2, <1>4, <2>1 DEF Fresh
    <3>2. pc[p] # "swapLast" BY <1>2
    <3>3. CASE IsHip BY <1>2, <1>3, <2>1, <3>1, <3>2, <3>3, LastKept DEF InvFinish
    <3>4. CASE ~IsHip BY <3>4 DEF LastInv
    <3> QED BY <3>3, <3>4
  <2>2. CASE pc'[p] = "swapLast"
    <3> SUFFICES ASSUME IsHip, OneClientEach, NEW x \in Queues, NEW d \in AllCommands,
                        command'[d].status # "new", command'[d].queue = x,
                        command'[d].kind # "notify"
                 PROVE  /\ \A t \in Clients : Swapping(t, x)' => UpTo(x, d, my[t].cmd)'
                        /\ \/ Done(d)'
                           \/ queue'[x].last # None /\ UpTo(x, d, queue[x].last)'
                           \/ \E t \in Clients : Swapping(t, x)'
      BY DEF LastInv, Fresh, OneClientEach
    <3>1. c \in Commands /\ p \in Clients /\ q \in Streams[p]
      BY <1>1, <1>2, <2>2 DEF HandOf, InEnqueue, Appending
    <3>2. Swapping(p, q)' /\ \A y \in Queues : Swapping(p, y)' => y = q
      BY <1>1, <1>2, <1>4, <2>2 DEF Swapping
    <3>3. \A t \in Clients \ {p} : Swapping(t, x)' =>
            Swapping(t, x) /\ my'[t] = my[t] /\ x \in Streams[t]
      <4> SUFFICES ASSUME NEW t \in Clients \ {p}, Swapping(t, x)'
                   PROVE  Swapping(t, x) /\ my'[t] = my[t] /\ x \in Streams[t]
        OBVIOUS
      <4>1. t \in Threads /\ my'[t] = my[t] /\ pc[t] = "swapLast" BY <1>2, CommandFacts DEF Swapping
      <4>2. my[t].cmd \in Commands /\ my[t].cmd \in AllCommands /\ command[my[t].cmd].queue \in Streams[t]
        BY <4>1, CommandFacts DEF HandInv, HandOf, InEnqueue, Appending
      <4> QED BY <1>4, <4>1, <4>2 DEF Swapping
    <3>4. CASE x = q
      <4>1. UpTo(q, d, c)' BY <1>3, <3>4
      <4>2. \A t \in Clients \ {p} : ~Swapping(t, x)' BY <3>1, <3>3, <3>4 DEF OneClientEach
      <4> QED BY <1>1, <1>2, <3>1, <3>2, <3>4, <4>1, <4>2 DEF UpTo
    <3>5. CASE x # q
      <4>1. d # c /\ ~Fresh(d) /\ command[d].queue = x /\ command[d].kind # "notify"
        BY <1>1, <1>4, <3>5 DEF Fresh
      <4>2. /\ \A t \in Clients : Swapping(t, x) => UpTo(x, d, my[t].cmd)
            /\ \/ Done(d)
               \/ queue[x].last # None /\ UpTo(x, d, queue[x].last)
               \/ \E t \in Clients : Swapping(t, x)
        BY <4>1 DEF InvFinish, LastInv
      <4>3. \A e : UpTo(x, d, e) => UpTo(x, d, e)' BY <1>3, UpToKept
      <4>4. ~Swapping(p, x) /\ ~Swapping(p, x)' BY <1>2, <3>2, <3>5 DEF Swapping
      <4>5. \A t \in Clients : Swapping(t, x)' => UpTo(x, d, my[t].cmd)'
        BY <3>3, <4>2, <4>3, <4>4 DEF UpTo
      <4>6. (\E t \in Clients : Swapping(t, x)) => \E t \in Clients : Swapping(t, x)'
        <5> SUFFICES ASSUME NEW t \in Clients, Swapping(t, x) PROVE Swapping(t, x)' OBVIOUS
        <5>1. t # p /\ t \in Threads BY <4>4, CommandFacts
        <5>2. my'[t] = my[t] /\ pc'[t] = "swapLast" BY <1>2, <5>1 DEF Swapping
        <5>3. my[t].cmd \in AllCommands
          BY <5>1, CommandFacts DEF HandInv, HandOf, InEnqueue, Appending, Swapping
        <5> QED BY <1>4, <5>2, <5>3 DEF Swapping
      <4>7. Done(d) => Done(d)' BY <1>4, <4>1 DEF Done
      <4>8. queue[x].last # None /\ UpTo(x, d, queue[x].last) =>
              queue'[x].last # None /\ UpTo(x, d, queue[x].last)'
        <5>1. queue'[x].last = queue[x].last BY <1>2
        <5> QED BY <4>3, <5>1 DEF UpTo
      <4> QED BY <4>2, <4>5, <4>6, <4>7, <4>8
    <3> QED BY <3>4, <3>5
  <2> QED BY <2>1, <2>2
<1> QED BY <1>6, <1>7 DEF InvFinish

(* A command whose enqueue() has returned was appended. *)
LEMMA EnqueuedFacts ==
  ASSUME InvOrder, NEW q \in Queues, NEW d \in Enqueued(q)
  PROVE  /\ d \in Commands /\ d \in AllCommands /\ d <= created /\ ~Fresh(d)
         /\ command[d].queue = q /\ command[d].kind = "user"
<1> Typed /\ CommandInv BY DEF InvOrder
<1>1. /\ d \in 1..created /\ command[d].queue = q /\ command[d].kind = "user"
      /\ \A t \in Clients : my[t].cmd # d
  BY DEF Enqueued
<1>2. d \in Commands /\ d <= created BY <1>1, CommandFacts DEF Typed, Commands
<1> QED BY <1>1, <1>2, CommandFacts DEF CommandInv

(* finish() and terminate() send their marker after what was enqueued. *)
LEMMA MakingFinish ==
  ASSUME InvOrder, InvFinish, NEW t \in Clients, NEW kind \in {"user", "finish"},
         NEW q \in Queues, NEW W \in SUBSET handles, Making(t, kind, q, W)
  PROVE  InvFinish'
<1> t \in Threads BY CommandFacts
<1> Typed /\ HandOf(t) BY DEF InvOrder, HandInv
<1> DEFINE n == created + 1
<1>1. /\ pc[t] = "idle" /\ n \in Commands /\ n \in AllCommands /\ Fresh(n)
      /\ \A d \in AllCommands : command'[d].status = command[d].status
                                /\ (d # n => command'[d] = command[d])
      /\ command'[n].kind = kind /\ command'[n].queue = q /\ pc'[t] = "append"
      /\ my'[t].cmd = n /\ my'[t].event = my[t].event
      /\ UNCHANGED queue /\ Typed' /\ Steady /\ Alone(t)
  BY MakingFacts, CommandFacts DEF MakesCommand, Making
<1>2. Grows BY <1>1 DEF Grows
<1>3. my[t].event = None /\ my[t].op = "none" /\ my[t].due = {} BY <1>1 DEF HandOf, InvFinish, DueOf
<1>4. \/ kind = "user" /\ my'[t].op = "none" /\ my'[t].due = {}
      \/ /\ kind = "finish" /\ my'[t].op \in {"finish", "terminate"} /\ my'[t].on = q
         /\ my'[t].due = Enqueued(q)
  <2>1. CASE kind = "user" /\ my' = [my EXCEPT ![t].cmd = n]
    <3>1. my'[t].op = my[t].op /\ my'[t].due = my[t].due BY <1>1, <2>1 DEF Typed, Locals
    <3> QED BY <1>3, <2>1, <3>1
  <2>2. ASSUME NEW what \in {"finish", "terminate"}, kind = "finish",
               my' = [my EXCEPT ![t] = [Begin(t, what, q) EXCEPT !.cmd = n]]
        PROVE  /\ my'[t].op \in {"finish", "terminate"} /\ my'[t].on = q
               /\ my'[t].due = Enqueued(q)
    <3> DEFINE b == Begin(t, what, q)
               r == [b EXCEPT !.cmd = n]
    <3>1. b \in Locals /\ b.op = what /\ b.on = q /\ b.due = Enqueued(q) BY BeginFacts
    <3>2. my' = [my EXCEPT ![t] = r] BY <2>2
    <3> HIDE DEF b, n
    <3>3. r.op = what /\ r.on = q /\ r.due = Enqueued(q) BY <3>1 DEF Locals
    <3> HIDE DEF r
    <3>4. my'[t] = r BY <3>2 DEF Typed
    <3> QED BY <3>3, <3>4
  <2> QED BY <2>1, <2>2 DEF Making
<1> HIDE DEF n
<1>5. \A d \in Enqueued(q) : ~Fresh(d) /\ d \in AllCommands /\ command[d].queue = q BY EnqueuedFacts
<1>6. DueOf(t)'
  <2>1. my'[t].event = None /\ pc'[t] = "append" /\ my'[t].cmd = n BY <1>1, <1>3
  <2>2. CASE kind = "user" /\ my'[t].op = "none" /\ my'[t].due = {} BY <2>1, <2>2 DEF DueOf
  <2>3. CASE /\ kind = "finish" /\ my'[t].op \in {"finish", "terminate"} /\ my'[t].on = q
             /\ my'[t].due = Enqueued(q)
    <3>1. \A d \in my'[t].due : command'[d].status # "new" /\ command'[d].queue = my'[t].on
      BY <1>1, <1>5, <2>3 DEF Fresh
    <3> QED BY <1>1, <2>1, <2>3, <3>1 DEF DueOf, Fresh
  <2> QED BY <1>4, <2>2, <2>3
<1>7. \A u \in Clients : DueOf(u)' BY <1>1, <1>2, <1>6, OthersDue DEF InvFinish
<1>8. LastInv'
  <2>1. /\ pc[t] # "swapLast" /\ pc'[t] # "swapLast"
        /\ \A x \in Queues : queue'[x].last = queue[x].last
        /\ \A d \in AllCommands : Fresh(d) => command'[d].status = "new"
    BY <1>1 DEF Fresh
  <2> QED BY <1>1, <1>2, <2>1, LastKept DEF InvFinish
<1> QED BY <1>7, <1>8 DEF InvFinish

(* A user event that is made was no command before, and is on no queue. *)
LEMMA CreateSteady ==
  ASSUME InvOrder, NEW t \in Clients, CreateUserEvent(t)
  PROVE  /\ Steady
         /\ \A c \in AllCommands : Fresh(c) /\ command'[c].status # "new" =>
                                   command'[c].queue \notin Queues
<1> Typed /\ CommandInv BY DEF InvOrder
<1> DEFINE e == created + 1
           r == [command[e] EXCEPT !.kind = "userEvent", !.status = "submitted"]
<1>1. created < MaxCommands /\ command' = [command EXCEPT ![e] = r] BY DEF CreateUserEvent
<1>2. /\ e \in Commands /\ e \in AllCommands /\ Fresh(e) /\ command[e] \in CommandObject
      /\ command[e].queue = None
  <2>1. e \in Commands /\ e > created BY <1>1, CommandFacts DEF Typed, Commands
  <2> QED BY <2>1, CommandFacts DEF Typed, CommandInv
<1> HIDE DEF e
<1>3. r.queue = None /\ r.waits = command[e].waits /\ r.notified = command[e].notified
  BY <1>2 DEF CommandObject
<1> HIDE DEF r
<1>4. command'[e] = r /\ \A d \in AllCommands \ {e} : command'[d] = command[d] BY <1>1, <1>2 DEF Typed
<1>5. \A u \in Threads : pc[u] = "append" => my[u].cmd # e
  <2>1. \A u \in Threads : pc[u] = "append" => command[my[u].cmd].queue \in Queues
    BY DEF InvOrder, HandInv, HandOf, InEnqueue, Appending
  <2>2. command[e].queue \notin Queues BY <1>2, CommandFacts
  <2> QED BY <2>1, <2>2
<1>6. Steady
  <2>1. \A c \in AllCommands \ {e} :
          /\ command'[c] = command[c]
          /\ ~Fresh(c) => command[c].status # "new"
    BY <1>4 DEF Fresh
  <2>2. /\ Fresh(e) /\ ~Done(e) /\ command'[e].notified = command[e].notified
        /\ ~\E u \in Threads : pc[u] = "append" /\ my[u].cmd = e
    BY <1>2, <1>3, <1>4, <1>5 DEF Fresh, Done
  <2> QED BY <2>1, <2>2, Zenon DEF Steady
<1>7. \A c \in AllCommands : Fresh(c) /\ command'[c].status # "new" =>
                              command'[c].queue \notin Queues
  BY <1>3, <1>4, CommandFacts DEF Fresh
<1> QED BY <1>6, <1>7

(* The application makes a user event, and sets it. *)
LEMMA UserEventFinish ==
  ASSUME InvOrder, InvFinish, NEW t \in Clients,
         \/ CreateUserEvent(t)
         \/ \E e \in handles, outcome \in {"complete", "error"} : SetUserEvent(t, e, outcome)
  PROVE  InvFinish'
<1> t \in Threads BY CommandFacts
<1> Typed /\ HandOf(t) /\ CommandInv BY DEF InvOrder, HandInv
<1>1. pc[t] = "idle" /\ UNCHANGED queue BY DEF CreateUserEvent, SetUserEvent
<1>2. my[t].op = "none" /\ my[t].due = {} /\ DueOf(t) BY <1>1 DEF InvFinish, DueOf
<1>3. Grows BY <1>1 DEF Grows
<1>4. \A q \in Queues : queue'[q].last = queue[q].last BY <1>1
<1>5. CASE CreateUserEvent(t)
  <2>1. /\ Steady /\ \A c \in AllCommands : Fresh(c) /\ command'[c].status # "new" =>
                                             command'[c].queue \notin Queues
        /\ UNCHANGED <<pc, my>>
    BY <1>5, CreateSteady DEF CreateUserEvent
  <2>2. Alone(t) /\ my'[t] = my[t] /\ pc'[t] = pc[t] BY <2>1 DEF Alone
  <2>3. DueOf(t)' BY <1>2, <1>3, <2>1, <2>2, DueSame
  <2>4. LastInv' BY <1>1, <1>3, <1>4, <2>1, <2>2, LastKept DEF InvFinish
  <2> QED BY <1>3, <2>1, <2>2, <2>3, <2>4, OthersDue DEF InvFinish
<1>6. ASSUME NEW e \in handles, NEW outcome \in {"complete", "error"},
             SetUserEvent(t, e, outcome)
      PROVE  InvFinish'
  <2>1. Settle(t, e, outcome) /\ ~Done(e) /\ UNCHANGED <<created, handles>> BY <1>6 DEF SetUserEvent
  <2>2. e \in AllCommands /\ ~Fresh(e) BY CommandFacts DEF Typed, CommandInv
  <2>3. /\ SameCommands /\ Steady /\ pc'[t] = "signal"
        /\ \A u \in Threads \ {t} : pc'[u] = pc[u] /\ my'[u] = my[u]
        /\ my'[t].op = my[t].op /\ my'[t].due = my[t].due
    BY <2>1, <2>2, SettleFacts
  <2>4. Alone(t) BY <2>3 DEF Alone
  <2>5. DueOf(t)' BY <1>2, <2>3 DEF DueOf, Appending
  <2>6. \A c \in AllCommands : Fresh(c) => command'[c].status = "new" BY <2>3 DEF SameCommands
  <2>7. LastInv' BY <1>1, <1>3, <1>4, <2>3, <2>4, <2>6, LastKept DEF InvFinish
  <2> QED BY <1>3, <2>3, <2>4, <2>5, <2>7, OthersDue DEF InvFinish
<1> QED BY <1>5, <1>6

(* The steps of clients that change no command and no queue. *)
LEMMA ClientFinish ==
  ASSUME InvOrder, InvFinish, NEW t \in Clients, Calm(t), DueOf(t)',
         pc[t] # "swapLast", pc'[t] # "swapLast",
         \A q \in Queues : queue'[q].last = queue[q].last
  PROVE  InvFinish'
<1> t \in Threads BY CommandFacts
<1> QED BY CalmDue DEF InvFinish

(* The application awaits an event, and the call returns. *)
LEMMA AwaitFinish ==
  ASSUME InvOrder, InvFinish, NEW t \in Clients,
         AwaitReturns(t) \/ \E c \in handles : Await(t, c)
  PROVE  InvFinish'
<1> t \in Threads BY CommandFacts
<1> Typed /\ DueOf(t) BY DEF InvOrder, InvFinish
<1>1. Calm(t) BY AwaitReturnsCalm, AwaitCalm
<1>2. PICK label \in {"idle", "await"}, op \in {"none", "await"}, e \in Commands \cup {None} :
        /\ pc[t] \in {"awaited", "idle"} /\ my[t].op \notin {"finish", "terminate"}
        /\ Goto(t, label) /\ my' = [my EXCEPT ![t].op = op, ![t].event = e]
        /\ label = "idle" => op = "none"
        /\ UNCHANGED queue
  <2>1. CASE AwaitReturns(t) BY <2>1 DEF AwaitReturns
  <2>2. ASSUME NEW c \in handles, Await(t, c)
        PROVE  /\ pc[t] \in {"awaited", "idle"} /\ my[t].op \notin {"finish", "terminate"}
               /\ Goto(t, "await") /\ my' = [my EXCEPT ![t].op = "await", ![t].event = c]
               /\ UNCHANGED queue /\ c \in Commands
    BY <2>2 DEF Await, DueOf, Typed
  <2> QED BY <2>1, <2>2
<1>3. /\ my'[t].op = op /\ my'[t].due = my[t].due /\ my'[t].cmd = my[t].cmd
  <2> DEFINE r == [my[t] EXCEPT !.op = op, !.event = e]
  <2>1. my' = [my EXCEPT ![t] = r] /\ my[t] \in Locals BY <1>2 DEF Typed
  <2>2. r.op = op /\ r.due = my[t].due /\ r.cmd = my[t].cmd BY <2>1 DEF Locals
  <2> HIDE DEF r
  <2>3. my'[t] = r BY <2>1 DEF Typed
  <2> QED BY <2>2, <2>3
<1>4. pc'[t] = label BY <1>2, GotoFacts DEF Typed, Labels
<1>5. my'[t].due = {} BY <1>2, <1>3 DEF DueOf
<1>6. DueOf(t)' BY <1>2, <1>3, <1>4, <1>5 DEF DueOf, Appending
<1> QED BY <1>1, <1>2, <1>4, <1>6, ClientFinish

(* finish() and terminate() return; an event is released, or signalled; a
   queue is told to stop, and has. *)
LEMMA ReturnFinish ==
  ASSUME InvOrder, InvFinish, NEW t \in Clients,
         \/ FinishReturns(t) \/ SignalUserEvent(t) \/ Stop(t) \/ Join(t)
         \/ \E c \in handles : ReleaseHandle(t, c)
  PROVE  InvFinish'
<1> t \in Threads BY CommandFacts
<1> Typed /\ HandOf(t) /\ DueOf(t) BY DEF InvOrder, HandInv, InvFinish
<1>1. Calm(t)
  BY FinishReturnsCalm, SignalCalm, StopCalm, JoinCalm, ReleaseHandleCalm, CommandFacts
     DEF SignalUserEvent
<1>2. Steady /\ Grows BY <1>1 DEF Calm, Quiet, Steady, Grows, Fresh, Done
<1>3. CASE FinishReturns(t)
  <2>1. /\ pc[t] = "finished" /\ Goto(t, "idle") /\ UNCHANGED queue
        /\ my' = [my EXCEPT ![t].op = "none", ![t].on = None, ![t].due = {}]
    BY <1>3 DEF FinishReturns
  <2>2. my'[t].op = "none" /\ my'[t].due = {}
    <3> DEFINE r == [my[t] EXCEPT !.op = "none", !.on = None, !.due = {}]
    <3>1. my' = [my EXCEPT ![t] = r] /\ my[t] \in Locals BY <2>1 DEF Typed
    <3>2. r.op = "none" /\ r.due = {} BY <3>1 DEF Locals
    <3> HIDE DEF r
    <3>3. my'[t] = r BY <3>1 DEF Typed
    <3> QED BY <3>2, <3>3
  <2>3. pc'[t] = "idle" BY <2>1, GotoFacts DEF Typed, Labels
  <2>4. DueOf(t)' BY <2>2, <2>3 DEF DueOf, Appending
  <2> QED BY <1>1, <2>1, <2>3, <2>4, ClientFinish
<1>4. CASE SignalUserEvent(t)
  <2>1. Signal(t, <<>>, "idle") /\ UNCHANGED queue /\ "idle" \in Labels
    BY <1>4 DEF SignalUserEvent, Labels
  <2>2. /\ pc[t] = "signal" /\ pc'[t] = "idle" /\ my'[t].op = my[t].op /\ my'[t].due = my[t].due
    BY <2>1, SignalFacts
  <2>3. my'[t].op = "none" /\ my'[t].due = {} BY <2>2 DEF DueOf
  <2>4. DueOf(t)' BY <2>2, <2>3 DEF DueOf, Appending
  <2> QED BY <1>1, <2>1, <2>2, <2>4, ClientFinish
<1>5. CASE Stop(t)
  <2>1. /\ pc[t] = "stop" /\ Notify(my[t].on, t, "join") /\ UNCHANGED my
        /\ queue' = [queue EXCEPT ![my[t].on].accepting = FALSE]
    BY <1>5 DEF Stop
  <2>2. my[t].on \in Queues BY <2>1 DEF HandOf
  <2>3. pc'[t] = "join"
    <3>1. "join" \in Labels \ {"asleep"} BY DEF Labels
    <3> QED BY <2>1, <2>2, <3>1, NotifyFacts DEF Typed
  <2>4. \A q \in Queues : queue'[q].last = queue[q].last BY <2>1, <2>2, WithAccepting
  <2>5. DueOf(t)' BY <1>2, <2>1, <2>3, DueSame DEF Appending
  <2> QED BY <1>1, <2>1, <2>3, <2>4, <2>5, ClientFinish
<1>6. CASE Join(t)
  <2>1. pc[t] = "join" /\ Goto(t, "finished") /\ UNCHANGED <<my, queue>> BY <1>6 DEF Join
  <2>2. pc'[t] = "finished" BY <2>1, GotoFacts DEF Typed, Labels
  <2>3. DueOf(t)' BY <1>2, <2>1, <2>2, DueSame DEF Appending
  <2> QED BY <1>1, <2>1, <2>2, <2>3, ClientFinish
<1>7. CASE \E c \in handles : ReleaseHandle(t, c)
  <2>1. pc[t] = "idle" /\ UNCHANGED <<pc, my, queue>> BY <1>7 DEF ReleaseHandle
  <2>2. DueOf(t)' BY <1>2, <2>1, DueSame DEF Appending
  <2> QED BY <1>1, <2>1, <2>2, ClientFinish
<1> QED BY <1>3, <1>4, <1>5, <1>6, <1>7

(* HIP, one client to a queue: the last command covers what was enqueued. *)
LEMMA LastCovers ==
  ASSUME InvOrder, InvFinish, IsHip, OneClientEach, NEW t \in Clients, pc[t] = "idle",
         NEW q \in Streams[t], NEW d \in Enqueued(q)
  PROVE  Done(d) \/ (queue[q].last # None /\ UpTo(q, d, queue[q].last))
<1>1. q \in Queues BY HostQueueAssumption
<1>2. d \in AllCommands /\ ~Fresh(d) /\ command[d].queue = q /\ command[d].kind # "notify"
  BY <1>1, EnqueuedFacts
<1>3. \A u \in Clients : ~Swapping(u, q)
  <2> SUFFICES ASSUME NEW u \in Clients, Swapping(u, q) PROVE FALSE OBVIOUS
  <2>1. u # t /\ u \in Threads BY CommandFacts DEF Swapping
  <2>2. q \in Streams[u] BY <2>1 DEF Swapping, InvOrder, HandInv, HandOf, InEnqueue, Appending
  <2> QED BY <2>1, <2>2 DEF OneClientEach
<1> QED BY <1>1, <1>2, <1>3 DEF InvFinish, LastInv

(* finish() awaits the last command, or has nothing to await. *)
LEMMA BeginFinish ==
  ASSUME InvOrder, InvFinish, OneClientEach, IsHip, NEW t \in Clients, NEW q \in Streams[t],
         pc[t] = "idle", Calm(t), UNCHANGED <<command, queue>>,
         \/ FinishLast(t, q)
         \/ /\ queue[q].last = None
            /\ \E what \in {"finish", "terminate"}, label \in {"finished", "stop"} :
                 my' = [my EXCEPT ![t] = Begin(t, what, q)] /\ Goto(t, label)
  PROVE  InvFinish'
<1> t \in Threads BY CommandFacts
<1> q \in Queues BY HostQueueAssumption
<1> Typed /\ HandOf(t) BY DEF InvOrder, HandInv
<1>1. my[t].cmd = None /\ my[t].event = None BY DEF HandOf, InEnqueue, Appending
<1>2. \A d \in Enqueued(q) : /\ ~Fresh(d) /\ command[d].queue = q
                             /\ Done(d) \/ (queue[q].last # None /\ UpTo(q, d, queue[q].last))
  BY EnqueuedFacts, LastCovers
<1>3. CASE FinishLast(t, q)
  <2> DEFINE c == queue[q].last
             b == Begin(t, "finish", q)
             r == [b EXCEPT !.event = c]
  <2>1. my' = [my EXCEPT ![t] = r] /\ Goto(t, "await") /\ c # None BY <1>3 DEF FinishLast
  <2>2. b \in Locals /\ b.op = "finish" /\ b.on = q /\ b.cmd = my[t].cmd /\ b.due = Enqueued(q)
    BY BeginFacts
  <2> HIDE DEF b, c
  <2>3. r.cmd = None /\ r.event = c /\ r.op = "finish" /\ r.on = q /\ r.due = Enqueued(q)
    BY <1>1, <2>2 DEF Locals
  <2> HIDE DEF r
  <2>4. my'[t] = r BY <2>1 DEF Typed
  <2>5. pc'[t] = "await" BY <2>1, GotoFacts DEF Typed, Labels
  <2>6. \A d \in my'[t].due : /\ command'[d].status # "new" /\ command'[d].queue = my'[t].on
                              /\ Done(d)' \/ UpTo(my[t].on, d, my[t].event)'
    BY <1>2, <2>3, <2>4 DEF Fresh, Done, UpTo, c
  <2>7. my'[t].cmd \notin Commands BY <2>3, <2>4, CommandFacts
  <2>8. DueOf(t)' BY <2>3, <2>4, <2>5, <2>6, <2>7 DEF DueOf, Appending, Fresh
  <2> QED BY <2>5, <2>8, ClientFinish
<1>4. ASSUME NEW what \in {"finish", "terminate"}, NEW label \in {"finished", "stop"},
             queue[q].last = None, my' = [my EXCEPT ![t] = Begin(t, what, q)], Goto(t, label)
      PROVE  InvFinish'
  <2> DEFINE b == Begin(t, what, q)
  <2>1. /\ b \in Locals /\ b.op = what /\ b.on = q /\ b.cmd = None /\ b.event = None
        /\ b.due = Enqueued(q)
    BY <1>1, BeginFacts
  <2>2. my'[t] = b BY <1>4 DEF Typed
  <2> HIDE DEF b
  <2>3. pc'[t] = label BY <1>4, GotoFacts DEF Typed, Labels
  <2>4. \A d \in my'[t].due : command'[d].status # "new" /\ command'[d].queue = my'[t].on /\ Done(d)'
    BY <1>2, <1>4, <2>1, <2>2 DEF Fresh, Done
  <2>5. my'[t].cmd \notin Commands BY <2>1, <2>2, CommandFacts
  <2>6. DueOf(t)' BY <2>1, <2>2, <2>3, <2>4, <2>5 DEF DueOf, Appending, Fresh
  <2> QED BY <2>3, <2>6, ClientFinish
<1> QED BY <1>3, <1>4

(* The wait is over, and with it what was appended before. *)
LEMMA AwaitedFinish ==
  ASSUME InvOrder, InvFinish, NEW t \in Clients, ClearLast(t) \/ DropFinalMarker(t)
  PROVE  InvFinish'
<1> t \in Threads BY CommandFacts
<1> Typed /\ HandOf(t) /\ DueOf(t) /\ HandInv BY DEF InvOrder, HandInv, InvFinish
<1> DEFINE c == my[t].event
           q == my[t].on
<1>1. PICK label \in {"finished", "stop"} :
        /\ pc[t] = "awaited" /\ my[t].op \in {"finish", "terminate"}
        /\ my' = [my EXCEPT ![t].event = None] /\ Goto(t, label) /\ UNCHANGED command
        /\ \/ queue' = [queue EXCEPT ![q].last = None] /\ queue[q].last = c
           \/ UNCHANGED queue
  BY DEF ClearLast, DropFinalMarker
<1>2. q \in Queues /\ c # None /\ Done(c) /\ my[t].cmd = None BY <1>1 DEF HandOf, InEnqueue, Appending
<1>3. \A d \in my[t].due : Done(d) BY <1>1, <1>2, DoneUpTo DEF DueOf
<1>4. Calm(t) BY ClearLastCalm, DropFinalMarkerCalm
<1>5. /\ my'[t].op = my[t].op /\ my'[t].on = q /\ my'[t].due = my[t].due
      /\ my'[t].event = None /\ my'[t].cmd = None
      /\ \A u \in Threads \ {t} : my'[u] = my[u]
  BY <1>1, <1>2 DEF Typed, Locals
<1>6. pc'[t] = label /\ \A u \in Threads \ {t} : pc'[u] = pc[u] BY <1>1, GotoFacts DEF Typed, Labels
<1>7. DueOf(t)'
  <2>1. \A d \in my'[t].due : Done(d)' /\ command'[d].status # "new" /\ command'[d].queue = my'[t].on
    BY <1>1, <1>3, <1>5 DEF DueOf, Done, Fresh
  <2> QED BY <1>1, <1>5, <1>6, <2>1, CommandFacts DEF DueOf, Appending, Fresh
<1>8. CASE UNCHANGED queue BY <1>1, <1>4, <1>6, <1>7, <1>8, ClientFinish
<1>9. CASE queue' = [queue EXCEPT ![q].last = None] /\ queue[q].last = c
  <2> HIDE DEF c, q
  <2>1. /\ queue'[q].last = None
        /\ \A x \in Queues : x # q => queue'[x] = queue[x]
    BY <1>2, <1>9, WithLast
  <2>2. Steady /\ Grows BY <1>4 DEF Calm, Quiet, Steady, Grows, Fresh, Done
  <2>3. LastInv'
    <3> SUFFICES ASSUME IsHip, OneClientEach, NEW x \in Queues, NEW d \in AllCommands,
                        ~Fresh(d), command[d].queue = x, command[d].kind # "notify"
                 PROVE  /\ \A u \in Clients : Swapping(u, x)' => UpTo(x, d, my[u].cmd)'
                        /\ \/ Done(d)'
                           \/ queue'[x].last # None /\ UpTo(x, d, queue[x].last)'
                           \/ \E u \in Clients : Swapping(u, x)'
      BY <1>1 DEF LastInv, Fresh, OneClientEach
    <3>1. /\ \A u \in Clients : Swapping(u, x) => UpTo(x, d, my[u].cmd)
          /\ \/ Done(d)
             \/ queue[x].last # None /\ UpTo(x, d, queue[x].last)
             \/ \E u \in Clients : Swapping(u, x)
      BY DEF InvFinish, LastInv
    <3>2. \A u \in Clients : (Swapping(u, x)' <=> Swapping(u, x)) /\
                             (Swapping(u, x) => my'[u] = my[u])
      <4> SUFFICES ASSUME NEW u \in Clients
                   PROVE (Swapping(u, x)' <=> Swapping(u, x)) /\ (Swapping(u, x) => my'[u] = my[u])
        OBVIOUS
      <4>1. u \in Threads BY CommandFacts
      <4>2. CASE u = t BY <1>1, <1>6, <4>2 DEF Swapping
      <4>3. CASE u # t BY <1>1, <1>5, <1>6, <4>1, <4>3 DEF Swapping
      <4> QED BY <4>2, <4>3
    <3>3. \A e : UpTo(x, d, e) => UpTo(x, d, e)' BY <2>2, UpToKept
    <3>4. \A u \in Clients : Swapping(u, x)' => UpTo(x, d, my[u].cmd)' BY <3>1, <3>2, <3>3 DEF UpTo
    <3>5. CASE x = q
      <4>1. UpTo(x, d, c) => Done(d) BY <1>2, <3>5, DoneUpTo
      <4>2. Done(d) => Done(d)' BY <1>1 DEF Done
      <4> QED BY <1>9, <3>1, <3>2, <3>4, <3>5, <4>1, <4>2
    <3>6. CASE x # q
      <4>1. queue'[x] = queue[x] /\ (Done(d) => Done(d)') BY <1>1, <2>1, <3>6 DEF Done
      <4>2. queue[x].last # None /\ UpTo(x, d, queue[x].last) =>
              queue'[x].last # None /\ UpTo(x, d, queue[x].last)'
        BY <3>3, <4>1 DEF UpTo
      <4> QED BY <3>1, <3>2, <3>4, <4>1, <4>2
    <3> QED BY <3>5, <3>6
  <2> QED BY <1>4, <1>7, <2>3, CalmDue DEF InvFinish
<1> QED BY <1>1, <1>8, <1>9

(* What a worker does to the commands that were appended. *)
Works(q) ==
  /\ Steady /\ Alone(q)
  /\ \A x \in Queues : /\ queue'[x].order = queue[x].order /\ queue'[x].last = queue[x].last
                       /\ queue'[x].accepting = queue[x].accepting
                       /\ queue'[x].fifo = queue[x].fifo \/ queue[x].fifo # <<>>
  /\ \A c \in AllCommands : Fresh(c) => command'[c].status = "new"
  /\ pc[q] \notin Appending /\ pc'[q] \notin Appending \cup {"asleep", "join"}
  /\ UNCHANGED active

(* It is no concern of finish(). *)
LEMMA WorkerFinish ==
  ASSUME InvOrder, InvFinish, NEW q \in Queues, Steady, Alone(q),
         \A x \in Queues : queue'[x].order = queue[x].order /\ queue'[x].last = queue[x].last,
         \A c \in AllCommands : Fresh(c) => command'[c].status = "new"
  PROVE  InvFinish'
<1>1. q \in Threads /\ q \notin Clients BY CommandFacts
<1>2. Grows BY DEF Grows
<1> QED BY <1>1, <1>2, OthersDue, LastKept DEF InvFinish

(* The steps of workers that take, insert, complete and drop commands. *)
LEMMA LoudWorks ==
  ASSUME InvOrder, NEW q \in Queues,
         Take(q) \/ Insert(q) \/ CompleteHead(q) \/ SignalHead(q)
  PROVE  Works(q)
<1> q \in Threads BY CommandFacts
<1> Typed BY DEF InvOrder
<1>1. ASSUME UNCHANGED command PROVE Steady /\ \A c \in AllCommands : Fresh(c) => command'[c].status = "new"
  BY <1>1 DEF Steady, Fresh, Done
<1>2. CASE Take(q)
  <2> DEFINE f == Tail(queue[q].fifo)
             r == [queue[q] EXCEPT !.fifo = f]
  <2>1. /\ queue' = [queue EXCEPT ![q] = r] /\ UNCHANGED <<command, active>> /\ Goto(q, "events")
        /\ my' = [my EXCEPT ![q].taken = Head(queue[q].fifo),
                            ![q].todo = command[Head(queue[q].fifo)].waits, ![q].failed = FALSE]
        /\ pc[q] \in {"dequeue", "recheck"} /\ queue[q].fifo # <<>>
    BY <1>2 DEF Take
  <2> HIDE DEF f
  <2>2. r.order = queue[q].order /\ r.last = queue[q].last /\ r.accepting = queue[q].accepting
    BY DEF Typed, QueueObject
  <2> HIDE DEF r
  <2>3. \A x \in Queues : /\ queue'[x].order = queue[x].order /\ queue'[x].last = queue[x].last
                          /\ queue'[x].accepting = queue[x].accepting
                          /\ queue'[x].fifo = queue[x].fifo \/ queue[x].fifo # <<>>
    BY <2>1, <2>2 DEF Typed
  <2>4. /\ pc'[q] = "events" /\ \A u \in Threads \ {q} : pc'[u] = pc[u]
    BY <2>1, GotoFacts DEF Typed, Labels
  <2>5. Alone(q)
    <3>1. \A u \in Threads \ {q} : my'[u] = my[u] BY <2>1 DEF Typed
    <3> QED BY <2>4, <3>1 DEF Alone
  <2> QED BY <1>1, <2>1, <2>3, <2>4, <2>5 DEF Works, Appending
<1>3. ASSUME NEW s \in Seq(AllCommands), queue' = [queue EXCEPT ![q].batch = s]
      PROVE  \A x \in Queues : /\ queue'[x].order = queue[x].order /\ queue'[x].last = queue[x].last
                               /\ queue'[x].accepting = queue[x].accepting
                               /\ queue'[x].fifo = queue[x].fifo
  BY <1>3, WithBatch
<1>4. CASE Insert(q)
  <2>1. PICK c, status : Inserts(q, c, status) BY <1>4, InsertFacts
  <2>2. /\ c \in AllCommands /\ command[c].status = "queued"
        /\ command' = [command EXCEPT ![c].status = status]
        /\ status \in {"error", "submitted"} /\ my[q].taken = c
        /\ pc[q] = "events" /\ pc'[q] \in {"signal", "dequeue", "flushBatch"}
        /\ \A u \in Threads \ {q} : pc'[u] = pc[u] /\ my'[u] = my[u]
        /\ UNCHANGED active
    BY <2>1 DEF Inserts
  <2>3. Steady BY <2>2, SteadyStatus DEF Done
  <2>4. \A d \in AllCommands : d # c => command'[d] = command[d] BY <2>2, WithStatus
  <2>5. \A d \in AllCommands : Fresh(d) => command'[d].status = "new" BY <2>2, <2>4 DEF Fresh
  <2>6. Alone(q) BY <2>2 DEF Alone
  <2>7. \A x \in Queues : /\ queue'[x].order = queue[x].order /\ queue'[x].last = queue[x].last
                          /\ queue'[x].accepting = queue[x].accepting
                          /\ queue'[x].fifo = queue[x].fifo
    <3> DEFINE s == Append(queue[q].batch, c)
    <3>1. queue' = [queue EXCEPT ![q].batch = s] BY <1>4, <2>2 DEF Insert
    <3>2. s \in Seq(AllCommands)
      <4>1. queue[q].batch \in Seq(AllCommands) BY Fields
      <4> QED BY <2>2, <4>1
    <3> HIDE DEF s
    <3> QED BY <1>3, <3>1, <3>2
  <2> QED BY <2>2, <2>3, <2>5, <2>6, <2>7 DEF Works, Appending
<1>5. ASSUME queue' = [queue EXCEPT ![q].batch = Tail(queue[q].batch)], queue[q].batch # <<>>
      PROVE  \A x \in Queues : /\ queue'[x].order = queue[x].order /\ queue'[x].last = queue[x].last
                               /\ queue'[x].accepting = queue[x].accepting
                               /\ queue'[x].fifo = queue[x].fifo
  <2>1. Tail(queue[q].batch) \in Seq(AllCommands)
    <3>1. queue[q].batch \in Seq(AllCommands) BY Fields
    <3> QED BY <1>5, <3>1
  <2> QED BY <1>3, <1>5, <2>1
<1>6. CASE CompleteHead(q)
  <2> DEFINE c == Head(queue[q].batch)
  <2>1. pc[q] = "flushBatch" /\ queue[q].batch # <<>> /\ UNCHANGED active BY <1>6 DEF CompleteHead
  <2>2. CASE command[c].status = "submitted"
    <3>1. Settle(q, c, "complete") /\ UNCHANGED <<created, handles, queue>> BY <1>6, <2>2 DEF CompleteHead
    <3>2. c \in AllCommands
      <4>1. queue[q].batch \in Seq(AllCommands) BY Fields
      <4> QED BY <2>1, <4>1
    <3> HIDE DEF c
    <3>3. ~Fresh(c) /\ ~Done(c) BY <2>2 DEF Fresh, Done
    <3>4. /\ SameCommands /\ Steady /\ pc'[q] = "signal"
          /\ \A u \in Threads \ {q} : pc'[u] = pc[u] /\ my'[u] = my[u]
      BY <3>1, <3>2, <3>3, SettleFacts
    <3>5. Alone(q) /\ \A d \in AllCommands : Fresh(d) => command'[d].status = "new"
      BY <3>4 DEF Alone, SameCommands
    <3> QED BY <2>1, <3>1, <3>4, <3>5 DEF Works, Appending
  <2>3. CASE command[c].status # "submitted"
    <3>1. /\ queue' = [queue EXCEPT ![q].batch = Tail(queue[q].batch)]
          /\ UNCHANGED <<command, pc, my>>
      BY <1>6, <2>3 DEF CompleteHead
    <3>2. Alone(q) BY <3>1 DEF Alone
    <3> QED BY <1>1, <1>5, <2>1, <3>1, <3>2 DEF Works, Appending
  <2> QED BY <2>2, <2>3
<1>7. CASE SignalHead(q)
  <2>1. /\ pc[q] = "signal" /\ command[my[q].cmd].status = "complete"
        /\ Signal(q, <<my[q].cmd>>, "flushBatch")
        /\ queue' = [queue EXCEPT ![q].batch = Tail(queue[q].batch)]
    BY <1>7 DEF SignalHead
  <2>2. queue[q].batch # <<>> BY <2>1 DEF InvOrder, WorkerInv, WorkerOf
  <2>3. /\ \A u \in Threads \ {q} : pc'[u] = pc[u] \/ (pc[u] = "waiting" /\ pc'[u] = "sleep")
        /\ \A u \in Threads \ {q} : my'[u] = my[u]
        /\ pc'[q] = "flushBatch" /\ UNCHANGED <<command, active>>
    <3>1. "flushBatch" \in Labels BY DEF Labels
    <3> QED BY <2>1, <3>1, SignalFacts
  <2>4. Alone(q) BY <2>3 DEF Alone
  <2> QED BY <1>1, <1>5, <2>1, <2>2, <2>3, <2>4 DEF Works, Appending
<1> QED BY <1>2, <1>4, <1>6, <1>7

(* The other steps of workers change no command. *)
LEMMA CalmWorks ==
  ASSUME InvOrder, NEW q \in Queues,
         NextEvent(q) \/ EventAwaited(q) \/ SignalError(q) \/ BatchFlushed(q)
  PROVE  Works(q)
<1> q \in Threads BY CommandFacts
<1> Typed BY DEF InvOrder
<1>1. Calm(q) /\ UNCHANGED <<queue, active>>
  <2>1. CASE SignalError(q) BY <2>1, SignalCalm, CommandFacts DEF SignalError, Signal
  <2>2. CASE ~SignalError(q)
    BY <2>2, NextEventCalm, EventAwaitedCalm, BatchFlushedCalm
       DEF NextEvent, EventAwaited, BatchFlushed
  <2> QED BY <2>1, <2>2
<1>2. Steady /\ Alone(q) /\ \A c \in AllCommands : Fresh(c) => command'[c].status = "new"
  BY <1>1 DEF Calm, Quiet, Steady, Fresh, Done
<1>3. /\ pc[q] \in {"events", "awaited", "signal", "flushBatch"}
      /\ pc'[q] \in {"events", "flushBatch", "dequeue", "await"}
  <2>1. CASE SignalError(q)
    <3>1. "dequeue" \in Labels BY DEF Labels
    <3> QED BY <2>1, <3>1, SignalFacts DEF SignalError
  <2>2. CASE ~SignalError(q) BY <2>2, GotoFacts DEF NextEvent, EventAwaited, BatchFlushed, Typed, Labels
  <2> QED BY <2>1, <2>2
<1> QED BY <1>1, <1>2, <1>3 DEF Works, Appending

(* Every step of a client, or of a call that somebody made. *)
LEMMA InCallFinish ==
  ASSUME InvOrder, InvFinish, NEW p \in Threads, InCall(p)
  PROVE  InvFinish'
<1> Typed /\ HandOf(p) BY DEF InvOrder, HandInv
<1>1. CASE AppendCommand(p) \/ SwapLast(p) \/ Flush(p) BY <1>1, AppendFinish, SwapLastFinish, FlushFinish
<1>2. CASE NotifyCmdQueue(p) /\ Sends(p) BY <1>2, MarkerFinish
<1>3. CASE DropLast(p)
  <2>1. /\ pc[p] = "dropLast" /\ Goto(p, "flush") /\ UNCHANGED queue
        /\ my' = [my EXCEPT ![p].prev = None]
    BY <1>3 DEF DropLast
  <2>2. "flush" \in Labels /\ Calm(p) BY <1>3, DropLastCalm DEF Labels
  <2> QED BY <2>1, <2>2, CallFinish
<1>4. CASE FindDone(p) \/ Sleep(p) \/ (NotifyCmdQueue(p) /\ ~Sends(p))
  <2>1. PICK label \in {"awaited", "waiting", "sleep"} :
          /\ pc[p] \in {"await", "sleep"} /\ Goto(p, label) /\ UNCHANGED <<my, queue>>
    BY <1>4 DEF FindDone, Sleep, NotifyCmdQueue, Sends
  <2>2. label \in Labels /\ Calm(p) BY <1>4, FindDoneCalm, SleepCalm, NotifyCalm DEF Labels, Sends
  <2> QED BY <2>1, <2>2, CallFinish
<1>5. CASE DropMarker(p)
  <2>1. /\ pc[p] = "dropMarker" /\ Goto(p, "sleep") /\ UNCHANGED queue
        /\ my' = [my EXCEPT ![p].cmd = None]
    BY <1>5 DEF DropMarker
  <2>2. "sleep" \in Labels /\ Calm(p) BY <1>5, DropMarkerCalm DEF Labels
  <2> QED BY <2>1, <2>2, CallFinish DEF Appending
<1> QED BY <1>1, <1>2, <1>3, <1>4, <1>5 DEF InCall

(* What the application calls. *)
LEMMA ApplicationFinish ==
  ASSUME InvOrder, InvFinish, ~IsHip \/ OneClientEach, NEW t \in Clients, Call(t)
  PROVE  InvFinish'
<1>1. ASSUME CreateUserEvent(t) PROVE InvFinish' BY <1>1, UserEventFinish
<1>2. ASSUME NEW c \in handles,
             \/ ReleaseHandle(t, c) \/ Await(t, c)
             \/ SetUserEvent(t, c, "complete") \/ SetUserEvent(t, c, "error")
      PROVE  InvFinish'
  BY <1>2, ReturnFinish, AwaitFinish, UserEventFinish
<1>3. ASSUME NEW q \in Streams[t] PROVE q \in Queues BY <1>3, HostQueueAssumption
<1>4. ASSUME NEW q \in Streams[t], NEW W \in SUBSET handles, Create(t, q, W) PROVE InvFinish'
  <2>1. Making(t, "user", q, W) BY <1>4 DEF Create, Making
  <2> QED BY <1>3, <2>1, MakingFinish
<1>5. ASSUME NEW q \in Streams[t], NEW what \in {"finish", "terminate"}, pc[t] = "idle",
             SendMarker(t, what, q), UNCHANGED <<handles, queue, active>>
      PROVE  InvFinish'
  <2>1. Making(t, "finish", q, {}) BY <1>5 DEF SendMarker, Making
  <2> QED BY <1>3, <2>1, MakingFinish
<1>6. ASSUME NEW q \in Streams[t], FinishWithMarker(t, q) PROVE InvFinish'
  BY <1>5, <1>6 DEF FinishWithMarker
<1>7. ASSUME NEW q \in Streams[t], FinishLast(t, q) PROVE InvFinish'
  <2>1. IsHip /\ pc[t] = "idle" /\ UNCHANGED <<command, queue>> BY <1>7 DEF FinishLast
  <2>2. Calm(t) BY <1>3, <1>7, FinishLastCalm
  <2> QED BY <1>7, <2>1, <2>2, BeginFinish
<1>8. ASSUME NEW q \in Streams[t], NEW what \in {"finish", "terminate"},
             NEW label \in {"finished", "stop"}, pc[t] = "idle", IsHip, queue[q].last = None,
             my' = [my EXCEPT ![t] = Begin(t, what, q)], Goto(t, label),
             UNCHANGED <<created, command, handles, queue, active>>
      PROVE  InvFinish'
  <2>1. Calm(t) BY <1>3, <1>8, BeginCalm
  <2> QED BY <1>8, <2>1, BeginFinish
<1>9. ASSUME NEW q \in Streams[t], FinishIdle(t, q) PROVE InvFinish' BY <1>8, <1>9 DEF FinishIdle
<1>10. ASSUME NEW q \in Streams[t], Terminate(t, q) PROVE InvFinish'
  <2>1. CASE ~IsHip \/ queue[q].last # None BY <1>5, <1>10, <2>1 DEF Terminate
  <2>2. CASE ~(~IsHip \/ queue[q].last # None)
    <3>1. /\ pc[t] = "idle" /\ my' = [my EXCEPT ![t] = Begin(t, "terminate", q)]
          /\ Goto(t, "stop") /\ UNCHANGED <<created, command, handles, queue, active>>
      BY <1>10, <2>2 DEF Terminate
    <3> QED BY <1>8, <2>2, <3>1
  <2> QED BY <2>1, <2>2
<1> QED BY <1>1, <1>2, <1>4, <1>6, <1>7, <1>9, <1>10 DEF Call

(* Initially nobody finishes anything. *)
LEMMA InitFinish == Init => InvFinish
<1> SUFFICES ASSUME Init PROVE InvFinish OBVIOUS
<1>1. \A t \in Clients : pc[t] = "idle" /\ my[t].op = "none" /\ my[t].due = {} BY CommandFacts DEF Init
<1>2. \A c \in AllCommands : Fresh(c) BY DEF Init, Fresh
<1>3. \A t \in Clients : DueOf(t) BY <1>1 DEF DueOf, Appending
<1> QED BY <1>2, <1>3 DEF InvFinish, LastInv

(* Every step keeps what finish() and terminate() wait for. *)
LEMMA StepFinish ==
  ASSUME ~IsHip \/ OneClientEach
  PROVE  InvOrder /\ InvFinish /\ [Next]_vars => InvFinish'
<1> SUFFICES ASSUME InvOrder, InvFinish, [Next]_vars PROVE InvFinish' OBVIOUS
<1>1. CASE UNCHANGED vars
  BY <1>1 DEF vars, InvFinish, DueOf, LastInv, UpTo, Swapping, Fresh, Done, OneClientEach
<1>2. ASSUME NEW t \in Clients, Call(t) \/ ClientStep(t) PROVE InvFinish'
  <2>1. ClientStep(t) => InvFinish' BY AwaitFinish, ReturnFinish, AwaitedFinish DEF ClientStep
  <2> QED BY <1>2, <2>1, ApplicationFinish
<1>3. ASSUME NEW q \in Queues, Worker(q) PROVE InvFinish'
  <2>1. CASE FindNothing(q)
    <3>1. Calm(q) /\ UNCHANGED queue BY <2>1, FindNothingCalm DEF FindNothing
    <3>2. Steady /\ Alone(q) /\ \A c \in AllCommands : Fresh(c) => command'[c].status = "new"
      BY <3>1 DEF Calm, Quiet, Steady, Fresh, Done
    <3> QED BY <3>1, <3>2, WorkerFinish
  <2>2. CASE ~FindNothing(q)
    <3>1. Works(q) BY <1>3, <2>2, LoudWorks, CalmWorks DEF Worker
    <3> QED BY <3>1, WorkerFinish DEF Works
  <2> QED BY <2>1, <2>2
<1>4. CASE Next BY <1>2, <1>3, <1>4, InCallFinish, CommandFacts DEF Next
<1> QED BY <1>1, <1>4

(* "Finish all queued commands": when finish() or terminate() ends, every
   command whose enqueue() had returned before it began is done.  With HIP,
   which awaits the last command itself, for clients with streams of their
   own. *)
THEOREM FinishCompletes ==
  ASSUME ~IsHip \/ OneClientEach
  PROVE  Spec => []FinishMeansDone
<1>1. Init => InvFinish BY InitFinish
<1>2. InvOrder /\ InvFinish /\ [Next]_vars => InvFinish' BY StepFinish
<1>3. InvFinish => FinishMeansDone BY DEF InvFinish, DueOf, FinishMeansDone
<1> QED BY <1>1, <1>2, <1>3, QueuesKeepOrder, PTL DEF Spec

----------------------------------------
(* A worker that found its queue empty is told of what is appended; a queue
   with a last command is active. *)
InvActive ==
  /\ \A p \in Threads : pc[p] = "join" => ~queue[my[p].on].accepting
  /\ ActiveWhenPending /\ NoMissedCommand

(* A thread that has a command in its hands after append() keeps it while
   another one takes a step. *)
LEMMA HolderKept ==
  ASSUME InvOrder, Steady, NEW p \in Threads, Alone(p), NEW u \in Threads, u # p,
         pc[u] \in {"swapLast", "dropLast", "flush"}
  PROVE  pc'[u] = pc[u] /\ my'[u] = my[u] /\ command'[my[u].cmd].queue = command[my[u].cmd].queue
<1>1. pc'[u] = pc[u] /\ my'[u] = my[u] BY DEF Alone
<1>2. my[u].cmd \in AllCommands /\ ~Fresh(my[u].cmd)
  BY DEF InvOrder, HandInv, HandOf, InEnqueue, Appending
<1> QED BY <1>1, <1>2 DEF Steady

(* Who waits for the worker of a queue that stopped. *)
LEMMA JoinKept ==
  ASSUME InvOrder, InvActive, NEW p \in Threads, Alone(p),
         \A q \in Queues : queue'[q].accepting => queue[q].accepting,
         pc'[p] = "join" => ~queue'[my'[p].on].accepting
  PROVE  \A u \in Threads : pc'[u] = "join" => ~queue'[my'[u].on].accepting
<1> SUFFICES ASSUME NEW u \in Threads, u # p, pc'[u] = "join"
             PROVE  ~queue'[my'[u].on].accepting
  OBVIOUS
<1>1. pc[u] = "join" /\ my'[u] = my[u] BY DEF Alone
<1>2. my[u].on \in Queues BY <1>1 DEF InvOrder, HandInv, HandOf
<1> QED BY <1>1, <1>2 DEF InvActive

(* The active queues, in a step that is not about them. *)
LEMMA ActiveKept ==
  ASSUME InvOrder, InvActive, Steady, NEW p \in Threads, Alone(p), pc[p] # "dropLast",
         \A q \in Queues : /\ queue'[q].accepting => queue[q].accepting
                           /\ queue'[q].last # None /\ queue'[q].accepting =>
                                queue[q].last # None /\ (q \in active => q \in active')
  PROVE  ActiveWhenPending'
<1> SUFFICES ASSUME NEW q \in Queues, queue'[q].last # None, queue'[q].accepting, q \notin active'
             PROVE  \E u \in Threads : /\ pc'[u] = "dropLast" /\ my'[u].prev = None
                                       /\ command'[my'[u].cmd].queue = q
  BY DEF ActiveWhenPending
<1>1. PICK u \in Threads : pc[u] = "dropLast" /\ my[u].prev = None /\ command[my[u].cmd].queue = q
  BY DEF InvActive, ActiveWhenPending
<1> QED BY <1>1, HolderKept

(* The sleeping workers, in a step that wakes nobody but its own. *)
LEMMA WakeKept ==
  ASSUME InvOrder, InvActive, Steady, NEW p \in Threads, Alone(p),
         pc'[p] = "asleep" => p \in Queues /\ queue'[p].fifo = <<>>,
         \A q \in Queues : queue'[q].fifo # <<>> => queue[q].fifo # <<>>,
         \/ pc[p] \notin {"swapLast", "dropLast", "flush"}
         \/ /\ pc'[p] \in {"swapLast", "dropLast", "flush"} /\ my'[p].cmd = my[p].cmd
            /\ UNCHANGED command
  PROVE  NoMissedCommand'
<1> SUFFICES ASSUME NEW q \in Queues, pc'[q] = "asleep", queue'[q].fifo # <<>>
             PROVE  \E u \in Threads : /\ pc'[u] \in {"swapLast", "dropLast", "flush"}
                                       /\ command'[my'[u].cmd].queue = q
  BY DEF NoMissedCommand
<1>1. q \in Threads /\ q # p BY CommandFacts
<1>2. pc[q] = "asleep" /\ queue[q].fifo # <<>> BY <1>1 DEF Alone
<1>3. PICK u \in Threads : pc[u] \in {"swapLast", "dropLast", "flush"} /\ command[my[u].cmd].queue = q
  BY <1>2 DEF InvActive, NoMissedCommand
<1>4. CASE u = p BY <1>3, <1>4
<1>5. CASE u # p BY <1>3, <1>5, HolderKept
<1> QED BY <1>4, <1>5

(* A step that appends nothing, makes nothing active and notifies nobody. *)
Plain(p) ==
  /\ Steady /\ Alone(p) /\ UNCHANGED active
  /\ \A q \in Queues : /\ queue'[q].last = queue[q].last
                       /\ queue'[q].accepting = queue[q].accepting
                       /\ queue'[q].fifo = queue[q].fifo \/ queue[q].fifo # <<>>
  /\ pc[p] \notin {"swapLast", "dropLast", "flush"} /\ pc'[p] \notin {"asleep", "join"}

(* Such a step is no concern of the active queues and the workers. *)
LEMMA PlainActive ==
  ASSUME InvOrder, InvActive, NEW p \in Threads, Plain(p)
  PROVE  InvActive'
<1>1. /\ Steady /\ Alone(p) /\ UNCHANGED active
      /\ \A q \in Queues : /\ queue'[q].last = queue[q].last
                           /\ queue'[q].accepting = queue[q].accepting
                           /\ queue'[q].fifo # <<>> => queue[q].fifo # <<>>
      /\ pc[p] \notin {"swapLast", "dropLast", "flush"} /\ pc'[p] \notin {"asleep", "join"}
  BY DEF Plain
<1>2. ActiveWhenPending' BY <1>1, ActiveKept
<1>3. NoMissedCommand' BY <1>1, WakeKept
<1>4. \A u \in Threads : pc'[u] = "join" => ~queue'[my'[u].on].accepting BY <1>1, JoinKept
<1> QED BY <1>2, <1>3, <1>4 DEF InvActive

(* A new last command: the queue is active, or was without a last command
   and is about to be made active. *)
LEMMA SwapLastActive ==
  ASSUME InvOrder, InvActive, NEW p \in Threads, SwapLast(p)
  PROVE  InvActive'
<1> Typed /\ HandOf(p) BY DEF InvOrder, HandInv
<1> DEFINE c == my[p].cmd
           q == command[c].queue
<1>1. /\ pc[p] = "swapLast" /\ my' = [my EXCEPT ![p].prev = queue[q].last]
      /\ queue' = [queue EXCEPT ![q].last = c] /\ Goto(p, "dropLast")
      /\ UNCHANGED <<created, command, handles, active>>
  BY DEF SwapLast
<1>2. c \in AllCommands /\ q \in Queues BY <1>1 DEF HandOf, InEnqueue, Appending
<1>3. Calm(p) BY SwapLastCalm
<1>4. Steady /\ Alone(p) BY <1>3 DEF Calm, Quiet, Steady, Fresh, Done
<1>5. pc'[p] = "dropLast" BY <1>1, GotoFacts DEF Typed, Labels
<1>6. my'[p].cmd = c /\ my'[p].prev = queue[q].last BY <1>1 DEF Typed, Locals
<1>7. \A x \in Queues : /\ x # q => queue'[x] = queue[x]
                        /\ queue'[x].fifo = queue[x].fifo
                        /\ queue'[x].accepting = queue[x].accepting
  <2>1. queue' = [queue EXCEPT ![q].last = c] /\ c \in AllCommands \cup {None} BY <1>1, <1>2
  <2> HIDE DEF c, q
  <2> QED BY <1>2, <2>1, WithLast
<1>8. NoMissedCommand' BY <1>1, <1>4, <1>5, <1>6, <1>7, WakeKept
<1>9. \A u \in Threads : pc'[u] = "join" => ~queue'[my'[u].on].accepting BY <1>4, <1>5, <1>7, JoinKept
<1>10. ActiveWhenPending'
  <2> SUFFICES ASSUME NEW x \in Queues, queue'[x].last # None, queue'[x].accepting, x \notin active
               PROVE  \E u \in Threads : /\ pc'[u] = "dropLast" /\ my'[u].prev = None
                                         /\ command'[my'[u].cmd].queue = x
    BY <1>1 DEF ActiveWhenPending
  <2>1. CASE x = q /\ queue[q].last = None BY <1>1, <1>5, <1>6, <2>1
  <2>2. CASE ~(x = q /\ queue[q].last = None)
    <3>1. queue[x].last # None /\ queue[x].accepting BY <1>7, <2>2
    <3>2. PICK u \in Threads : pc[u] = "dropLast" /\ my[u].prev = None /\ command[my[u].cmd].queue = x
      BY <3>1 DEF InvActive, ActiveWhenPending
    <3>3. u # p BY <1>1, <3>2
    <3> QED BY <1>4, <3>2, <3>3, HolderKept
  <2> QED BY <2>1, <2>2
<1> QED BY <1>8, <1>9, <1>10 DEF InvActive

(* The queue that was without a last command is made active. *)
LEMMA DropLastActive ==
  ASSUME InvOrder, InvActive, NEW p \in Threads, DropLast(p)
  PROVE  InvActive'
<1> Typed /\ HandOf(p) BY DEF InvOrder, HandInv
<1>1. /\ pc[p] = "dropLast" /\ my' = [my EXCEPT ![p].prev = None] /\ Goto(p, "flush")
      /\ UNCHANGED <<created, command, handles, queue>>
      /\ IF my[p].prev # None THEN UNCHANGED active
         ELSE active' = active \cup {command[my[p].cmd].queue}
  BY DEF DropLast
<1>2. Calm(p) BY DropLastCalm
<1>3. Steady /\ Alone(p) BY <1>2 DEF Calm, Quiet, Steady, Fresh, Done
<1>4. pc'[p] = "flush" BY <1>1, GotoFacts DEF Typed, Labels
<1>5. my'[p].cmd = my[p].cmd BY <1>1 DEF Typed, Locals
<1>6. NoMissedCommand' BY <1>1, <1>3, <1>4, <1>5, WakeKept
<1>7. \A u \in Threads : pc'[u] = "join" => ~queue'[my'[u].on].accepting BY <1>1, <1>3, <1>4, JoinKept
<1>8. ActiveWhenPending'
  <2> SUFFICES ASSUME NEW x \in Queues, queue'[x].last # None, queue'[x].accepting, x \notin active'
               PROVE  \E u \in Threads : /\ pc'[u] = "dropLast" /\ my'[u].prev = None
                                         /\ command'[my'[u].cmd].queue = x
    BY DEF ActiveWhenPending
  <2>1. queue[x].last # None /\ queue[x].accepting /\ x \notin active BY <1>1
  <2>2. PICK u \in Threads : pc[u] = "dropLast" /\ my[u].prev = None /\ command[my[u].cmd].queue = x
    BY <2>1 DEF InvActive, ActiveWhenPending
  <2>3. u # p BY <1>1, <2>2
  <2> QED BY <1>3, <2>2, <2>3, HolderKept
<1> QED BY <1>6, <1>7, <1>8 DEF InvActive

(* flush(): the worker of the queue does not sleep. *)
LEMMA FlushActive ==
  ASSUME InvOrder, InvActive, NEW p \in Threads, Flush(p)
  PROVE  InvActive'
<1> Typed /\ HandOf(p) BY DEF InvOrder, HandInv
<1> DEFINE q == command[my[p].cmd].queue
<1>1. /\ pc[p] = "flush" /\ q \in Queues /\ UNCHANGED <<created, command, queue, active>>
      /\ \E label \in {"idle", "dropMarker", "await"} : Notify(q, p, label)
  BY DEF Flush, HandOf, InEnqueue, Appending
<1>2. Calm(p) BY FlushCalm
<1>3. Steady /\ Alone(p) BY <1>2 DEF Calm, Quiet, Steady, Fresh, Done
<1>4. pc'[p] \in {"idle", "dropMarker", "await"} /\ pc'[q] # "asleep"
  <2> HIDE DEF q
  <2>1. PICK label \in {"idle", "dropMarker", "await"} : Notify(q, p, label) BY <1>1
  <2>2. label \in Labels \ {"asleep"} BY DEF Labels
  <2> QED BY <1>1, <2>1, <2>2, NotifyFacts DEF Typed
<1>5. ActiveWhenPending' BY <1>1, <1>3, ActiveKept
<1>6. \A u \in Threads : pc'[u] = "join" => ~queue'[my'[u].on].accepting BY <1>1, <1>3, <1>4, JoinKept
<1>7. NoMissedCommand'
  <2> SUFFICES ASSUME NEW x \in Queues, pc'[x] = "asleep", queue'[x].fifo # <<>>
               PROVE  \E u \in Threads : /\ pc'[u] \in {"swapLast", "dropLast", "flush"}
                                         /\ command'[my'[u].cmd].queue = x
    BY DEF NoMissedCommand
  <2>1. x \in Threads /\ x # p /\ x # q BY <1>4, CommandFacts
  <2>2. pc[x] = "asleep" /\ queue[x].fifo # <<>> BY <1>1, <1>3, <2>1 DEF Alone
  <2>3. PICK u \in Threads : pc[u] \in {"swapLast", "dropLast", "flush"} /\ command[my[u].cmd].queue = x
    BY <2>2 DEF InvActive, NoMissedCommand
  <2>4. u # p BY <2>1, <2>3
  <2> QED BY <1>3, <2>3, <2>4, HolderKept
<1> QED BY <1>5, <1>6, <1>7 DEF InvActive

(* append(): the worker is about to be notified. *)
LEMMA AppendActive ==
  ASSUME InvOrder, InvActive, NEW p \in Threads, AppendCommand(p)
  PROVE  InvActive'
<1>1. PICK c, q : c = my[p].cmd /\ q = command[c].queue /\ Appends(p, c, q) BY AppendFacts
<1>2. /\ c \in AllCommands /\ q \in Queues /\ pc[p] = "append"
      /\ command' = [command EXCEPT ![c].status = "queued"]
      /\ \A x \in Queues : /\ x # q => queue'[x] = queue[x]
                           /\ queue'[x].last = queue[x].last
                           /\ queue'[x].accepting = queue[x].accepting
      /\ pc'[p] \in {"swapLast", "dropLast", "flush"} /\ UNCHANGED <<active, my>>
      /\ Steady /\ Alone(p)
  BY <1>1 DEF Appends
<1>3. command'[c].queue = q BY <1>1, <1>2, WithStatus DEF InvOrder
<1>4. ActiveWhenPending' BY <1>2, ActiveKept
<1>5. \A u \in Threads : pc'[u] = "join" => ~queue'[my'[u].on].accepting BY <1>2, JoinKept
<1>6. NoMissedCommand'
  <2> SUFFICES ASSUME NEW x \in Queues, pc'[x] = "asleep", queue'[x].fifo # <<>>
               PROVE  \E u \in Threads : /\ pc'[u] \in {"swapLast", "dropLast", "flush"}
                                         /\ command'[my'[u].cmd].queue = x
    BY DEF NoMissedCommand
  <2>1. CASE x = q BY <1>1, <1>2, <1>3, <2>1
  <2>2. CASE x # q
    <3>1. x \in Threads /\ x # p BY <1>2, CommandFacts
    <3>2. pc[x] = "asleep" /\ queue[x].fifo # <<>> BY <1>2, <2>2, <3>1 DEF Alone
    <3>3. PICK u \in Threads : pc[u] \in {"swapLast", "dropLast", "flush"} /\ command[my[u].cmd].queue = x
      BY <3>2 DEF InvActive, NoMissedCommand
    <3>4. u # p BY <1>2, <3>3
    <3> QED BY <1>2, <3>3, <3>4, HolderKept
  <2> QED BY <2>1, <2>2
<1> QED BY <1>4, <1>5, <1>6 DEF InvActive

(* finish() clears the last command with the active queue; terminate() stops
   the queue and takes it away. *)
LEMMA EndActive ==
  ASSUME InvOrder, InvActive, NEW t \in Clients, ClearLast(t) \/ Stop(t) \/ Join(t)
  PROVE  InvActive'
<1> t \in Threads BY CommandFacts
<1> Typed /\ HandOf(t) BY DEF InvOrder, HandInv
<1> DEFINE q == my[t].on
<1>1. pc[t] \in {"awaited", "stop", "join"} /\ UNCHANGED command /\ Calm(t)
  BY ClearLastCalm, StopCalm, JoinCalm DEF ClearLast, Stop, Join
<1>2. Steady /\ Alone(t) BY <1>1 DEF Calm, Quiet, Steady, Fresh, Done
<1>3. q \in Queues
  <2>1. my[t].op \in {"finish", "terminate"} BY DEF HandOf, ClearLast, Stop, Join
  <2> QED BY <2>1 DEF HandOf
<1>4. CASE ClearLast(t)
  <2>1. /\ Goto(t, "finished")
        /\ \/ queue' = [queue EXCEPT ![q].last = None] /\ active' = active \ {q}
           \/ UNCHANGED <<queue, active>>
    BY <1>4 DEF ClearLast
  <2>2. pc'[t] = "finished" BY <2>1, GotoFacts DEF Typed, Labels
  <2> HIDE DEF q
  <2>3. \A x \in Queues : /\ queue'[x].fifo = queue[x].fifo
                          /\ queue'[x].accepting = queue[x].accepting
                          /\ queue'[x].last # None =>
                               queue[x].last # None /\ (x \in active => x \in active')
    <3>1. CASE queue' = [queue EXCEPT ![q].last = None] /\ active' = active \ {q}
      <4>1. /\ queue'[q].last = None
            /\ \A x \in Queues : /\ x # q => queue'[x] = queue[x]
                                 /\ queue'[x].fifo = queue[x].fifo
                                 /\ queue'[x].accepting = queue[x].accepting
        BY <1>3, <3>1, WithLast
      <4> QED BY <3>1, <4>1
    <3>2. CASE UNCHANGED <<queue, active>> BY <3>2
    <3> QED BY <2>1, <3>1, <3>2
  <2>4. ActiveWhenPending' BY <1>1, <1>2, <2>3, ActiveKept
  <2>5. NoMissedCommand' BY <1>1, <1>2, <2>2, <2>3, WakeKept
  <2>6. \A u \in Threads : pc'[u] = "join" => ~queue'[my'[u].on].accepting BY <1>2, <2>2, <2>3, JoinKept
  <2> QED BY <2>4, <2>5, <2>6 DEF InvActive
<1>5. CASE Stop(t)
  <2>1. /\ queue' = [queue EXCEPT ![q].accepting = FALSE] /\ Notify(q, t, "join")
        /\ UNCHANGED <<active, my>>
    BY <1>5 DEF Stop
  <2> HIDE DEF q
  <2>2. /\ ~queue'[q].accepting
        /\ \A x \in Queues : /\ x # q => queue'[x] = queue[x]
                             /\ queue'[x].fifo = queue[x].fifo
                             /\ queue'[x].last = queue[x].last
    BY <1>3, <2>1, WithAccepting
  <2>3. pc'[t] = "join"
    <3>1. "join" \in Labels \ {"asleep"} BY DEF Labels
    <3> QED BY <1>3, <2>1, <3>1, NotifyFacts DEF Typed
  <2>4. \A x \in Queues : queue'[x].accepting => queue[x].accepting BY <2>2
  <2>5. ActiveWhenPending' BY <1>1, <1>2, <2>1, <2>2, <2>4, ActiveKept
  <2>6. NoMissedCommand' BY <1>1, <1>2, <2>2, <2>3, WakeKept
  <2>7. ~queue'[my'[t].on].accepting BY <2>1, <2>2 DEF q
  <2>8. \A u \in Threads : pc'[u] = "join" => ~queue'[my'[u].on].accepting BY <1>2, <2>4, <2>7, JoinKept
  <2> QED BY <2>5, <2>6, <2>8 DEF InvActive
<1>6. CASE Join(t)
  <2>1. /\ active' = active \ {q} /\ pc[t] = "join" /\ Goto(t, "finished") /\ UNCHANGED queue
    BY <1>6 DEF Join
  <2>2. ~queue[q].accepting BY <2>1 DEF InvActive
  <2>3. pc'[t] = "finished" BY <2>1, GotoFacts DEF Typed, Labels
  <2>4. ActiveWhenPending' BY <1>1, <1>2, <2>1, <2>2, ActiveKept
  <2>5. NoMissedCommand' BY <1>1, <1>2, <2>1, <2>3, WakeKept
  <2>6. \A u \in Threads : pc'[u] = "join" => ~queue'[my'[u].on].accepting BY <1>2, <2>1, <2>3, JoinKept
  <2> QED BY <2>4, <2>5, <2>6 DEF InvActive
<1> QED BY <1>4, <1>5, <1>6

(* A worker goes to sleep beside an empty queue. *)
LEMMA FindNothingActive ==
  ASSUME InvOrder, InvActive, NEW q \in Queues, FindNothing(q)
  PROVE  InvActive'
<1> q \in Threads BY CommandFacts
<1> Typed BY DEF InvOrder
<1>1. /\ pc[q] \in {"dequeue", "recheck"} /\ queue[q].fifo = <<>> /\ UNCHANGED <<queue, active>>
      /\ \E label \in {"recheck", "asleep", "exited"} : Goto(q, label)
  BY DEF FindNothing
<1>2. pc'[q] \in {"recheck", "asleep", "exited"} BY <1>1, GotoFacts DEF Typed, Labels
<1>3. Calm(q) BY FindNothingCalm
<1>4. Steady /\ Alone(q) BY <1>3 DEF Calm, Quiet, Steady, Fresh, Done
<1>5. ActiveWhenPending' BY <1>1, <1>4, ActiveKept
<1>6. NoMissedCommand' BY <1>1, <1>4, WakeKept
<1>7. \A u \in Threads : pc'[u] = "join" => ~queue'[my'[u].on].accepting BY <1>1, <1>2, <1>4, JoinKept
<1> QED BY <1>5, <1>6, <1>7 DEF InvActive

(* The steps of calls, and of what the application calls. *)
LEMMA CallPlain ==
  ASSUME InvOrder, NEW p \in Threads,
         FindDone(p) \/ NotifyCmdQueue(p) \/ DropMarker(p) \/ Sleep(p)
  PROVE  Plain(p)
<1> Typed BY DEF InvOrder
<1>1. /\ pc[p] \in {"await", "sleep", "dropMarker"} /\ UNCHANGED <<queue, active>>
      /\ \E label \in {"awaited", "append", "sleep", "waiting"} : Goto(p, label)
  BY DEF FindDone, NotifyCmdQueue, DropMarker, Sleep
<1>2. pc'[p] \in {"awaited", "append", "sleep", "waiting"} BY <1>1, GotoFacts DEF Typed, Labels
<1>3. Steady /\ Alone(p)
  <2>1. CASE NotifyCmdQueue(p) /\ Sends(p) BY <2>1, MarkerFacts DEF MakesMarker
  <2>2. CASE ~(NotifyCmdQueue(p) /\ Sends(p))
    <3>1. Calm(p) BY <2>2, FindDoneCalm, NotifyCalm, DropMarkerCalm, SleepCalm DEF Sends
    <3> QED BY <3>1 DEF Calm, Quiet, Steady, Fresh, Done
  <2> QED BY <2>1, <2>2
<1> QED BY <1>1, <1>2, <1>3 DEF Plain

(* The client steps that leave the active queues alone. *)
LEMMA ClientPlain ==
  ASSUME InvOrder, NEW t \in Clients,
         AwaitReturns(t) \/ SignalUserEvent(t) \/ FinishReturns(t) \/ DropFinalMarker(t)
  PROVE  Plain(t)
<1> t \in Threads BY CommandFacts
<1> Typed BY DEF InvOrder
<1>1. UNCHANGED <<queue, active>> /\ pc[t] \in {"awaited", "signal", "finished"}
  BY DEF AwaitReturns, SignalUserEvent, Signal, FinishReturns, DropFinalMarker
<1>2. pc'[t] \in {"idle", "stop"}
  <2>1. CASE SignalUserEvent(t)
    <3>1. "idle" \in Labels BY DEF Labels
    <3> QED BY <2>1, <3>1, SignalFacts DEF SignalUserEvent
  <2>2. CASE ~SignalUserEvent(t)
    BY <2>2, GotoFacts DEF AwaitReturns, FinishReturns, DropFinalMarker, Typed, Labels
  <2> QED BY <2>1, <2>2
<1>3. Calm(t)
  BY AwaitReturnsCalm, SignalCalm, FinishReturnsCalm, DropFinalMarkerCalm, CommandFacts
     DEF SignalUserEvent
<1>4. Steady /\ Alone(t) BY <1>3 DEF Calm, Quiet, Steady, Fresh, Done
<1> QED BY <1>1, <1>2, <1>4 DEF Plain

(* Every call of the application. *)
LEMMA ApplicationPlain ==
  ASSUME InvOrder, NEW t \in Clients, Call(t)
  PROVE  Plain(t)
<1> t \in Threads BY CommandFacts
<1> Typed BY DEF InvOrder
<1>1. ASSUME Steady, Alone(t), pc[t] = "idle", pc'[t] \notin {"asleep", "join"},
             UNCHANGED <<queue, active>>
      PROVE  Plain(t)
  BY <1>1 DEF Plain
<1>2. ASSUME Calm(t), pc[t] = "idle", pc'[t] \notin {"asleep", "join"}, UNCHANGED <<queue, active>>
      PROVE  Plain(t)
  BY <1>1, <1>2 DEF Calm, Quiet, Steady, Fresh, Done
<1>3. ASSUME CreateUserEvent(t) PROVE Plain(t)
  <2>1. Steady /\ UNCHANGED <<pc, my, queue, active>> /\ pc[t] = "idle"
    BY <1>3, CreateSteady DEF CreateUserEvent
  <2> QED BY <1>1, <2>1 DEF Alone
<1>4. ASSUME NEW c \in handles, ReleaseHandle(t, c) \/ Await(t, c) PROVE Plain(t)
  <2>1. Calm(t) BY <1>4, ReleaseHandleCalm, AwaitCalm
  <2>2. pc[t] = "idle" /\ UNCHANGED <<queue, active>> BY <1>4 DEF ReleaseHandle, Await
  <2>3. pc'[t] \in {"idle", "await"} BY <1>4, <2>2, GotoFacts DEF ReleaseHandle, Await, Typed, Labels
  <2> QED BY <1>2, <2>1, <2>2, <2>3
<1>5. ASSUME NEW e \in handles, NEW outcome \in {"complete", "error"}, SetUserEvent(t, e, outcome)
      PROVE  Plain(t)
  <2>1. /\ Settle(t, e, outcome) /\ ~Done(e) /\ UNCHANGED <<created, handles, queue, active>>
        /\ pc[t] = "idle"
    BY <1>5 DEF SetUserEvent
  <2>2. e \in AllCommands /\ ~Fresh(e) BY CommandFacts DEF InvOrder, Typed, CommandInv
  <2>3. Steady /\ pc'[t] = "signal" /\ \A u \in Threads \ {t} : pc'[u] = pc[u] /\ my'[u] = my[u]
    BY <2>1, <2>2, SettleFacts
  <2> QED BY <1>1, <2>1, <2>3 DEF Alone
<1>6. ASSUME NEW q \in Streams[t] PROVE q \in Queues BY <1>6, HostQueueAssumption
<1>7. ASSUME NEW kind \in {"user", "finish"}, NEW q \in Queues, NEW W \in SUBSET handles,
             Making(t, kind, q, W)
      PROVE  Plain(t)
  BY <1>1, <1>7, MakingFacts DEF Making, MakesCommand
<1>8. ASSUME NEW q \in Streams[t], NEW W \in SUBSET handles, Create(t, q, W) PROVE Plain(t)
  <2>1. Making(t, "user", q, W) BY <1>8 DEF Create, Making
  <2> QED BY <1>6, <1>7, <2>1
<1>9. ASSUME NEW q \in Streams[t], NEW what \in {"finish", "terminate"}, pc[t] = "idle",
             SendMarker(t, what, q), UNCHANGED <<handles, queue, active>>
      PROVE  Plain(t)
  <2>1. Making(t, "finish", q, {}) BY <1>9 DEF SendMarker, Making
  <2> QED BY <1>6, <1>7, <2>1
<1>10. ASSUME NEW q \in Streams[t], FinishWithMarker(t, q) PROVE Plain(t)
  BY <1>9, <1>10 DEF FinishWithMarker
<1>11. ASSUME NEW q \in Streams[t], FinishLast(t, q) PROVE Plain(t)
  <2>1. pc[t] = "idle" /\ UNCHANGED <<queue, active>> /\ Goto(t, "await") BY <1>11 DEF FinishLast
  <2>2. Calm(t) /\ pc'[t] = "await" BY <1>6, <1>11, <2>1, FinishLastCalm, GotoFacts DEF Typed, Labels
  <2> QED BY <1>2, <2>1, <2>2
<1>12. ASSUME NEW q \in Streams[t], NEW what \in {"finish", "terminate"},
              NEW label \in {"finished", "stop"}, pc[t] = "idle",
              my' = [my EXCEPT ![t] = Begin(t, what, q)], Goto(t, label),
              UNCHANGED <<created, command, handles, queue, active>>
       PROVE  Plain(t)
  <2>1. Calm(t) BY <1>6, <1>12, BeginCalm
  <2>2. pc'[t] = label BY <1>12, GotoFacts DEF Typed, Labels
  <2> QED BY <1>2, <1>12, <2>1, <2>2
<1>13. ASSUME NEW q \in Streams[t], FinishIdle(t, q) PROVE Plain(t) BY <1>12, <1>13 DEF FinishIdle
<1>14. ASSUME NEW q \in Streams[t], Terminate(t, q) PROVE Plain(t)
  <2>1. CASE ~IsHip \/ queue[q].last # None BY <1>9, <1>14, <2>1 DEF Terminate
  <2>2. CASE ~(~IsHip \/ queue[q].last # None)
    <3>1. /\ pc[t] = "idle" /\ my' = [my EXCEPT ![t] = Begin(t, "terminate", q)]
          /\ Goto(t, "stop") /\ UNCHANGED <<created, command, handles, queue, active>>
      BY <1>14, <2>2 DEF Terminate
    <3> QED BY <1>12, <3>1
  <2> QED BY <2>1, <2>2
<1> QED BY <1>3, <1>4, <1>5, <1>8, <1>10, <1>11, <1>13, <1>14 DEF Call

(* Initially no queue has a last command. *)
LEMMA InitActive == Init => InvActive
BY CommandFacts DEF Init, InvActive, ActiveWhenPending, NoMissedCommand

(* Every step keeps the active queues, and wakes the worker in time. *)
LEMMA StepActive == InvOrder /\ InvActive /\ [Next]_vars => InvActive'
<1> SUFFICES ASSUME InvOrder, InvActive, [Next]_vars PROVE InvActive' OBVIOUS
<1>1. CASE UNCHANGED vars BY <1>1 DEF vars, InvActive, ActiveWhenPending, NoMissedCommand
<1>2. ASSUME NEW p \in Threads, InCall(p) PROVE InvActive'
  <2>1. CASE FindDone(p) \/ NotifyCmdQueue(p) \/ DropMarker(p) \/ Sleep(p) BY <2>1, CallPlain, PlainActive
  <2> QED BY <1>2, <2>1, AppendActive, SwapLastActive, DropLastActive, FlushActive DEF InCall
<1>3. ASSUME NEW t \in Clients, Call(t) \/ ClientStep(t) PROVE InvActive'
  <2>1. t \in Threads BY CommandFacts
  <2>2. CASE ClearLast(t) \/ Stop(t) \/ Join(t) BY <2>2, EndActive
  <2>3. CASE ~(ClearLast(t) \/ Stop(t) \/ Join(t))
    <3>1. Plain(t) BY <1>3, <2>3, ClientPlain, ApplicationPlain DEF ClientStep
    <3> QED BY <2>1, <3>1, PlainActive
  <2> QED BY <2>2, <2>3
<1>4. ASSUME NEW q \in Queues, Worker(q) PROVE InvActive'
  <2>1. CASE FindNothing(q) BY <2>1, FindNothingActive
  <2>2. CASE ~FindNothing(q)
    <3>1. Works(q) BY <1>4, <2>2, LoudWorks, CalmWorks DEF Worker
    <3>2. q \in Threads /\ Plain(q) BY <3>1, CommandFacts DEF Works, Plain, Appending
    <3> QED BY <3>2, PlainActive
  <2> QED BY <2>1, <2>2
<1>5. CASE Next BY <1>2, <1>3, <1>4, <1>5, CommandFacts DEF Next
<1> QED BY <1>1, <1>5

(* "the queues that have at least one submitted command": a queue with a
   last command is in the active set, or about to be added to it. *)
THEOREM PendingIsActive == Spec => []ActiveWhenPending
<1>1. Init => InvActive BY InitActive
<1>2. InvOrder /\ InvActive /\ [Next]_vars => InvActive' BY StepActive
<1>3. InvActive => ActiveWhenPending BY DEF InvActive
<1> QED BY <1>1, <1>2, <1>3, QueuesKeepOrder, PTL DEF Spec

(* The worker sleeps beside a command only when an append() is about to
   notify it. *)
THEOREM WorkerIsWoken == Spec => []NoMissedCommand
<1>1. Init => InvActive BY InitActive
<1>2. InvOrder /\ InvActive /\ [Next]_vars => InvActive' BY StepActive
<1>3. InvActive => NoMissedCommand BY DEF InvActive
<1> QED BY <1>1, <1>2, <1>3, QueuesKeepOrder, PTL DEF Spec
----------------------------------------
(* terminate(): who ends a queue, and how far the queue is shut. *)
Closing(t, q) == my[t].op = "terminate" /\ my[t].on = q
Shut(q) == ~queue[q].accepting \/ \E t \in Clients : Closing(t, q)

(* Where a client is that terminates a queue. *)
StageOf(t) ==
  /\ pc[t] \in {"idle", "signal"} => my[t].op # "terminate"
  /\ pc[t] \in {"stop", "join"} => my[t].op = "terminate"
  /\ pc[t] \in Appending /\ command[my[t].cmd].kind = "user" => my[t].op # "terminate"

(* A thread appends to a queue, or waits for an event of it that is not
   done, which may have it append a marker.  Where queues are dropped early
   only the commands of the application count. *)
Reaches(p, q) ==
  \/ /\ pc[p] \in Appending /\ (EarlyRelease => my[p].cmd \in Commands)
     /\ command[my[p].cmd].queue = q
  \/ /\ ~EarlyRelease
     /\ my[p].event # None /\ command[my[p].event].queue = q /\ ~Done(my[p].event)

(* Nobody but the client that ends a queue reaches it any more. *)
ReachOf(p) ==
  /\ pc[p] \in Appending /\ my[p].cmd \notin Commands =>
       command[my[p].cmd].queue = command[my[p].event].queue
  /\ \A q \in Queues : Shut(q) /\ Reaches(p, q) => p \in Clients /\ Closing(p, q)

(* One client ends a queue, and the worker leaves when it was told to. *)
CloserOf(q) ==
  /\ pc[q] = "exited" => ~queue[q].accepting
  /\ \A t \in Clients : Closing(t, q) =>
       /\ \A u \in Clients : Closing(u, q) => u = t
       /\ queue[q].accepting <=> pc[t] \notin {"join", "finished"}

(* No command that is not done waits for an event of the queue that is not,
   unless queues are dropped early. *)
WaitsOf(c) ==
  /\ command[c].waits # {} => c \in 1..created
  /\ ~EarlyRelease /\ ~Done(c) => \A e \in command[c].waits : \A q \in Queues :
       Shut(q) /\ command[e].queue = q => Done(e)

InvClosed ==
  /\ \A t \in Clients : StageOf(t)
  /\ \A p \in Threads : ReachOf(p)
  /\ \A q \in Queues : CloserOf(q)
  /\ \A c \in AllCommands : WaitsOf(c)

(* A step that shuts no queue that the thread reaches, after which the
   thread reaches no more than before. *)
LEMMA ReachKept ==
  ASSUME InvOrder, InvClosed, Steady, NEW u \in Threads,
         \A q \in Queues : Shut(q)' => Shut(q) \/ ~Reaches(u, q),
         u \in Clients => \A q \in Queues : Closing(u, q) => Closing(u, q)',
         my'[u].event \in {my[u].event, None},
         pc'[u] \in Appending =>
           pc[u] \in Appending /\ my'[u].cmd = my[u].cmd /\ my'[u].event = my[u].event
  PROVE  ReachOf(u)'
<1> Typed /\ HandOf(u) /\ ReachOf(u) BY DEF InvOrder, HandInv, InvClosed
<1>1. my[u].event # None => /\ my[u].event \in AllCommands /\ ~Fresh(my[u].event)
                            /\ command'[my[u].event].queue = command[my[u].event].queue
                            /\ Done(my[u].event) =>
                                 command'[my[u].event].status \in {"complete", "error"}
  <2>1. my[u].event # None => my[u].event \in AllCommands /\ ~Fresh(my[u].event)
    BY Fields, CommandFacts DEF HandOf
  <2> QED BY <2>1 DEF Steady, Done
<1>2. pc[u] \in Appending => command'[my[u].cmd].queue = command[my[u].cmd].queue
  <2>1. pc[u] \in Appending => /\ my[u].cmd \in AllCommands
                               /\ ~Fresh(my[u].cmd) \/ pc[u] = "append"
    BY DEF HandOf, InEnqueue, Appending
  <2> QED BY <2>1 DEF Steady
<1>3. pc'[u] \in Appending /\ my'[u].cmd \notin Commands =>
        command'[my'[u].cmd].queue = command'[my'[u].event].queue
  <2>1. pc[u] \in Appending /\ my[u].cmd \notin Commands => my[u].event # None BY DEF HandOf, InEnqueue
  <2> QED BY <1>1, <1>2, <2>1 DEF ReachOf
<1>4. ASSUME NEW q \in Queues, Shut(q)', Reaches(u, q)'
      PROVE  u \in Clients /\ Closing(u, q)'
  <2>1. Reaches(u, q) BY <1>1, <1>2, <1>4 DEF Reaches, Done
  <2> QED BY <1>4, <2>1 DEF ReachOf
<1> QED BY <1>3, <1>4 DEF ReachOf

(* A thread that took no step. *)
LEMMA OthersStage ==
  ASSUME InvOrder, InvClosed, Steady, NEW p \in Threads, Alone(p), NEW t \in Clients, t # p
  PROVE  StageOf(t)'
<1> t \in Threads BY CommandFacts
<1> HandOf(t) /\ StageOf(t) BY DEF InvOrder, HandInv, InvClosed
<1>1. my'[t] = my[t] /\ (pc'[t] = pc[t] \/ pc'[t] \in {"sleep", "recheck"}) BY DEF Alone
<1>2. pc[t] \in Appending => command'[my[t].cmd].kind = command[my[t].cmd].kind
  <2>1. pc[t] \in Appending => /\ my[t].cmd \in AllCommands
                               /\ ~Fresh(my[t].cmd) \/ pc[t] = "append"
    BY DEF HandOf, InEnqueue, Appending
  <2> QED BY <2>1 DEF Steady
<1> QED BY <1>1, <1>2 DEF StageOf, Appending

(* A step after which no command waits for more than before. *)
LEMMA WaitsKept ==
  ASSUME InvOrder, InvClosed, Steady, Typed', created' >= created, NEW c \in AllCommands,
         command'[c].waits = command[c].waits,
         EarlyRelease \/ \A q \in Queues : Shut(q)' => Shut(q) \/ ~AwaitedBySomebody(q)
  PROVE  WaitsOf(c)'
<1> Typed /\ WaitsOf(c) /\ CommandInv BY DEF InvOrder, InvClosed
<1>1. command[c].waits # {} => c \in 1..created' BY DEF WaitsOf, Typed
<1>2. ASSUME ~EarlyRelease, NEW e \in command[c].waits, NEW q \in Queues, Shut(q)', ~Done(c)',
             command'[e].queue = q
      PROVE  Done(e)'
  <2>1. e \in AllCommands /\ ~Fresh(e) BY Fields, CommandFacts DEF CommandInv
  <2>2. command[e].queue = q /\ (Done(e) => Done(e)') /\ (Done(c) => Done(c)')
    BY <1>2, <2>1 DEF Steady, Done
  <2>3. ~Done(c) /\ (Shut(q) \/ ~AwaitedBySomebody(q)) BY <1>2, <2>2
  <2>4. c \in 1..created BY DEF WaitsOf
  <2>5. AwaitedBySomebody(q) BY <2>2, <2>3, <2>4, Zenon DEF AwaitedBySomebody
  <2> QED BY <1>2, <2>2, <2>3, <2>5 DEF WaitsOf
<1> QED BY <1>1, <1>2 DEF WaitsOf

(* A step that begins and ends no terminate(), and stops no queue. *)
Keeps(p) ==
  /\ Steady /\ Alone(p) /\ Typed'
  /\ \A q \in Queues : queue'[q].accepting = queue[q].accepting
  /\ p \in Clients => /\ my'[p].op = "terminate" <=> my[p].op = "terminate"
                      /\ my[p].op = "terminate" => my'[p].on = my[p].on
                      /\ my[p].op = "terminate" =>
                           (pc'[p] \in {"join", "finished"} <=> pc[p] \in {"join", "finished"})

(* Such a step shuts no queue and opens none. *)
LEMMA KeepsShut ==
  ASSUME NEW p \in Threads, Keeps(p)
  PROVE  /\ \A q \in Queues : Shut(q)' <=> Shut(q)
         /\ \A t \in Clients : \A q : Closing(t, q)' <=> Closing(t, q)
<1>1. \A t \in Clients : \A q : Closing(t, q)' <=> Closing(t, q) BY CommandFacts DEF Keeps, Alone, Closing
<1> QED BY <1>1 DEF Keeps, Shut

(* After such a step nobody else reaches a queue that is being ended. *)
LEMMA CloserKept ==
  ASSUME InvClosed, NEW p \in Threads, Keeps(p), NEW q \in Queues,
         p = q /\ pc'[p] = "exited" => pc[p] = "exited" \/ ~queue[p].accepting
  PROVE  CloserOf(q)'
<1> q \in Threads /\ CloserOf(q) BY CommandFacts DEF InvClosed
<1>1. queue'[q].accepting = queue[q].accepting BY DEF Keeps
<1>2. pc'[q] = "exited" => ~queue'[q].accepting
  <2>1. q # p => (pc'[q] = "exited" => pc[q] = "exited") BY DEF Keeps, Alone
  <2> QED BY <1>1, <2>1 DEF CloserOf
<1>3. ASSUME NEW t \in Clients, Closing(t, q)'
      PROVE  queue'[q].accepting <=> pc'[t] \notin {"join", "finished"}
  <2>1. t \in Threads /\ Closing(t, q) BY <1>3, KeepsShut, CommandFacts
  <2>2. pc'[t] \in {"join", "finished"} <=> pc[t] \in {"join", "finished"}
    BY <2>1 DEF Keeps, Alone, Closing
  <2> QED BY <1>1, <2>1, <2>2 DEF CloserOf
<1>4. \A t, u \in Clients : Closing(t, q)' /\ Closing(u, q)' => u = t BY KeepsShut DEF CloserOf
<1> QED BY <1>2, <1>3, <1>4 DEF CloserOf

(* What such a step has to show of its own thread. *)
LEMMA KeepsClosed ==
  ASSUME InvOrder, InvClosed, NEW p \in Threads, Keeps(p), ReachOf(p)',
         p \in Clients => StageOf(p)',
         p \in Queues /\ pc'[p] = "exited" => pc[p] = "exited" \/ ~queue[p].accepting,
         \A c \in AllCommands : WaitsOf(c)'
  PROVE  InvClosed'
<1>1. Steady /\ Alone(p) /\ Typed' BY DEF Keeps
<1>2. ASSUME NEW u \in Threads, u # p PROVE ReachOf(u)'
  <2>1. my'[u] = my[u] /\ (pc'[u] = pc[u] \/ pc'[u] \in {"sleep", "recheck"}) BY <1>1, <1>2 DEF Alone
  <2>2. pc'[u] \in Appending => pc[u] \in Appending BY <2>1 DEF Appending
  <2> QED BY <1>1, <2>1, <2>2, KeepsShut, ReachKept
<1>3. \A t \in Clients : StageOf(t)' BY <1>1, OthersStage
<1>4. \A q \in Queues : CloserOf(q)' BY CloserKept
<1> QED BY <1>2, <1>3, <1>4 DEF InvClosed

(* The steps that leave the wait lists and what its own thread reaches. *)
LEMMA Narrows ==
  ASSUME InvOrder, InvClosed, NEW p \in Threads, Keeps(p), created' >= created,
         \A c \in AllCommands : command'[c].waits = command[c].waits,
         my'[p].event \in {my[p].event, None},
         pc'[p] \in Appending =>
           pc[p] \in Appending /\ my'[p].cmd = my[p].cmd /\ my'[p].event = my[p].event,
         p \in Clients => StageOf(p)',
         p \in Queues /\ pc'[p] = "exited" => pc[p] = "exited" \/ ~queue[p].accepting
  PROVE  InvClosed'
<1>1. Steady /\ Typed' BY DEF Keeps
<1>2. ReachOf(p)' BY <1>1, KeepsShut, ReachKept
<1>3. \A c \in AllCommands : WaitsOf(c)' BY <1>1, KeepsShut, WaitsKept
<1> QED BY <1>2, <1>3, KeepsClosed

(* A calm step of which its own thread shows where it goes. *)
LEMMA CalmClosed ==
  ASSUME InvOrder, InvClosed, NEW p \in Threads, Calm(p),
         \A q \in Queues : queue'[q].accepting = queue[q].accepting,
         p \in Clients => /\ my'[p].op = "terminate" <=> my[p].op = "terminate"
                          /\ my[p].op = "terminate" => my'[p].on = my[p].on
                          /\ my[p].op = "terminate" =>
                               (pc'[p] \in {"join", "finished"} <=> pc[p] \in {"join", "finished"})
                          /\ StageOf(p)',
         my'[p].event \in {my[p].event, None},
         pc'[p] \in Appending =>
           pc[p] \in Appending /\ my'[p].cmd = my[p].cmd /\ my'[p].event = my[p].event,
         p \in Queues /\ pc'[p] = "exited" => pc[p] = "exited" \/ ~queue[p].accepting
  PROVE  InvClosed'
<1> Typed BY DEF InvOrder
<1>1. Typed' /\ UNCHANGED <<created, command>> /\ Alone(p) BY DEF Calm, Quiet
<1>2. Steady BY <1>1 DEF Steady, Fresh, Done
<1>3. created' >= created BY <1>1 DEF Typed
<1>4. Keeps(p) BY <1>1, <1>2 DEF Keeps
<1> QED BY <1>1, <1>3, <1>4, Narrows

(* append(): the command is appended, and its thread holds it still. *)
LEMMA AppendClosed ==
  ASSUME InvOrder, InvClosed, NEW p \in Threads, AppendCommand(p)
  PROVE  InvClosed'
<1> Typed BY DEF InvOrder
<1>1. PICK c, q : c = my[p].cmd /\ q = command[c].queue /\ Appends(p, c, q) BY AppendFacts
<1>2. /\ c \in AllCommands /\ pc[p] = "append"
      /\ command' = [command EXCEPT ![c].status = "queued"]
      /\ \A x \in Queues : queue'[x].accepting = queue[x].accepting
      /\ pc'[p] \in {"swapLast", "dropLast", "flush"}
      /\ UNCHANGED <<created, my>> /\ Typed' /\ Steady /\ Alone(p)
  BY <1>1 DEF Appends
<1>3. \A d \in AllCommands : /\ command'[d].waits = command[d].waits
                             /\ command'[d].kind = command[d].kind
  BY <1>2, WithStatus
<1>4. Keeps(p) /\ created' >= created BY <1>2 DEF Keeps, Typed
<1>5. p \in Clients => StageOf(p)' BY <1>1, <1>2, <1>3 DEF InvClosed, StageOf, Appending
<1> QED BY <1>2, <1>3, <1>4, <1>5, Narrows DEF Appending

(* The rest of append(). *)
LEMMA LastClosed ==
  ASSUME InvOrder, InvClosed, NEW p \in Threads, SwapLast(p) \/ DropLast(p)
  PROVE  InvClosed'
<1> Typed /\ HandOf(p) BY DEF InvOrder, HandInv
<1>1. Calm(p) BY SwapLastCalm, DropLastCalm
<1>2. /\ pc[p] \in {"swapLast", "dropLast"} /\ UNCHANGED command
      /\ \E label \in {"dropLast", "flush"} : Goto(p, label)
      /\ \E l : my' = [my EXCEPT ![p].prev = l]
  BY DEF SwapLast, DropLast
<1>3. /\ my'[p].op = my[p].op /\ my'[p].on = my[p].on /\ my'[p].cmd = my[p].cmd
      /\ my'[p].event = my[p].event
  BY <1>2 DEF Typed, Locals
<1>4. pc'[p] \in {"dropLast", "flush"} BY <1>2, GotoFacts DEF Typed, Labels
<1>5. \A q \in Queues : queue'[q].accepting = queue[q].accepting
  <2>1. CASE SwapLast(p)
    <3>1. PICK q \in Queues, c \in AllCommands \cup {None} : queue' = [queue EXCEPT ![q].last = c]
      BY <2>1 DEF SwapLast, HandOf, InEnqueue, Appending
    <3> QED BY <3>1, WithLast
  <2>2. CASE DropLast(p) BY <2>2 DEF DropLast
  <2> QED BY <2>1, <2>2
<1>6. p \in Clients => StageOf(p)' BY <1>2, <1>3, <1>4 DEF InvClosed, StageOf, Appending
<1> QED BY <1>1, <1>2, <1>3, <1>4, <1>5, <1>6, CalmClosed DEF Appending

(* flush(): the marker of finish() or terminate() is awaited. *)
LEMMA FlushClosed ==
  ASSUME InvOrder, InvClosed, NEW p \in Threads, Flush(p)
  PROVE  InvClosed'
<1> Typed /\ HandOf(p) /\ ReachOf(p) BY DEF InvOrder, HandInv, InvClosed
<1>1. PICK c : c = my[p].cmd OBVIOUS
<1>2. PICK q : q = command[c].queue OBVIOUS
<1>3. pc[p] = "flush" /\ q \in Queues /\ c \in AllCommands /\ UNCHANGED <<created, command, queue>>
  BY <1>1, <1>2 DEF Flush, HandOf, InEnqueue, Appending
<1>4. Calm(p) BY FlushCalm
<1>5. Typed' /\ Alone(p) /\ Steady /\ created' >= created
  BY <1>3, <1>4 DEF Calm, Quiet, Steady, Fresh, Done, Typed
<1>6. CASE command[c].kind = "finish"
  <2>1. Notify(q, p, "await") /\ my' = [my EXCEPT ![p].cmd = None, ![p].event = c]
    BY <1>1, <1>2, <1>6 DEF Flush
  <2>2. pc'[p] = "await"
    <3>1. "await" \in Labels \ {"asleep"} BY DEF Labels
    <3> QED BY <1>3, <2>1, <3>1, NotifyFacts DEF Typed
  <2>3. my'[p].op = my[p].op /\ my'[p].on = my[p].on /\ my'[p].event = c BY <2>1 DEF Typed, Locals
  <2>4. Keeps(p) BY <1>3, <1>5, <2>2, <2>3 DEF Keeps
  <2>5. ASSUME NEW x \in Queues, Shut(x)', Reaches(p, x)' PROVE p \in Clients /\ Closing(p, x)'
    <3>1. x = q /\ Shut(x) /\ ~EarlyRelease
      BY <1>2, <1>3, <2>2, <2>3, <2>4, <2>5, KeepsShut DEF Reaches, Appending
    <3>2. Reaches(p, q) BY <1>1, <1>2, <1>3, <3>1 DEF Reaches, Appending
    <3> QED BY <2>3, <3>1, <3>2 DEF ReachOf, Closing
  <2>6. ReachOf(p)' BY <2>2, <2>5 DEF ReachOf, Appending
  <2>7. p \in Clients => StageOf(p)' BY <2>2 DEF StageOf, Appending
  <2>8. \A d \in AllCommands : WaitsOf(d)' BY <1>3, <1>5, <2>4, KeepsShut, WaitsKept
  <2> QED BY <2>2, <2>4, <2>6, <2>7, <2>8, KeepsClosed
<1>7. CASE command[c].kind # "finish"
  <2>1. \E label \in {"idle", "dropMarker"} :
          /\ Notify(q, p, label)
          /\ command[c].kind # "user" => label # "idle"
    BY <1>1, <1>2, <1>7 DEF Flush
  <2>2. PICK label \in {"idle", "dropMarker"} :
          Notify(q, p, label) /\ (command[c].kind # "user" => label # "idle")
    BY <2>1
  <2>3. label \in Labels \ {"asleep"} BY DEF Labels
  <2>4. pc'[p] = label BY <1>3, <2>2, <2>3, NotifyFacts DEF Typed
  <2>5. my' = my \/ my' = [my EXCEPT ![p].cmd = None] BY <1>1, <1>7 DEF Flush
  <2>6. my'[p].op = my[p].op /\ my'[p].on = my[p].on /\ my'[p].event = my[p].event
    BY <2>5 DEF Typed, Locals
  <2>7. p \in Clients => StageOf(p)' BY <1>1, <1>3, <2>2, <2>4, <2>6 DEF InvClosed, StageOf, Appending
  <2> QED BY <1>3, <1>4, <2>4, <2>6, <2>7, CalmClosed DEF Appending
<1> QED BY <1>6, <1>7

(* notifyCmdQueue(): who sends a marker reaches the queue already. *)
LEMMA SendClosed ==
  ASSUME InvOrder, InvClosed, NEW p \in Threads, NotifyCmdQueue(p), Sends(p)
  PROVE  InvClosed'
<1> Typed /\ ReachOf(p) BY DEF InvOrder, InvClosed
<1>1. PICK e, m : MakesMarker(p, e, m) BY MarkerFacts
<1>2. /\ e \in Commands /\ m \in AllCommands \ Commands /\ e # m
      /\ e = my[p].event /\ pc[p] = "await"
      /\ \A d \in AllCommands :
           /\ d # m => command'[d].queue = command[d].queue
           /\ command'[d].status = command[d].status /\ command'[d].waits = command[d].waits
      /\ command'[m].kind = "notify" /\ command'[m].queue = command[e].queue
      /\ pc'[p] = "append" /\ my'[p].cmd = m /\ my'[p].event = e
      /\ my'[p].op = my[p].op /\ my'[p].on = my[p].on
      /\ UNCHANGED <<created, queue>> /\ Typed' /\ Steady /\ Alone(p)
  BY <1>1 DEF MakesMarker
<1>3. e \in AllCommands /\ e # None /\ ~Done(e) BY <1>2, CommandFacts DEF NotifyCmdQueue
<1>4. Keeps(p) /\ created' >= created BY <1>2 DEF Keeps, Typed
<1>5. ASSUME NEW x \in Queues, Shut(x)', Reaches(p, x)' PROVE p \in Clients /\ Closing(p, x)'
  <2>1. x = command[e].queue /\ ~EarlyRelease BY <1>2, <1>3, <1>5 DEF Reaches
  <2>2. Shut(x) /\ Reaches(p, x) BY <1>2, <1>3, <1>4, <1>5, <2>1, KeepsShut DEF Reaches
  <2> QED BY <1>2, <2>2 DEF ReachOf, Closing
<1>6. ReachOf(p)'
  <2>1. command'[m].queue = command'[e].queue BY <1>2, <1>3
  <2> QED BY <1>2, <1>5, <2>1 DEF ReachOf
<1>7. p \in Clients => StageOf(p)' BY <1>2 DEF StageOf
<1>8. \A d \in AllCommands : WaitsOf(d)' BY <1>2, <1>4, KeepsShut, WaitsKept
<1> QED BY <1>2, <1>4, <1>6, <1>7, <1>8, KeepsClosed

(* The other steps of a call. *)
LEMMA CallClosed ==
  ASSUME InvOrder, InvClosed, NEW p \in Threads, InCall(p)
  PROVE  InvClosed'
<1> Typed /\ HandOf(p) BY DEF InvOrder, HandInv
<1>1. CASE FindDone(p) \/ (NotifyCmdQueue(p) /\ ~Sends(p)) \/ DropMarker(p) \/ Sleep(p)
  <2>1. Calm(p) /\ UNCHANGED queue
    BY <1>1, FindDoneCalm, NotifyCalm, DropMarkerCalm, SleepCalm
       DEF FindDone, NotifyCmdQueue, DropMarker, Sleep, Sends
  <2>2. /\ pc[p] \in {"await", "sleep", "dropMarker"}
        /\ \E label \in {"awaited", "sleep", "waiting"} : Goto(p, label)
        /\ my' = my \/ my' = [my EXCEPT ![p].cmd = None]
    BY <1>1 DEF FindDone, NotifyCmdQueue, DropMarker, Sleep, Sends
  <2>3. pc'[p] \in {"awaited", "sleep", "waiting"} BY <2>2, GotoFacts DEF Typed, Labels
  <2>4. my'[p].op = my[p].op /\ my'[p].on = my[p].on /\ my'[p].event = my[p].event
    BY <2>2 DEF Typed, Locals
  <2>5. p \in Clients => StageOf(p)' BY <2>3 DEF StageOf, Appending
  <2> QED BY <2>1, <2>2, <2>3, <2>4, <2>5, CalmClosed DEF Appending
<1> QED BY <1>1, AppendClosed, LastClosed, FlushClosed, SendClosed DEF InCall

(* The worker awaits an event of another queue: the command it has taken is
   not done, so that the queue is not shut or the event is done. *)
LEMMA NextEventClosed ==
  ASSUME InvOrder, InvClosed, InvOrder', NEW q \in Queues, NextEvent(q)
  PROVE  InvClosed'
<1> q \in Threads /\ q \notin Clients BY CommandFacts
<1> Typed /\ Typed' BY DEF InvOrder
<1>1. Calm(q) /\ Works(q) /\ pc[q] = "events" /\ UNCHANGED <<created, command, queue>>
  BY NextEventCalm, CalmWorks DEF NextEvent
<1>2. PICK e \in my[q].todo :
        IF Satisfied(q, e)
          THEN my' = [my EXCEPT ![q].todo = @ \ {e}] /\ UNCHANGED pc
          ELSE my' = [my EXCEPT ![q].todo = @ \ {e}, ![q].event = e] /\ Goto(q, "flushBatch")
  BY DEF NextEvent
<1>3. CASE Satisfied(q, e)
  <2>1. my'[q].event = my[q].event BY <1>2, <1>3 DEF Typed, Locals
  <2> QED BY <1>1, <1>2, <1>3, <2>1, CalmClosed DEF Appending
<1>4. CASE ~Satisfied(q, e)
  <2>1. my'[q].event = e /\ pc'[q] = "flushBatch"
    <3>1. "flushBatch" \in Labels BY DEF Labels
    <3>2. e \in Commands BY Fields
    <3> QED BY <1>2, <1>4, <3>1, <3>2, GotoFacts DEF Typed, Locals
  <2>2. Keeps(q) /\ Steady /\ created' >= created BY <1>1 DEF Keeps, Works, Typed
  <2>3. PICK c \in AllCommands : c = my[q].taken /\ e \in command[c].waits /\ ~Done(c)
    <3>1. /\ my[q].taken \in AllCommands /\ my[q].todo \subseteq command[my[q].taken].waits
          /\ command[my[q].taken].status = "queued"
      BY <1>1, Fields DEF InvOrder, WorkerInv, WorkerOf, QueueInv, QueueOf
    <3> QED BY <3>1 DEF Done
  <2>4. WaitsOf(c) BY DEF InvClosed
  <2>5. ASSUME NEW x \in Queues, Shut(x)', Reaches(q, x)' PROVE FALSE
    <3>1. command[e].queue = x /\ ~Done(e) /\ ~EarlyRelease
      BY <1>1, <2>1, <2>5 DEF Reaches, Appending, Done
    <3>2. Shut(x) BY <2>2, <2>5, KeepsShut
    <3> QED BY <2>3, <2>4, <3>1, <3>2 DEF WaitsOf
  <2>6. ReachOf(q)' BY <2>1, <2>5 DEF ReachOf, Appending
  <2>7. \A d \in AllCommands : WaitsOf(d)' BY <1>1, <2>2, KeepsShut, WaitsKept
  <2> QED BY <2>1, <2>2, <2>6, <2>7, KeepsClosed
<1> QED BY <1>3, <1>4

(* Every step of a worker. *)
LEMMA WorkerClosed ==
  ASSUME InvOrder, InvClosed, InvOrder', NEW q \in Queues, Worker(q)
  PROVE  InvClosed'
<1> q \in Threads /\ q \notin Clients BY CommandFacts
<1> Typed /\ Typed' BY DEF InvOrder
<1>1. CASE FindNothing(q)
  <2>1. /\ Calm(q) /\ UNCHANGED <<queue, my>> /\ pc[q] \in {"dequeue", "recheck"}
        /\ \E label \in {"recheck", "asleep", "exited"} :
             Goto(q, label) /\ (label = "exited" => ~queue[q].accepting)
    BY <1>1, FindNothingCalm DEF FindNothing
  <2>2. pc'[q] \in {"recheck", "asleep", "exited"} /\ (pc'[q] = "exited" => ~queue[q].accepting)
    BY <2>1, GotoFacts DEF Typed, Labels
  <2> QED BY <2>1, <2>2, CalmClosed DEF Appending
<1>2. CASE NextEvent(q) BY <1>2, NextEventClosed
<1>3. CASE ~(FindNothing(q) \/ NextEvent(q))
  <2>1. Works(q) BY <1>3, LoudWorks, CalmWorks DEF Worker
  <2>2. Keeps(q) /\ pc'[q] \notin Appending BY <2>1 DEF Works, Keeps
  <2>3. ASSUME UNCHANGED <<created, command>>, pc'[q] # "exited",
               my'[q].event \in {my[q].event, None}
        PROVE  InvClosed'
    <3>1. created' >= created BY <2>3 DEF Typed
    <3> QED BY <2>2, <2>3, <3>1, Narrows
  <2>4. CASE Take(q) \/ EventAwaited(q) \/ BatchFlushed(q)
    <3>1. /\ UNCHANGED <<created, command>>
          /\ \E label \in {"events", "await", "dequeue"} : Goto(q, label)
      BY <2>4 DEF Take, EventAwaited, BatchFlushed
    <3>2. pc'[q] # "exited" BY <3>1, GotoFacts DEF Typed, Labels
    <3>3. my'[q].event \in {my[q].event, None} BY <2>4 DEF Take, EventAwaited, BatchFlushed, Typed, Locals
    <3> QED BY <2>3, <3>1, <3>2, <3>3
  <2>5. CASE SignalError(q) \/ SignalHead(q)
    <3>1. PICK label \in {"dequeue", "flushBatch"} : \E extra : Signal(q, extra, label)
      BY <2>5 DEF SignalError, SignalHead
    <3>2. PICK extra : Signal(q, extra, label) BY <3>1
    <3>3. label \in Labels \ {"exited"} BY <3>1 DEF Labels
    <3>4. pc'[q] = label /\ my'[q].event = my[q].event /\ UNCHANGED <<created, command>>
      BY <3>2, <3>3, SignalFacts
    <3> QED BY <2>3, <3>3, <3>4
  <2>6. CASE Insert(q)
    <3>1. PICK c, status : Inserts(q, c, status) BY <2>6, InsertFacts
    <3>2. /\ c \in AllCommands /\ status \in {"error", "submitted"}
          /\ command' = [command EXCEPT ![c].status = status]
          /\ pc'[q] \in {"signal", "dequeue", "flushBatch"} /\ my'[q].event = my[q].event
          /\ UNCHANGED created
      BY <3>1 DEF Inserts
    <3>3. \A d \in AllCommands : command'[d].waits = command[d].waits BY <3>2, WithStatus
    <3>4. created' >= created BY <3>2 DEF Typed
    <3> QED BY <2>2, <3>2, <3>3, <3>4, Narrows
  <2>7. CASE CompleteHead(q)
    <3>1. PICK c : c = Head(queue[q].batch) OBVIOUS
    <3>2. pc[q] = "flushBatch" /\ UNCHANGED created BY <2>7 DEF CompleteHead
    <3>3. CASE command[c].status = "submitted"
      <4>1. Settle(q, c, "complete") BY <2>7, <3>1, <3>3 DEF CompleteHead
      <4>2. c \in AllCommands
        <5>1. queue[q].batch \in Seq(AllCommands) /\ queue[q].batch # <<>>
          BY <2>7, Fields DEF CompleteHead
        <5> QED BY <3>1, <5>1
      <4>3. ~Fresh(c) /\ ~Done(c) /\ command' = [command EXCEPT ![c].status = "complete"]
        BY <3>3, <4>1 DEF Fresh, Done, Settle
      <4>4. pc'[q] = "signal" /\ my'[q].event = my[q].event BY <4>1, <4>2, <4>3, SettleFacts
      <4>5. \A d \in AllCommands : command'[d].waits = command[d].waits BY <4>2, <4>3, WithStatus
      <4>6. created' >= created BY <3>2 DEF Typed
      <4> QED BY <2>2, <4>4, <4>5, <4>6, Narrows
    <3>4. CASE command[c].status # "submitted"
      <4>1. UNCHANGED <<command, pc, my>> BY <2>7, <3>1, <3>4 DEF CompleteHead
      <4> QED BY <2>3, <3>2, <4>1
    <3> QED BY <3>3, <3>4
  <2> QED BY <1>3, <2>4, <2>5, <2>6, <2>7 DEF Worker
<1> QED BY <1>1, <1>2, <1>3

(* A client's step whose command and queues stay, and that is idle next, or
   on its way in finish() or terminate(). *)
LEMMA ClientSteps ==
  ASSUME InvOrder, InvClosed, NEW t \in Clients,
         AwaitReturns(t) \/ SignalUserEvent(t) \/ ClearLast(t) \/ DropFinalMarker(t) \/ Join(t)
  PROVE  InvClosed'
<1> t \in Threads BY CommandFacts
<1> Typed /\ StageOf(t) /\ HandOf(t) BY DEF InvOrder, InvClosed, HandInv
<1>1. CASE SignalUserEvent(t)
  <2>1. "idle" \in Labels /\ Signal(t, <<>>, "idle") /\ UNCHANGED queue
    BY <1>1 DEF SignalUserEvent, Labels
  <2>2. Calm(t) BY <2>1, SignalCalm, CommandFacts
  <2>3. /\ pc[t] = "signal" /\ pc'[t] = "idle" /\ my'[t].event = my[t].event
        /\ my'[t].op = my[t].op /\ my'[t].on = my[t].on
    BY <2>1, SignalFacts
  <2>4. my[t].op # "terminate" /\ StageOf(t)' BY <2>3 DEF StageOf, Appending
  <2> QED BY <2>1, <2>2, <2>3, <2>4, CalmClosed, CommandFacts DEF Appending
<1>2. CASE ClearLast(t)
  <2>1. Calm(t) /\ my[t].op = "finish" /\ Goto(t, "finished") BY <1>2, ClearLastCalm DEF ClearLast
  <2>2. \A x \in Queues : queue'[x].accepting = queue[x].accepting
    <3>1. PICK q \in Queues : q = my[t].on BY <2>1 DEF HandOf
    <3>2. UNCHANGED queue \/ queue' = [queue EXCEPT ![q].last = None] BY <1>2, <3>1 DEF ClearLast
    <3> QED BY <3>2, WithLast
  <2>3. pc'[t] = "finished" BY <2>1, GotoFacts DEF Typed, Labels
  <2>4. my'[t].op = "finish" /\ my'[t].event = None BY <1>2, <2>1 DEF ClearLast, Typed, Locals
  <2>5. StageOf(t)' BY <2>3 DEF StageOf, Appending
  <2> QED BY <2>1, <2>2, <2>3, <2>4, <2>5, CalmClosed, CommandFacts DEF Appending
<1>3. CASE AwaitReturns(t) \/ DropFinalMarker(t) \/ Join(t)
  <2>1. /\ Calm(t) /\ UNCHANGED queue
        /\ \/ my[t].op = "await" /\ pc[t] = "awaited" /\ Goto(t, "idle")
              /\ my' = [my EXCEPT ![t].op = "none", ![t].event = None]
           \/ my[t].op = "terminate" /\ pc[t] = "awaited" /\ Goto(t, "stop")
              /\ my' = [my EXCEPT ![t].event = None]
           \/ my[t].op = "terminate" /\ pc[t] = "join" /\ Goto(t, "finished") /\ UNCHANGED my
    BY <1>3, AwaitReturnsCalm, DropFinalMarkerCalm, JoinCalm
       DEF AwaitReturns, DropFinalMarker, Join, StageOf
  <2>2. /\ my'[t].op = "terminate" <=> my[t].op = "terminate"
        /\ my[t].op = "terminate" => my'[t].on = my[t].on
        /\ my'[t].event \in {my[t].event, None}
    BY <2>1 DEF Typed, Locals
  <2>3. /\ my[t].op = "await" => pc'[t] = "idle"
        /\ my[t].op # "await" => pc'[t] \in {"stop", "finished"}
        /\ my[t].op = "terminate" =>
             (pc'[t] \in {"join", "finished"} <=> pc[t] \in {"join", "finished"})
        /\ my[t].op \in {"await", "terminate"}
    BY <2>1, GotoFacts DEF Typed, Labels
  <2>4. StageOf(t)' BY <2>2, <2>3 DEF StageOf, Appending
  <2> QED BY <2>1, <2>2, <2>3, <2>4, CalmClosed, CommandFacts DEF Appending
<1> QED BY <1>1, <1>2, <1>3

(* terminate() stops the queue, which was shut before. *)
LEMMA StopClosed ==
  ASSUME InvOrder, InvClosed, NEW t \in Clients, Stop(t)
  PROVE  InvClosed'
<1> t \in Threads BY CommandFacts
<1> Typed /\ StageOf(t) /\ HandOf(t) BY DEF InvOrder, InvClosed, HandInv
<1>1. my[t].op = "terminate" /\ pc[t] = "stop" BY DEF Stop, StageOf
<1>2. PICK q \in Queues : q = my[t].on BY <1>1 DEF HandOf
<1>3. /\ queue' = [queue EXCEPT ![q].accepting = FALSE] /\ Notify(q, t, "join")
      /\ UNCHANGED <<created, command, my>>
  BY <1>2 DEF Stop
<1>4. ~queue'[q].accepting /\ \A x \in Queues : x # q => queue'[x] = queue[x] BY <1>3, WithAccepting
<1>5. pc'[t] = "join" /\ \A u \in Threads \ {t} : pc'[u] = pc[u] \/ pc'[u] = "recheck"
  <2>1. "join" \in Labels \ {"asleep"} BY DEF Labels
  <2> QED BY <1>3, <2>1, NotifyFacts DEF Typed
<1>6. Typed' /\ Steady /\ Alone(t) /\ created' >= created
  <2>1. Typed' /\ Alone(t) /\ UNCHANGED <<created, command>> BY StopCalm DEF Calm, Quiet
  <2> QED BY <2>1 DEF Steady, Fresh, Done, Typed
<1>7. Closing(t, q) /\ \A u \in Clients : \A x : Closing(u, x)' <=> Closing(u, x)
  BY <1>1, <1>2, <1>3 DEF Closing
<1>8. \A x \in Queues : Shut(x)' => Shut(x) BY <1>4, <1>7 DEF Shut
<1>9. ASSUME NEW u \in Threads PROVE ReachOf(u)'
  <2>1. my'[u] = my[u] /\ (pc'[u] \in Appending => pc[u] \in Appending) BY <1>3, <1>5 DEF Appending
  <2> QED BY <1>6, <1>7, <1>8, <2>1, ReachKept
<1>10. \A u \in Clients : StageOf(u)'
  <2>1. StageOf(t)' BY <1>1, <1>3, <1>5 DEF StageOf, Appending
  <2> QED BY <1>6, <2>1, OthersStage
<1>11. ASSUME NEW x \in Queues PROVE CloserOf(x)'
  <2>1. CloserOf(x) /\ CloserOf(q) /\ x \in Threads /\ x # t BY CommandFacts DEF InvClosed
  <2>2. pc'[x] = "exited" => ~queue'[x].accepting BY <1>4, <1>5, <2>1 DEF CloserOf
  <2>3. ASSUME NEW u \in Clients, Closing(u, x)
        PROVE  queue'[x].accepting <=> pc'[u] \notin {"join", "finished"}
    <3>1. CASE x = q
      <4>1. u = t BY <1>7, <2>1, <2>3, <3>1 DEF CloserOf
      <4> QED BY <1>4, <1>5, <3>1, <4>1
    <3>2. CASE x # q
      <4>1. u # t /\ u \in Threads BY <1>2, <2>3, <3>2, CommandFacts DEF Closing
      <4>2. pc'[u] \in {"join", "finished"} <=> pc[u] \in {"join", "finished"} BY <1>6, <4>1 DEF Alone
      <4> QED BY <1>4, <2>1, <2>3, <3>2, <4>2 DEF CloserOf
    <3> QED BY <3>1, <3>2
  <2>4. \A u, w \in Clients : Closing(u, x)' /\ Closing(w, x)' => w = u BY <1>7, <2>1 DEF CloserOf
  <2> QED BY <1>7, <2>2, <2>3, <2>4 DEF CloserOf
<1>12. \A d \in AllCommands : WaitsOf(d)' BY <1>3, <1>6, <1>8, WaitsKept
<1> QED BY <1>9, <1>10, <1>11, <1>12 DEF InvClosed

(* finish() or terminate() returns: a queue that was ended has stopped. *)
LEMMA ReturnClosed ==
  ASSUME InvOrder, InvClosed, NEW t \in Clients, FinishReturns(t)
  PROVE  InvClosed'
<1> t \in Threads BY CommandFacts
<1> Typed /\ HandOf(t) BY DEF InvOrder, HandInv
<1>1. /\ pc[t] = "finished" /\ Goto(t, "idle") /\ my[t].event = None
      /\ my' = [my EXCEPT ![t].op = "none", ![t].on = None, ![t].due = {}]
      /\ UNCHANGED <<created, command, queue>>
  BY DEF FinishReturns, HandOf
<1>2. my'[t].op = "none" /\ my'[t].event = None /\ pc'[t] = "idle"
  BY <1>1, GotoFacts DEF Typed, Locals, Labels
<1>3. Typed' /\ Steady /\ Alone(t) /\ created' >= created
  BY <1>1, FinishReturnsCalm DEF Calm, Quiet, Steady, Fresh, Done, Typed
<1>4. \A u \in Clients : \A x : Closing(u, x)' <=> u # t /\ Closing(u, x)
  BY <1>2, <1>3, CommandFacts DEF Closing, Alone
<1>6. \A x \in Queues : Shut(x)' => Shut(x) BY <1>1, <1>4 DEF Shut
<1>7. ASSUME NEW u \in Threads, u # t PROVE ReachOf(u)'
  <2>1. my'[u] = my[u] /\ (pc'[u] \in Appending => pc[u] \in Appending) BY <1>3, <1>7 DEF Alone, Appending
  <2> QED BY <1>3, <1>4, <1>6, <1>7, <2>1, ReachKept
<1>8. ReachOf(t)' BY <1>2 DEF ReachOf, Reaches, Appending
<1>9. \A u \in Clients : StageOf(u)'
  <2>1. StageOf(t)' BY <1>2 DEF StageOf, Appending
  <2> QED BY <1>3, <2>1, OthersStage
<1>10. ASSUME NEW x \in Queues PROVE CloserOf(x)'
  <2>1. CloserOf(x) /\ x \in Threads /\ x # t BY CommandFacts DEF InvClosed
  <2>2. pc'[x] = "exited" => ~queue'[x].accepting BY <1>1, <1>3, <2>1 DEF CloserOf, Alone
  <2>3. ASSUME NEW u \in Clients, Closing(u, x)'
        PROVE  queue'[x].accepting <=> pc'[u] \notin {"join", "finished"}
    <3>1. u # t /\ Closing(u, x) /\ u \in Threads BY <1>4, <2>3, CommandFacts
    <3>2. pc'[u] \in {"join", "finished"} <=> pc[u] \in {"join", "finished"} BY <1>3, <3>1 DEF Alone
    <3> QED BY <1>1, <2>1, <3>1, <3>2 DEF CloserOf
  <2>4. \A u, w \in Clients : Closing(u, x)' /\ Closing(w, x)' => w = u BY <1>4, <2>1 DEF CloserOf
  <2> QED BY <2>2, <2>3, <2>4 DEF CloserOf
<1>11. \A d \in AllCommands : WaitsOf(d)' BY <1>1, <1>3, <1>6, WaitsKept
<1> QED BY <1>7, <1>8, <1>9, <1>10, <1>11 DEF InvClosed

(* The application waits, or releases what it has. *)
LEMMA HandleClosed ==
  ASSUME InvOrder, InvClosed, NEW t \in Clients, NEW c \in handles,
         ReleaseHandle(t, c) \/ Await(t, c)
  PROVE  InvClosed'
<1> t \in Threads BY CommandFacts
<1> Typed /\ StageOf(t) BY DEF InvOrder, InvClosed
<1>1. pc[t] = "idle" /\ my[t].op # "terminate" /\ Calm(t) /\ UNCHANGED <<created, command, queue>>
  BY ReleaseHandleCalm, AwaitCalm DEF ReleaseHandle, Await, StageOf
<1>2. CASE ReleaseHandle(t, c)
  <2>1. UNCHANGED <<pc, my>> BY <1>2 DEF ReleaseHandle
  <2>2. StageOf(t)' BY <1>1, <2>1 DEF StageOf, Appending
  <2> QED BY <1>1, <2>1, <2>2, CalmClosed, CommandFacts DEF Appending
<1>3. CASE Await(t, c)
  <2>1. /\ Awaitable(c) /\ Goto(t, "await") /\ c \in Commands
        /\ my' = [my EXCEPT ![t].op = "await", ![t].event = c]
    BY <1>3 DEF Await, Typed
  <2>2. pc'[t] = "await" /\ my'[t].op = "await" /\ my'[t].event = c
    BY <2>1, GotoFacts DEF Typed, Locals, Labels
  <2>3. Typed' /\ Alone(t) /\ Steady /\ created' >= created
    BY <1>1 DEF Calm, Quiet, Steady, Fresh, Done, Typed
  <2>4. Keeps(t) BY <1>1, <2>2, <2>3 DEF Keeps
  <2>5. ASSUME NEW x \in Queues, Shut(x)', Reaches(t, x)' PROVE FALSE
    <3>1. command[c].queue = x /\ ~Done(c) /\ ~EarlyRelease
      BY <1>1, <2>2, <2>5 DEF Reaches, Appending, Done
    <3>2. Shut(x) BY <2>4, <2>5, KeepsShut
    <3>3. Open(x) BY <2>1, <3>1, CommandFacts DEF Awaitable
    <3> QED BY <3>2, <3>3 DEF Open, Shut, Closing
  <2>6. ReachOf(t)' /\ StageOf(t)' BY <2>2, <2>5 DEF ReachOf, StageOf, Appending
  <2>7. \A d \in AllCommands : WaitsOf(d)' BY <1>1, <2>3, <2>4, KeepsShut, WaitsKept
  <2> QED BY <2>2, <2>4, <2>6, <2>7, KeepsClosed, CommandFacts
<1> QED BY <1>2, <1>3

(* finish() awaits the last command of a queue that is not shut. *)
LEMMA FinishClosed ==
  ASSUME InvOrder, InvClosed, NEW t \in Clients, NEW q \in Queues,
         FinishLast(t, q) \/ FinishIdle(t, q)
  PROVE  InvClosed'
<1> t \in Threads BY CommandFacts
<1> Typed /\ StageOf(t) /\ CommandInv /\ HandOf(t) BY DEF InvOrder, InvClosed, HandInv
<1>1. /\ pc[t] = "idle" /\ my[t].op # "terminate" /\ my[t].event = None /\ Open(q)
      /\ UNCHANGED <<created, command, queue>>
  BY DEF FinishLast, FinishIdle, StageOf, HandOf
<1>2. PICK e \in AllCommands \cup {None}, label \in {"await", "finished"} :
        /\ Goto(t, label)
        /\ \/ e = queue[q].last /\ e # None /\ FinishLast(t, q)
              /\ my' = [my EXCEPT ![t] = [Begin(t, "finish", q) EXCEPT !.event = e]]
           \/ e = None /\ my' = [my EXCEPT ![t] = Begin(t, "finish", q)] /\ label = "finished"
  BY Fields DEF FinishLast, FinishIdle
<1>3. Calm(t)
  <2>1. CASE FinishLast(t, q) BY <2>1, FinishLastCalm
  <2>2. CASE FinishIdle(t, q) BY <2>2, BeginCalm DEF FinishIdle
  <2> QED BY <2>1, <2>2
<1>4. pc'[t] = label BY <1>2, GotoFacts DEF Typed, Labels
<1>5. my'[t].op = "finish" /\ my'[t].event = e
  <2>1. PICK b : b = Begin(t, "finish", q) OBVIOUS
  <2>2. b \in Locals /\ b.op = "finish" /\ b.event = None BY <1>1, <2>1, BeginFacts
  <2> QED BY <1>2, <2>1, <2>2 DEF Typed, Locals
<1>6. Typed' /\ Alone(t) /\ Steady /\ created' >= created
  BY <1>1, <1>3 DEF Calm, Quiet, Steady, Fresh, Done, Typed
<1>7. Keeps(t) BY <1>1, <1>5, <1>6 DEF Keeps
<1>8. ASSUME NEW x \in Queues, Shut(x)', Reaches(t, x)' PROVE FALSE
  <2>1. e # None /\ command[e].queue = x BY <1>1, <1>4, <1>5, <1>8 DEF Reaches, Appending
  <2>2. x = q BY <1>2, <2>1 DEF CommandInv
  <2>3. Shut(q) BY <1>7, <1>8, <2>2, KeepsShut
  <2> QED BY <1>1, <2>3 DEF Open, Shut, Closing
<1>9. ReachOf(t)' /\ StageOf(t)' BY <1>4, <1>5, <1>8 DEF ReachOf, StageOf, Appending
<1>10. \A d \in AllCommands : WaitsOf(d)' BY <1>1, <1>6, <1>7, KeepsShut, WaitsKept
<1> QED BY <1>4, <1>7, <1>9, <1>10, KeepsClosed, CommandFacts

(* User events belong to no queue. *)
LEMMA UserClosed ==
  ASSUME InvOrder, InvClosed, InvOrder', NEW t \in Clients,
         \/ CreateUserEvent(t)
         \/ \E e \in handles, o \in {"complete", "error"} : SetUserEvent(t, e, o)
  PROVE  InvClosed'
<1> t \in Threads BY CommandFacts
<1> Typed /\ Typed' /\ StageOf(t) BY DEF InvOrder, InvClosed
<1>1. pc[t] = "idle" /\ my[t].op # "terminate" /\ UNCHANGED queue
  BY DEF CreateUserEvent, SetUserEvent, StageOf
<1>2. CASE CreateUserEvent(t)
  <2>1. /\ UNCHANGED <<pc, my>> /\ created' = created + 1 /\ Steady
        /\ command' = [command EXCEPT ![created + 1].kind = "userEvent",
                                      ![created + 1].status = "submitted"]
    BY <1>2, CreateSteady DEF CreateUserEvent
  <2>2. \A d \in AllCommands : command'[d].waits = command[d].waits BY <2>1 DEF Typed, CommandObject
  <2>3. Keeps(t) /\ created' >= created BY <1>1, <2>1 DEF Keeps, Alone, Typed
  <2>4. StageOf(t)' BY <1>1, <2>1 DEF StageOf, Appending
  <2> QED BY <1>1, <2>1, <2>2, <2>3, <2>4, Narrows, CommandFacts DEF Appending
<1>3. CASE \E e \in handles, o \in {"complete", "error"} : SetUserEvent(t, e, o)
  <2>1. PICK e \in handles, o \in {"complete", "error"} : SetUserEvent(t, e, o) BY <1>3
  <2>2. /\ Settle(t, e, o) /\ ~Done(e) /\ UNCHANGED created
        /\ command' = [command EXCEPT ![e].status = o]
    BY <2>1 DEF SetUserEvent, Settle
  <2>3. e \in AllCommands /\ ~Fresh(e) BY CommandFacts DEF InvOrder, Typed, CommandInv
  <2>4. /\ Steady /\ pc'[t] = "signal" /\ my'[t].event = my[t].event /\ my'[t].op = my[t].op
        /\ \A u \in Threads \ {t} : pc'[u] = pc[u] /\ my'[u] = my[u]
    BY <2>2, <2>3, SettleFacts
  <2>5. \A d \in AllCommands : command'[d].waits = command[d].waits BY <2>2, <2>3, WithStatus
  <2>6. Keeps(t) /\ created' >= created BY <1>1, <2>2, <2>4 DEF Keeps, Alone, Typed
  <2>7. StageOf(t)' BY <1>1, <2>4 DEF StageOf, Appending
  <2> QED BY <1>1, <2>4, <2>5, <2>6, <2>7, Narrows, CommandFacts DEF Appending
<1> QED BY <1>2, <1>3

(* What a new command waits for, when none of it is beyond reach. *)
LEMMA NewWaits ==
  ASSUME InvOrder, InvClosed, NEW t \in Clients, NEW kind, NEW q \in Queues,
         NEW W \in SUBSET handles, MakesCommand(t, kind, q, W),
         EarlyRelease \/ \A x \in Queues : Shut(x)' => Shut(x) \/ ~AwaitedBySomebody(x),
         EarlyRelease \/ \A e \in W : \A x \in Queues :
                           command[e].queue = x /\ ~Done(e) => ~Shut(x)',
         NEW d \in AllCommands
  PROVE  WaitsOf(d)'
<1> Typed BY DEF InvOrder
<1>1. /\ created' = created + 1 /\ created + 1 \in Commands /\ Fresh(created + 1)
      /\ \A c \in AllCommands : /\ c # created + 1 => command'[c] = command[c]
                                /\ command'[c].status = command[c].status
      /\ command'[created + 1].waits = W /\ Typed' /\ Steady
  BY DEF MakesCommand
<1>2. CASE d # created + 1
  <2>1. created' >= created BY <1>1 DEF Typed
  <2> QED BY <1>1, <1>2, <2>1, WaitsKept
<1>3. CASE d = created + 1
  <2>1. \A e \in W : e \in AllCommands /\ ~Fresh(e) /\ e # created + 1
    BY <1>1, CommandFacts DEF InvOrder, CommandInv, Typed
  <2>2. \A e \in W : command'[e] = command[e] BY <1>1, <2>1
  <2>3. d \in 1..created' BY <1>1, <1>3 DEF Commands, Typed
  <2> QED BY <1>1, <1>3, <2>2, <2>3 DEF WaitsOf, Done
<1> QED BY <1>2, <1>3

(* A command made for a queue that is not shut, as what it waits for is not. *)
LEMMA MakeClosed ==
  ASSUME InvOrder, InvClosed, NEW t \in Clients, NEW kind \in {"user", "finish"},
         NEW q \in Queues, NEW W \in SUBSET handles, MakesCommand(t, kind, q, W), Open(q),
         pc[t] = "idle", my'[t].op # "terminate", UNCHANGED queue,
         EarlyRelease \/ \A e \in W : \A x \in Queues : command[e].queue = x /\ ~Done(e) => Open(x)
  PROVE  InvClosed'
<1> t \in Threads BY CommandFacts
<1> Typed /\ StageOf(t) /\ HandOf(t) BY DEF InvOrder, InvClosed, HandInv
<1>1. /\ created + 1 \in Commands /\ command'[created + 1].queue = q
      /\ command'[created + 1].kind = kind
      /\ pc'[t] = "append" /\ my'[t].cmd = created + 1 /\ my'[t].event = my[t].event
      /\ Typed' /\ Steady /\ Alone(t)
  BY DEF MakesCommand
<1>2. my[t].op # "terminate" /\ my[t].event = None BY DEF StageOf, HandOf
<1>3. Keeps(t) BY <1>1, <1>2 DEF Keeps
<1>4. \A x \in Queues : Open(x) => ~Shut(x)' BY <1>3, KeepsShut DEF Open, Shut, Closing
<1>5. ReachOf(t)'
  <2>1. \A x \in Queues : Reaches(t, x)' => x = q BY <1>1, <1>2 DEF Reaches
  <2> QED BY <1>1, <1>4, <2>1 DEF ReachOf
<1>6. StageOf(t)' BY <1>1 DEF StageOf
<1>7. \A d \in AllCommands : WaitsOf(d)' BY <1>3, <1>4, KeepsShut, NewWaits
<1> QED BY <1>1, <1>3, <1>5, <1>6, <1>7, KeepsClosed, CommandFacts

(* terminate() begins: the other clients are in no call on the queue, and
   nobody waits for it, unless queues are dropped early. *)
LEMMA TerminateBegins ==
  ASSUME InvOrder, InvClosed, NEW t \in Clients, NEW q \in Queues, Steady, Alone(t),
         \A d \in AllCommands : WaitsOf(d)',
         pc[t] = "idle", Open(q), \A u \in Clients \ {t} : q \notin Streams[u] \/ pc[u] = "idle",
         EarlyRelease \/ ~AwaitedBySomebody(q), UNCHANGED queue,
         my'[t].op = "terminate", my'[t].on = q, my'[t].event = None,
         \/ pc'[t] = "stop"
         \/ /\ pc'[t] = "append" /\ my'[t].cmd \in Commands
            /\ command'[my'[t].cmd].queue = q /\ command'[my'[t].cmd].kind = "finish"
  PROVE  InvClosed'
<1> t \in Threads BY CommandFacts
<1> Typed /\ StageOf(t) BY DEF InvOrder, InvClosed
<1>1. my[t].op # "terminate" /\ queue[q].accepting /\ \A u \in Clients : ~Closing(u, q)
  BY DEF StageOf, Open, Closing
<1>2. \A u \in Clients : \A x : Closing(u, x)' <=> (u = t /\ x = q) \/ Closing(u, x)
  BY <1>1, CommandFacts DEF Closing, Alone
<1>3. \A x \in Queues : Shut(x)' => Shut(x) \/ x = q BY <1>2 DEF Shut
<1>4. ASSUME NEW u \in Threads, u # t PROVE ReachOf(u)'
  <2>1. my'[u] = my[u] /\ (pc'[u] = pc[u] \/ pc'[u] \in {"sleep", "recheck"}) BY <1>4 DEF Alone
  <2>2. ~Reaches(u, q)
    <3>1. HandOf(u) /\ ReachOf(u) BY DEF InvOrder, HandInv, InvClosed
    <3>2. EarlyRelease \/ my[u].event = None \/ command[my[u].event].queue # q BY DEF AwaitedBySomebody
    <3>3. ASSUME pc[u] \in Appending, EarlyRelease => my[u].cmd \in Commands,
                 command[my[u].cmd].queue = q
          PROVE  FALSE
      <4>1. CASE my[u].cmd \in Commands
        <5>1. u \in Clients /\ q \in Streams[u] BY <3>1, <3>3, <4>1 DEF HandOf, InEnqueue
        <5> QED BY <1>4, <3>3, <5>1 DEF Appending
      <4>2. CASE my[u].cmd \notin Commands
        <5>1. my[u].event # None /\ command[my[u].cmd].queue = command[my[u].event].queue
          BY <3>1, <3>3, <4>2 DEF HandOf, InEnqueue, ReachOf
        <5> QED BY <3>2, <3>3, <4>2, <5>1
      <4> QED BY <4>1, <4>2
    <3>4. EarlyRelease \in BOOLEAN BY HostQueueAssumption
    <3> QED BY <3>2, <3>3, <3>4 DEF Reaches
  <2>3. pc'[u] \in Appending => pc[u] \in Appending BY <2>1 DEF Appending
  <2>4. \A x \in Queues : Shut(x)' => Shut(x) \/ ~Reaches(u, x) BY <1>3, <2>2
  <2>5. u \in Clients => \A x \in Queues : Closing(u, x) => Closing(u, x)' BY <1>2
  <2> QED BY <2>1, <2>3, <2>4, <2>5, ReachKept
<1>5. ReachOf(t)'
  <2>1. \A x \in Queues : Reaches(t, x)' => x = q BY DEF Reaches, Appending
  <2>2. Closing(t, q)' BY <1>2
  <2> QED BY <2>1, <2>2 DEF ReachOf, Appending
<1>6. \A u \in Clients : StageOf(u)'
  <2>1. StageOf(t)' BY DEF StageOf, Appending
  <2> QED BY <2>1, OthersStage
<1>7. ASSUME NEW x \in Queues PROVE CloserOf(x)'
  <2>1. CloserOf(x) /\ x \in Threads /\ x # t BY CommandFacts DEF InvClosed
  <2>2. pc'[x] = "exited" => ~queue'[x].accepting BY <2>1 DEF CloserOf, Alone
  <2>3. ASSUME NEW u \in Clients, Closing(u, x)'
        PROVE  queue'[x].accepting <=> pc'[u] \notin {"join", "finished"}
    <3>1. CASE x = q
      <4>1. u = t BY <1>1, <1>2, <2>3, <3>1
      <4> QED BY <1>1, <3>1, <4>1
    <3>2. CASE x # q
      <4>1. Closing(u, x) /\ u # t /\ u \in Threads BY <1>1, <1>2, <2>3, <3>2, CommandFacts DEF Closing
      <4>2. pc'[u] \in {"join", "finished"} <=> pc[u] \in {"join", "finished"} BY <4>1 DEF Alone
      <4> QED BY <2>1, <4>1, <4>2 DEF CloserOf
    <3> QED BY <3>1, <3>2
  <2>4. \A u, w \in Clients : Closing(u, x)' /\ Closing(w, x)' => w = u BY <1>1, <1>2, <2>1 DEF CloserOf
  <2> QED BY <2>2, <2>3, <2>4 DEF CloserOf
<1> QED BY <1>4, <1>5, <1>6, <1>7 DEF InvClosed

(* Whichever way terminate() begins, nobody else reaches the queue. *)
LEMMA TerminateClosed ==
  ASSUME InvOrder, InvClosed, NEW t \in Clients, NEW q \in Streams[t],
         Terminate(t, q)
  PROVE  InvClosed'
<1> t \in Threads /\ q \in Queues BY CommandFacts, HostQueueAssumption
<1> Typed /\ StageOf(t) /\ HandOf(t) BY DEF InvOrder, InvClosed, HandInv
<1>1. /\ pc[t] = "idle" /\ Open(q) /\ UNCHANGED <<handles, queue, active>>
      /\ EarlyRelease \/ ~AwaitedBySomebody(q)
      /\ \A u \in Clients \ {t} : q \notin Streams[u] \/ pc[u] = "idle"
  BY DEF Terminate
<1>2. my[t].op # "terminate" /\ my[t].event = None BY <1>1 DEF StageOf, HandOf
<1>3. PICK b : b = Begin(t, "terminate", q) OBVIOUS
<1>4. b \in Locals /\ b.op = "terminate" /\ b.on = q /\ b.event = None BY <1>2, <1>3, BeginFacts
<1>5. ASSUME Alone(t), my'[t].op = "terminate", my'[t].on = q, NEW x \in Queues, Shut(x)'
      PROVE  EarlyRelease \/ Shut(x) \/ ~AwaitedBySomebody(x)
  <2>1. CASE x = q BY <1>1, <2>1
  <2>2. CASE x # q
    <3>1. \A u \in Clients : Closing(u, x)' => Closing(u, x)
      BY <1>5, <2>2, CommandFacts DEF Alone, Closing
    <3> QED BY <1>1, <1>5, <3>1 DEF Shut
  <2> QED BY <2>1, <2>2
<1>6. CASE ~IsHip \/ queue[q].last # None
  <2>1. SendMarker(t, "terminate", q) BY <1>6 DEF Terminate
  <2>2. Making(t, "finish", q, {}) BY <1>1, <2>1 DEF SendMarker, Making
  <2>3. MakesCommand(t, "finish", q, {}) BY <2>2, MakingFacts
  <2>4. /\ created + 1 \in Commands /\ command'[created + 1].queue = q
        /\ command'[created + 1].kind = "finish"
        /\ pc'[t] = "append" /\ my'[t].cmd = created + 1 /\ Steady /\ Alone(t)
    BY <2>3 DEF MakesCommand
  <2>5. my'[t].op = "terminate" /\ my'[t].on = q /\ my'[t].event = None
    <3>1. my' = [my EXCEPT ![t] = [b EXCEPT !.cmd = created + 1]] BY <1>3, <2>1 DEF SendMarker
    <3> QED BY <1>4, <3>1 DEF Typed, Locals
  <2>6. \A d \in AllCommands : WaitsOf(d)' BY <1>5, <2>3, <2>4, <2>5, NewWaits
  <2> QED BY <1>1, <2>4, <2>5, <2>6, TerminateBegins
<1>7. CASE ~(~IsHip \/ queue[q].last # None)
  <2>1. /\ my' = [my EXCEPT ![t] = b] /\ Goto(t, "stop") /\ UNCHANGED <<created, command>>
    BY <1>3, <1>7 DEF Terminate
  <2>2. Calm(t) BY <1>1, <1>3, <2>1, BeginCalm
  <2>3. Typed' /\ Alone(t) /\ Steady /\ created' >= created
    BY <2>1, <2>2 DEF Calm, Quiet, Steady, Fresh, Done, Typed
  <2>4. /\ my'[t].op = "terminate" /\ my'[t].on = q /\ my'[t].event = None /\ pc'[t] = "stop"
    BY <1>4, <2>1, GotoFacts DEF Typed, Labels
  <2>5. \A d \in AllCommands : WaitsOf(d)' BY <1>5, <2>1, <2>3, <2>4, WaitsKept
  <2> QED BY <1>1, <2>3, <2>4, <2>5, TerminateBegins
<1> QED BY <1>6, <1>7

(* Every call of the application. *)
LEMMA ApplicationClosed ==
  ASSUME InvOrder, InvClosed, InvOrder', NEW t \in Clients, Call(t)
  PROVE  InvClosed'
<1> t \in Threads BY CommandFacts
<1> Typed /\ StageOf(t) BY DEF InvOrder, InvClosed
<1>1. ASSUME NEW q \in Streams[t] PROVE q \in Queues BY <1>1, HostQueueAssumption
<1>2. ASSUME NEW q \in Streams[t], NEW W \in SUBSET handles, Create(t, q, W) PROVE InvClosed'
  <2>1. /\ Making(t, "user", q, W) /\ Open(q) /\ pc[t] = "idle" /\ UNCHANGED queue
        /\ \A e \in W : Awaitable(e)
        /\ my' = [my EXCEPT ![t].cmd = created + 1]
    BY <1>2 DEF Create, Making
  <2>2. MakesCommand(t, "user", q, W) BY <1>1, <2>1, MakingFacts
  <2>3. my'[t].op # "terminate" BY <2>1 DEF StageOf, Typed, Locals
  <2>4. EarlyRelease \/ \A e \in W : \A x \in Queues : command[e].queue = x /\ ~Done(e) => Open(x)
    BY <2>1, CommandFacts DEF Awaitable
  <2> QED BY <1>1, <2>1, <2>2, <2>3, <2>4, MakeClosed
<1>3. ASSUME NEW q \in Streams[t], FinishWithMarker(t, q) PROVE InvClosed'
  <2>1. /\ SendMarker(t, "finish", q) /\ Open(q) /\ pc[t] = "idle"
        /\ UNCHANGED <<handles, queue, active>>
    BY <1>3 DEF FinishWithMarker
  <2>2. Making(t, "finish", q, {}) BY <2>1 DEF SendMarker, Making
  <2>3. MakesCommand(t, "finish", q, {}) BY <1>1, <2>2, MakingFacts
  <2>4. my'[t].op # "terminate"
    <3>1. PICK b : b = Begin(t, "finish", q) OBVIOUS
    <3>2. b \in Locals /\ b.op = "finish" BY <1>1, <3>1, BeginFacts
    <3>3. my' = [my EXCEPT ![t] = [b EXCEPT !.cmd = created + 1]] BY <2>1, <3>1 DEF SendMarker
    <3> QED BY <3>2, <3>3 DEF Typed, Locals
  <2> QED BY <1>1, <2>1, <2>3, <2>4, MakeClosed
<1>4. CASE \/ CreateUserEvent(t)
           \/ \E c \in handles : SetUserEvent(t, c, "complete") \/ SetUserEvent(t, c, "error")
  BY <1>4, UserClosed
<1>5. CASE \E c \in handles : ReleaseHandle(t, c) \/ Await(t, c) BY <1>5, HandleClosed
<1>6. CASE \E q \in Streams[t] : FinishLast(t, q) \/ FinishIdle(t, q) BY <1>1, <1>6, FinishClosed
<1>7. CASE \E q \in Streams[t] : Terminate(t, q) BY <1>7, TerminateClosed
<1> QED BY <1>2, <1>3, <1>4, <1>5, <1>6, <1>7 DEF Call

(* Initially no queue is being ended, and nothing waits. *)
LEMMA InitClosed == Init => InvClosed
<1> SUFFICES ASSUME Init PROVE InvClosed OBVIOUS
<1>1. \A q \in Queues : q \in Threads /\ pc[q] = "dequeue" /\ queue[q].accepting BY CommandFacts DEF Init
<1>2. \A t \in Clients : t \in Threads /\ pc[t] = "idle" /\ t \notin Queues BY CommandFacts DEF Init
<1>3. \A p \in Threads : pc[p] \in {"dequeue", "idle"} /\ my[p].op = "none" /\ my[p].event = None
  BY DEF Init
<1>4. \A c \in AllCommands : command[c].waits = {} BY DEF Init
<1>5. \A t \in Clients : \A q : ~Closing(t, q) BY <1>2, <1>3 DEF Closing
<1>6. \A t \in Clients : StageOf(t) BY <1>2, <1>3 DEF StageOf, Appending
<1>7. \A p \in Threads : ReachOf(p) BY <1>3 DEF ReachOf, Reaches, Appending
<1>8. \A q \in Queues : CloserOf(q) BY <1>1, <1>5 DEF CloserOf
<1>9. \A c \in AllCommands : WaitsOf(c) BY <1>4 DEF WaitsOf
<1> QED BY <1>6, <1>7, <1>8, <1>9 DEF InvClosed

(* Every step keeps the queues that are shut out of reach. *)
LEMMA StepClosed == InvOrder /\ InvClosed /\ [Next]_vars => InvClosed'
<1> SUFFICES ASSUME InvOrder, InvClosed, [Next]_vars PROVE InvClosed' OBVIOUS
<1>1. InvOrder' BY StepInv
<1>2. CASE UNCHANGED vars
  BY <1>2 DEF vars, InvClosed, StageOf, ReachOf, Reaches, CloserOf, WaitsOf, Shut, Closing, Done
<1>3. ASSUME NEW t \in Clients, ClientStep(t) PROVE InvClosed'
  BY <1>3, ClientSteps, StopClosed, ReturnClosed DEF ClientStep
<1>4. CASE Next BY <1>1, <1>3, <1>4, ApplicationClosed, CallClosed, WorkerClosed, CommandFacts DEF Next
<1> QED BY <1>2, <1>4

(* Nobody appends to a queue whose terminate() is over but a thread that
   sends the marker of notifyCmdQueue() to the queue of the event it waits
   for, and only where the application drops queues that are waited for. *)
THEOREM NothingAppendedAfter == Spec => []NoAppendAfterTerminate
<1>1. Init => InvClosed BY InitClosed
<1>2. InvOrder /\ InvClosed /\ [Next]_vars => InvClosed' BY StepClosed
<1>3. InvOrder /\ InvClosed => NoAppendAfterTerminate
  <2> SUFFICES ASSUME InvOrder, InvClosed, NEW p \in Threads, pc[p] \in Appending,
                      Deleted(command[my[p].cmd].queue)
               PROVE  /\ EarlyRelease /\ command[my[p].cmd].kind = "notify"
                      /\ command[my[p].event].queue = command[my[p].cmd].queue
    BY DEF NoAppendAfterTerminate, Appending
  <2>1. PICK q \in Queues : q = command[my[p].cmd].queue BY DEF InvOrder, HandInv, HandOf, InEnqueue
  <2>2. ~queue[q].accepting BY <2>1 DEF Deleted, InvClosed, CloserOf
  <2>3. ~Reaches(p, q)
    <3> SUFFICES ASSUME Reaches(p, q) PROVE FALSE OBVIOUS
    <3>1. Shut(q) BY <2>2 DEF Shut
    <3>2. p \in Clients /\ Closing(p, q) BY <3>1 DEF InvClosed, ReachOf
    <3>3. pc[p] \in {"join", "finished"} BY <2>2, <3>2 DEF InvClosed, CloserOf
    <3> QED BY <3>3 DEF Appending
  <2>4. EarlyRelease /\ my[p].cmd \notin Commands BY <2>1, <2>3 DEF Reaches
  <2> QED BY <2>4 DEF InvOrder, HandInv, HandOf, InEnqueue, InvClosed, ReachOf
<1> QED BY <1>1, <1>2, <1>3, QueuesKeepOrder, PTL DEF Spec
=============================================================================
