---------------------------- MODULE DirectProofs ----------------------------
(* Proofs about direct dispatch, for any queues, clients and number of
   commands: the GPU runs a packet after the events its command waits for,
   a status is complete only when the packet has run, finish() and
   terminate() return only when everything before them has run, and a
   submitted command is in one batch. *)
EXTENDS DirectDispatch, SequenceTheorems, FiniteSetTheorems, TLAPS

(* The stage of a call, whatever it does for another event meanwhile. *)
At(t) == IF my[t].event # None THEN my[t].then ELSE pc[t]

(* A packet that is on its way or has run, and one that runs no later than
   another. *)
InRing(q, c) == \E i \in DOMAIN queue[q].ring : queue[q].ring[i] = c
Sent(c)      == c \in ran \/ \E q \in Queues : InRing(q, c)
Upto(d, c)   ==
  \/ d \in ran
  \/ \E q \in Queues : \E i, j \in DOMAIN queue[q].ring :
        i <= j /\ queue[q].ring[i] = d /\ queue[q].ring[j] = c

Settled(c) == Sent(c) \/ (command[c].kind = "cpuWait" /\ Complete(c))
Covered(e) == e \in ran \/ (HwEvent(e) # None /\ Upto(e, HwEvent(e)))

Types == /\ created \in 0..MaxCommands
         /\ command \in [AllCommands -> CommandObject]
         /\ handles \subseteq Commands
         /\ queue \in [Queues -> QueueObject]
         /\ execution \in [Queues -> Clients \cup {None}]
         /\ notifyLock \in [AllCommands -> Clients \cup {None}]
         /\ armed \subseteq AllCommands /\ ran \subseteq AllCommands
         /\ pc \in [Threads -> Labels]
         /\ my \in [Threads -> Locals]

(* The ring holds packets of its queue that have not run, each once. *)
RingInv ==
  \A q \in Queues :
    /\ \A i \in DOMAIN queue[q].ring : /\ command[queue[q].ring[i]].queue = q
                                       /\ queue[q].ring[i] \notin ran
    /\ \A i, j \in DOMAIN queue[q].ring : queue[q].ring[i] = queue[q].ring[j] => i = j

(* What a command is before its packet is sent, and after. *)
Before(c) ==
  LET o == command[c] IN
  /\ c \in Commands /\ c > created => o.status = "new"
  /\ o.status = "new" => o.waits = {}
  /\ o.status # "new" => o.queue \in Queues
  /\ o.status \in {"new", "queued"} => ~Sent(c) /\ o.next = None
  /\ o.kind = "cpuWait" => ~Sent(c)
  /\ c \in Commands => o.kind # "cpuWait"
  /\ c \notin Commands => /\ o.waits = {} /\ o.notifyEvent = None
                          /\ (o.status # "new" => o.kind \in {"marker", "cpuWait"})

After(c) ==
  LET o == command[c] IN
  /\ o.hwEvent <=> Sent(c) /\ o.kind # "work"
  /\ Complete(c) /\ o.kind # "cpuWait" => c \in ran
  /\ \A e \in o.waits : Sent(e)
  /\ c \in ran => o.waits \subseteq ran
  /\ Sent(c) => \A e \in o.waits : e \in ran \/ \E s \in o.deps : Upto(e, s)
  /\ c \in handles => Sent(c) /\ o.kind = "record"

(* An event and the marker that notifyCmdQueue() sends after it. *)
Pairing(e) ==
  LET o == command[e]
      m == NotifyMarker(e)
  IN /\ ~o.notified => command[m].status = "new" /\ o.notifyEvent = None /\ notifyLock[e] = None
     /\ o.notified => /\ Sent(e) /\ ~o.hwEvent
                      /\ command[m].status # "new" /\ command[m].queue = o.queue
                      /\ o.notifyEvent \in {None, m}
     /\ o.notified /\ notifyLock[e] = None =>
           e \in ran \/ (o.notifyEvent = m /\ Sent(m) /\ command[m].kind = "marker")
     /\ Sent(m) => Upto(e, m)

CommandInv == /\ \A c \in AllCommands : Before(c) /\ After(c)
              /\ \A e \in Commands : Pairing(e)

(* Which locals a call has at which stage, and what it knows of them. *)
Shape(t) ==
  LET c == my[t].cmd
      m == my[t].marker
      e == my[t].event
      h == my[t].held
  IN /\ pc[t] = "idle" => my[t] = AtHome
     /\ pc[t] # "idle" => my[t].on \in Queues /\ my[t].op # "none"
     /\ pc[t] = "notify" => e # None /\ m = None
     /\ pc[t] \in {"form", "complete", "advance", "notified"} => m # None
     /\ m # None => e # None /\ pc[t] \in {"form", "submit", "complete", "advance", "reset", "notified"}
     /\ e # None => pc[t] = "notify" \/ m # None
     /\ e # None => my[t].then \in {"waitMarker", "waitList", "unlock", "sleep"} /\ Settled(e)
     /\ my[t].todo # {} => At(t) = "waitList"
     /\ \A d \in my[t].todo : Sent(d)

OwnCommand(t) ==
  LET c == my[t].cmd
      h == my[t].held
  IN /\ c # None => c \in Commands /\ c <= created
     /\ At(t) \in {"waitMarker", "fence"} => c # None /\ command[c].status = "new" /\ h # None
     /\ At(t) = "fence" => my[t].op = "finish"
     /\ At(t) = "waitMarker" => my[t].op = "waitStream"
     /\ At(t) = "waitMarker" => Sent(h) /\ (my[t].event # None => my[t].event = h)
     /\ At(t) \in {"waitList", "submit", "reset", "unlock", "enqueued"} =>
           /\ c # None /\ command[c].queue = my[t].on
           /\ my[t].op = "record" => command[c].kind = "record"
     /\ At(t) = "waitList" => command[c].status = "queued"
     /\ At(t) = "submit" => command[c].status = "submitted" /\ ~Sent(c)
     /\ At(t) \in {"waitList", "submit"} =>
           \A e \in command[c].waits : e \in my[t].todo \/ e = my[t].event \/ Covered(e)
     /\ At(t) \in {"reset", "unlock", "enqueued"} =>
           Sent(c) /\ command[c].status # "new" /\ (my[t].event # None => my[t].event = c)
     /\ At(t) = "reset" => command[c].kind = "marker"
     /\ At(t) \in {"fence", "hwWait", "await", "sleep", "clear"} =>
           /\ h # None /\ Settled(h) /\ (my[t].event # None => my[t].event = h)
     /\ At(t) \in {"hwWait", "await", "sleep", "clear"} => my[t].op \in {"copy", "finish", "terminate"}
     /\ At(t) = "clear" => Complete(h)

OwnMarker(t) ==
  LET m == my[t].marker
      e == my[t].event
  IN m # None =>
       /\ e \in Commands /\ m = NotifyMarker(e) /\ Sent(e)
       /\ command[e].notified /\ notifyLock[e] = t
       /\ command[m].kind = IF my[t].then = "sleep" THEN "cpuWait" ELSE "marker"
       /\ pc[t] = "form" => command[m].status = "queued"
       /\ pc[t] = "submit" => command[m].status = "submitted" /\ ~Sent(m)
       /\ pc[t] \in {"complete", "advance"} => my[t].then = "sleep" /\ queue[command[m].queue].ring = <<>>
       /\ pc[t] \in {"reset", "notified"} => Settled(m)
       /\ pc[t] \in {"complete", "advance", "reset", "notified"} /\ my[t].then = "sleep" => e \in ran
       /\ pc[t] = "reset" /\ my[t].then = "sleep" => queue[command[m].queue].ring = <<>>

(* What finish() and terminate() wait for. *)
DueOf(t) ==
  \A d \in my[t].due :
    /\ Sent(d) /\ command[d].queue = my[t].on
    /\ At(t) \in {"reset", "unlock", "enqueued"} => Upto(d, my[t].cmd)
    /\ At(t) \in {"fence", "hwWait", "await", "sleep", "clear"} => Upto(d, my[t].held)
    /\ At(t) = "finished" => d \in ran

(* execution() and notify_lock_ *)
HoldsExec(t) == \/ pc[t] \in {"submit", "complete", "advance", "reset", "unlock"}
                \/ pc[t] \in {"notify", "form", "notified"} /\ my[t].then = "unlock"

LockInv ==
  /\ \A t \in Clients : HoldsExec(t) => Here(t) \in Queues /\ execution[Here(t)] = t
  /\ \A q \in Queues, t \in Clients : execution[q] = t => HoldsExec(t) /\ Here(t) = q
  /\ \A e \in AllCommands, t \in Clients : notifyLock[e] = t => my[t].marker # None /\ my[t].event = e
  /\ \A t, u \in Clients : my[t].cmd # None /\ my[t].cmd = my[u].cmd => t = u

(* The application does not use a queue it has destroyed. *)
OpenInv ==
  /\ \A t \in Clients : my[t].on # None /\ (my[t].op # "terminate" \/ pc[t] # "finished") =>
        queue[my[t].on].open
  /\ \A t, u \in Clients : my[t].op = "terminate" /\ my[u].on = my[t].on => t = u

(* A list of commands: from one to the next, up to the last. *)
List(B, end) == /\ end \in B /\ command[end].next = None
                /\ \A d \in B : d # end => command[d].next \in B

Closing(c) == command[c].kind \in {"marker", "cpuWait"}

(* The batch that is open on a queue. *)
BatchInv(q) ==
  LET o == queue[q] IN
  o.head # None =>
    /\ o.tail \in AllCommands
    /\ \E B \in SUBSET AllCommands :
         /\ o.head \in B /\ List(B, o.tail)
         /\ \A d \in B : command[d].queue = q /\ command[d].status \notin {"new", "queued"}
         /\ \A d \in B : d # o.tail => Sent(d)
    /\ Closing(o.tail) \/ ~Sent(o.tail) =>
         \E t \in Clients : /\ execution[q] = t /\ o.tail = Current(t)
                            /\ pc[t] \in {"submit", "complete", "advance", "reset"}

(* The last command of a queue comes after everything in the ring. *)
LastOk(q) ==
  LET o == queue[q] IN
  /\ o.last # None => /\ command[o.last].queue = q /\ Settled(o.last)
                      /\ \A i \in DOMAIN o.ring : Upto(o.ring[i], o.last)
  /\ o.last = None /\ o.open => o.ring = <<>>

SubmitOk(q) ==
  \A t \in Clients : execution[q] = t /\ pc[t] = "submit" =>
    /\ queue[q].head # None /\ queue[q].tail = Current(t)
    /\ queue[q].last = Current(t) \/ (queue[q].last = None /\ ~queue[q].open)

LastInv(q) ==
  /\ SubmitOk(q)
  /\ \/ LastOk(q)
     \/ \E t \in Clients :
          /\ execution[q] = t /\ Here(t) = q /\ queue[q].last = Current(t)
          /\ pc[t] \in {"submit", "complete", "advance"}

(* The list of a marker whose handler has not run, and a list being walked. *)
ArmedInv(m) ==
  /\ Sent(m) /\ Closing(m) /\ command[m].batchHead # None
  /\ \E B \in SUBSET AllCommands : /\ command[m].batchHead \in B /\ List(B, m)
                                   /\ \A d \in B : Upto(d, m)

WalkInv(t) ==
  pc[t] \in {"complete", "advance"} =>
    \E B \in SUBSET AllCommands, end \in AllCommands :
      /\ my[t].cursor \in B /\ List(B, end) /\ Closing(end)
      /\ t \in Clients => end = Current(t) /\ queue[Here(t)].tail = end /\ queue[Here(t)].head # None
      /\ \A d \in B : d \in ran \/ (t \in Clients /\ d = end /\ command[d].kind = "cpuWait")
      /\ \A d \in B : command[d].status \notin {"new", "queued"}
      /\ pc[t] = "advance" => Complete(my[t].cursor)

IInv == /\ Types /\ RingInv /\ CommandInv /\ LockInv /\ OpenInv
        /\ \A t \in Clients : Shape(t) /\ OwnCommand(t) /\ OwnMarker(t) /\ DueOf(t)
        /\ pc[Handler] \in {"idle", "complete", "advance"}
        /\ \A q \in Queues : BatchInv(q) /\ LastInv(q)
        /\ \A m \in armed : ArmedInv(m)
        /\ \A t \in Threads : WalkInv(t)

----------------------------------------
(* The parts of a state that hold for each client and each queue. *)
Client(t) == Shape(t) /\ OwnCommand(t) /\ OwnMarker(t) /\ DueOf(t)

Live(c) == command[c].status \notin {"new", "queued"}

(* The types of what a thread holds. *)
LEMMA TypeFacts ==
  ASSUME Types, NEW t \in Threads
  PROVE  /\ my[t] \in Locals /\ pc[t] \in Labels
         /\ my[t].cmd \in Optional /\ my[t].marker \in Optional /\ my[t].event \in Optional
         /\ my[t].held \in Optional /\ my[t].cursor \in Optional
         /\ my[t].todo \subseteq AllCommands /\ my[t].due \subseteq AllCommands
         /\ my[t].on \in Queues \cup {None}
         /\ \A c \in Optional : c # None => c \in AllCommands
         /\ None \notin AllCommands
         /\ \A c \in AllCommands : /\ command[c] \in CommandObject
                                   /\ command[c].queue \in Queues \cup {None}
                                   /\ command[c].waits \subseteq AllCommands
                                   /\ command[c].deps \subseteq AllCommands
                                   /\ command[c].next \in Optional
                                   /\ command[c].batchHead \in Optional
                                   /\ command[c].notifyEvent \in Optional
         /\ \A q \in Queues : /\ queue[q] \in QueueObject
                              /\ queue[q].last \in Optional /\ queue[q].head \in Optional
                              /\ queue[q].tail \in Optional
                              /\ queue[q].ring \in Seq(AllCommands)
<1>1. None \notin AllCommands BY DirectDispatchAssumption DEF AllCommands
<1>2. my[t] \in Locals /\ pc[t] \in Labels BY DEF Types
<1>3. \A c \in AllCommands : command[c] \in CommandObject BY DEF Types
<1>4. \A q \in Queues : queue[q] \in QueueObject BY DEF Types
<1>5. /\ my[t].cmd \in Optional /\ my[t].marker \in Optional /\ my[t].event \in Optional
      /\ my[t].held \in Optional /\ my[t].cursor \in Optional
      /\ my[t].todo \subseteq AllCommands /\ my[t].due \subseteq AllCommands
      /\ my[t].on \in Queues \cup {None}
  BY <1>2 DEF Locals
<1>6. \A c \in AllCommands : /\ command[c].queue \in Queues \cup {None}
                             /\ command[c].waits \subseteq AllCommands
                             /\ command[c].deps \subseteq AllCommands
                             /\ command[c].next \in Optional
                             /\ command[c].batchHead \in Optional
                             /\ command[c].notifyEvent \in Optional
  BY <1>3 DEF CommandObject
<1>7. \A q \in Queues : /\ queue[q].last \in Optional /\ queue[q].head \in Optional
                        /\ queue[q].tail \in Optional
                        /\ queue[q].ring \in Seq(AllCommands)
  BY <1>4 DEF QueueObject
<1> QED BY <1>1, <1>2, <1>3, <1>4, <1>5, <1>6, <1>7 DEF Optional

(* The numbers of a command and of the marker that is sent after it. *)
LEMMA MarkerFacts ==
  /\ Commands \subseteq AllCommands
  /\ \A e \in Commands : NotifyMarker(e) \in AllCommands /\ NotifyMarker(e) \notin Commands
                         /\ NotifyMarker(e) # e
  /\ \A e, d \in Commands : NotifyMarker(e) = NotifyMarker(d) => e = d
BY DirectDispatchAssumption DEF Commands, AllCommands, NotifyMarker

(* What the ring and what has run say about a command. *)
LEMMA SentFacts ==
  ASSUME Types, RingInv, CommandInv
  PROVE  /\ \A c : Sent(c) => /\ c \in AllCommands /\ Live(c)
                              /\ command[c].queue \in Queues /\ command[c].kind # "cpuWait"
                              /\ c \in ran \/ InRing(command[c].queue, c)
         /\ \A q \in Queues : \A c : InRing(q, c) => command[c].queue = q /\ c \notin ran /\ Sent(c)
         /\ \A d, c : Upto(d, c) => Sent(d)
         /\ \A d, c : Upto(d, c) /\ c \in ran => d \in ran
         /\ \A c : Sent(c) => Upto(c, c)
         /\ \A c : c \in ran => Sent(c)
<1>1. \A c : Sent(c) => c \in AllCommands
  <2>1. \A q \in Queues : queue[q].ring \in Seq(AllCommands) BY DEF Types, QueueObject
  <2>2. ran \subseteq AllCommands BY DEF Types
  <2> QED BY <2>1, <2>2 DEF Sent, InRing
<1>2. \A c : Sent(c) => Live(c) /\ command[c].queue \in Queues /\ command[c].kind # "cpuWait"
  <2>1. \A c \in AllCommands : Before(c) BY DEF CommandInv
  <2> QED BY <1>1, <2>1 DEF Before, Live
<1>3. \A q \in Queues : \A c : InRing(q, c) => command[c].queue = q /\ c \notin ran /\ Sent(c)
  BY DEF RingInv, InRing, Sent
<1>4. \A c : Sent(c) => c \in ran \/ InRing(command[c].queue, c) BY <1>3 DEF Sent
<1>5. \A d, c : Upto(d, c) => Sent(d) BY DEF Upto, Sent, InRing
<1>6. \A d, c : Upto(d, c) /\ c \in ran => d \in ran BY DEF Upto, RingInv
<1>7. \A c : Sent(c) => Upto(c, c)
  <2>1. \A q \in Queues : \A i \in DOMAIN queue[q].ring : i <= i
    <3>1. \A q \in Queues : queue[q].ring \in Seq(AllCommands) BY DEF Types, QueueObject
    <3> QED BY <3>1
  <2> QED BY <2>1 DEF Sent, InRing, Upto
<1>8. \A c : c \in ran => Sent(c) BY DEF Sent
<1> QED BY <1>1, <1>2, <1>3, <1>4, <1>5, <1>6, <1>7, <1>8

----------------------------------------
(* What no step undoes. *)
Steady ==
  /\ ran \subseteq ran'
  /\ \A c \in AllCommands :
       /\ Sent(c) => Sent(c)' /\ command'[c].queue = command[c].queue
       /\ Settled(c) => Settled(c)'
       /\ Complete(c) => Complete(c)'
       /\ Covered(c) => Covered(c)'
  /\ \A d, c \in AllCommands : Upto(d, c) => Upto(d, c)'

(* A command keeps what it is once it is submitted, and its place in a list
   if it is not the open end x of one. *)
LiveKept(x) ==
  \A c \in AllCommands : Live(c) =>
    /\ Live(c)'
    /\ command'[c].kind = command[c].kind /\ command'[c].queue = command[c].queue
    /\ Sent(c) => command'[c].batchHead = command[c].batchHead
    /\ c # x => command'[c].next = command[c].next

SamePackets == ran' = ran /\ \A q \in Queues : queue'[q].ring = queue[q].ring

LEMMA PacketsSame ==
  ASSUME SamePackets
  PROVE  /\ \A q \in Queues : \A c : InRing(q, c)' <=> InRing(q, c)
         /\ \A c : Sent(c)' <=> Sent(c)
         /\ \A d, c : Upto(d, c)' <=> Upto(d, c)
<1>1. \A q \in Queues : \A c : InRing(q, c)' <=> InRing(q, c) BY DEF SamePackets, InRing
<1>2. \A c : Sent(c)' <=> Sent(c) BY <1>1 DEF SamePackets, Sent
<1>3. \A d, c : Upto(d, c)' <=> Upto(d, c) BY DEF SamePackets, Upto
<1> QED BY <1>1, <1>2, <1>3

(* A step that neither sends nor runs a packet, and keeps the signals. *)
LEMMA SteadyStep ==
  ASSUME IInv, SamePackets,
         \A c \in AllCommands :
           /\ Live(c) => /\ command'[c].kind = command[c].kind
                         /\ command'[c].queue = command[c].queue
           /\ Complete(c) => Complete(c)'
           /\ command'[c].hwEvent = command[c].hwEvent
           /\ command'[c].notifyEvent = command[c].notifyEvent
  PROVE  Steady
<1>1. Types /\ RingInv /\ CommandInv BY DEF IInv
<1>2. /\ ran' = ran /\ \A c : Sent(c)' <=> Sent(c)
      /\ \A d, c : Upto(d, c)' <=> Upto(d, c)
  BY PacketsSame DEF SamePackets
<1>3. \A c \in AllCommands : Sent(c) => command'[c].queue = command[c].queue BY <1>1, SentFacts
<1>4. \A c \in AllCommands : Settled(c) => Settled(c)'
  BY <1>1, <1>2, SentFacts DEF Settled, Live, Complete
<1>5. \A c \in AllCommands : HwEvent(c)' = HwEvent(c)
  <2> TAKE c \in AllCommands
  <2>1. command[c].notifyEvent # None => command[c].notifyEvent \in AllCommands
    BY <1>1 DEF Types, CommandObject, Optional
  <2> QED BY <2>1 DEF HwEvent
<1>6. \A c \in AllCommands : Covered(c) => Covered(c)' BY <1>2, <1>5 DEF Covered
<1> QED BY <1>2, <1>3, <1>4, <1>6 DEF Steady

(* The thread that submits or walks holds a command that is submitted. *)
LEMMA CurrentFacts ==
  ASSUME IInv, NEW t \in Clients
  PROVE  /\ pc[t] \in {"submit", "complete", "advance", "reset"} =>
               /\ Current(t) \in AllCommands /\ Live(Current(t)) /\ Here(t) \in Queues
               /\ execution[Here(t)] = t
         /\ my[t].marker = None => Current(t) = my[t].cmd
         /\ my[t].marker # None => Current(t) = my[t].marker
<1>1. /\ Types /\ RingInv /\ CommandInv /\ LockInv /\ WalkInv(t) /\ t \in Threads
      /\ Shape(t) /\ OwnCommand(t) /\ OwnMarker(t)
  BY DEF IInv, Threads
<1>2. ASSUME pc[t] \in {"submit", "complete", "advance", "reset"}
      PROVE  Current(t) \in AllCommands /\ Live(Current(t))
  <2>1. CASE my[t].marker = None
    <3>1. pc[t] \in {"submit", "reset"} /\ At(t) = pc[t] /\ Current(t) = my[t].cmd
      BY <1>1, <1>2, <2>1 DEF Shape, At, Current
    <3>2. my[t].cmd \in Commands BY <1>1, <3>1 DEF OwnCommand
    <3> QED BY <1>1, <3>1, <3>2, MarkerFacts, SentFacts DEF OwnCommand, Live
  <2>2. CASE my[t].marker # None /\ pc[t] \in {"submit", "reset"}
    <3>1. Current(t) \in AllCommands BY <1>1, <2>2, MarkerFacts DEF OwnMarker, Current
    <3> QED BY <1>1, <2>2, <3>1, SentFacts DEF OwnMarker, Current, Settled, Complete, Live
  <2>3. CASE pc[t] \in {"complete", "advance"} BY <1>1, <2>3 DEF WalkInv, List, Live
  <2> QED BY <1>2, <2>1, <2>2, <2>3
<1>3. pc[t] \in {"submit", "complete", "advance", "reset"} => Here(t) \in Queues /\ execution[Here(t)] = t
  BY <1>1 DEF LockInv, HoldsExec
<1> QED BY <1>2, <1>3 DEF Current

----------------------------------------
(* What a step of somebody else leaves of a client's call, of a queue, of a
   marker and of a list that is walked. *)
LEMMA ClientStays ==
  ASSUME IInv, Steady, NEW u \in Clients, pc'[u] = pc[u], my'[u] = my[u],
         created' \in Nat, created <= created',
         my[u].cmd # None =>
           /\ command'[my[u].cmd].kind = command[my[u].cmd].kind
           /\ command'[my[u].cmd].queue = command[my[u].cmd].queue
           /\ command'[my[u].cmd].waits = command[my[u].cmd].waits
           /\ ~Sent(my[u].cmd) => ~Sent(my[u].cmd)'
                                  /\ command'[my[u].cmd].status = command[my[u].cmd].status
           /\ Sent(my[u].cmd) => command'[my[u].cmd].status # "new",
         my[u].marker # None =>
           /\ command'[my[u].marker].kind = command[my[u].marker].kind
           /\ command'[my[u].marker].queue = command[my[u].marker].queue
           /\ ~Sent(my[u].marker) => ~Sent(my[u].marker)'
           /\ ~Settled(my[u].marker) =>
                command'[my[u].marker].status = command[my[u].marker].status
           /\ command'[my[u].event].notified /\ notifyLock'[my[u].event] = u
           /\ \A q \in Queues : q = command[my[u].marker].queue /\ execution[q] = u =>
                (queue[q].ring = <<>> => queue'[q].ring = <<>>)
  PROVE  Shape(u)' /\ OwnCommand(u)' /\ OwnMarker(u)' /\ DueOf(u)'
<1>1. /\ Types /\ RingInv /\ CommandInv /\ LockInv /\ u \in Threads
      /\ Shape(u) /\ OwnCommand(u) /\ OwnMarker(u) /\ DueOf(u)
  BY DEF IInv, Threads
<1>2. At(u)' = At(u) BY DEF At
<1>3. /\ my[u].event # None => my[u].event \in AllCommands
      /\ my[u].held # None => my[u].held \in AllCommands
      /\ my[u].cmd # None => my[u].cmd \in AllCommands
      /\ my[u].todo \subseteq AllCommands /\ my[u].due \subseteq AllCommands
      /\ \A c \in AllCommands : command[c].waits \subseteq AllCommands
  BY <1>1, TypeFacts
<1>4. Shape(u)' BY <1>1, <1>2, <1>3 DEF Shape, Steady
<1>5. OwnCommand(u)'
  <2>1. PICK c, h, e : c = my[u].cmd /\ h = my[u].held /\ e = my[u].event OBVIOUS
  <2>2. h # None => (Sent(h) => Sent(h)') /\ (Settled(h) => Settled(h)') /\ (Complete(h) => Complete(h)')
    BY <1>3, <2>1 DEF Steady
  <2>3. c # None => /\ command'[c].kind = command[c].kind /\ command'[c].queue = command[c].queue
                    /\ command'[c].waits = command[c].waits
                    /\ Sent(c) <=> Sent(c)'
                    /\ ~Sent(c) => command'[c].status = command[c].status
                    /\ Sent(c) => command'[c].status # "new"
                    /\ \A d \in command[c].waits : Covered(d) => Covered(d)'
    BY <1>3, <2>1 DEF Steady
  <2>4. c # None => (c <= created => c <= created') BY <1>1, <2>1 DEF OwnCommand, Types, Commands
  <2>5. c # None => /\ command[c].status = "new" => ~Sent(c)
                    /\ command[c].status = "queued" => ~Sent(c)
    BY <1>1, <1>3, <2>1, SentFacts DEF Live
  <2> HIDE DEF Covered
  <2> QED BY <1>1, <1>2, <2>1, <2>2, <2>3, <2>4, <2>5 DEF OwnCommand
<1>6. OwnMarker(u)'
  <2>1. SUFFICES ASSUME my[u].marker # None PROVE OwnMarker(u)' BY DEF OwnMarker
  <2>2. PICK m, e : m = my[u].marker /\ e = my[u].event OBVIOUS
  <2>3. e \in Commands /\ e \in AllCommands /\ m = NotifyMarker(e) /\ m \in AllCommands
    BY <1>1, <2>1, <2>2, MarkerFacts DEF OwnMarker
  <2>4. /\ Sent(e)' /\ (e \in ran => e \in ran') /\ (Settled(m) => Settled(m)')
        /\ (Sent(m) <=> Sent(m)')
    BY <1>1, <2>1, <2>2, <2>3 DEF OwnMarker, Steady
  <2>5. ASSUME pc[u] \in {"complete", "advance", "reset"}
        PROVE  queue[command[m].queue].ring = <<>> => queue'[command[m].queue].ring = <<>>
    <3>1. Here(u) = command[m].queue /\ Here(u) \in Queues /\ execution[Here(u)] = u
      BY <2>1, <2>2, <2>5, CurrentFacts DEF Here
    <3> QED BY <2>1, <2>2, <3>1
  <2>6. pc[u] = "form" => command'[m].status = "queued"
    <3>1. pc[u] = "form" => command[m].status = "queued" /\ ~Settled(m)
      BY <1>1, <2>1, <2>2, <2>3, SentFacts DEF OwnMarker, Settled, Complete, Live
    <3> QED BY <2>1, <2>2, <3>1
  <2>7. pc[u] = "submit" => command'[m].status = "submitted" /\ ~Sent(m)'
    <3>1. pc[u] = "submit" => command[m].status = "submitted" /\ ~Settled(m) /\ ~Sent(m)
      BY <1>1, <2>1, <2>2, <2>3 DEF OwnMarker, Settled, Complete
    <3> QED BY <2>1, <2>2, <3>1
  <2> QED BY <1>1, <2>1, <2>2, <2>3, <2>4, <2>5, <2>6, <2>7 DEF OwnMarker
<1>7. DueOf(u)'
  <2>1. ASSUME NEW d \in my[u].due, NEW c \in Optional
        PROVE  /\ Sent(d)' /\ command'[d].queue = my[u].on
               /\ c # None => (Upto(d, c) => Upto(d, c)')
               /\ d \in ran => d \in ran'
    <3>1. Sent(d) /\ command[d].queue = my[u].on /\ d \in AllCommands BY <1>1, <1>3 DEF DueOf
    <3> QED BY <3>1 DEF Steady, Optional
  <2>2. my[u].cmd \in Optional /\ my[u].held \in Optional BY <1>1, TypeFacts
  <2>3. /\ At(u) \in {"reset", "unlock", "enqueued"} => my[u].cmd # None
        /\ At(u) \in {"fence", "hwWait", "await", "sleep", "clear"} => my[u].held # None
    BY <1>1 DEF OwnCommand
  <2> QED BY <1>1, <1>2, <2>1, <2>2, <2>3 DEF DueOf
<1> QED BY <1>4, <1>5, <1>6, <1>7

LEMMA BatchStays ==
  ASSUME IInv, Steady, NEW q \in Queues, NEW x, LiveKept(x), x # None => command[x].queue # q,
         queue'[q].head = queue[q].head, queue'[q].tail = queue[q].tail,
         \A t \in Clients :
           execution[q] = t /\ pc[t] \in {"submit", "complete", "advance", "reset"} =>
             execution'[q] = t /\ pc'[t] = pc[t] /\ my'[t] = my[t]
  PROVE  BatchInv(q)'
<1>1. Types /\ RingInv /\ CommandInv /\ BatchInv(q) BY DEF IInv
<1>2. PICK h, e : h = queue[q].head /\ e = queue[q].tail OBVIOUS
<1>3. SUFFICES ASSUME h # None PROVE BatchInv(q)' BY <1>2 DEF BatchInv
<1>4. /\ e \in AllCommands
      /\ Closing(e) \/ ~Sent(e) =>
           \E t \in Clients : /\ execution[q] = t /\ e = Current(t)
                              /\ pc[t] \in {"submit", "complete", "advance", "reset"}
  BY <1>1, <1>2, <1>3 DEF BatchInv
<1>5. PICK B \in SUBSET AllCommands :
         /\ h \in B /\ List(B, e)
         /\ \A d \in B : command[d].queue = q /\ Live(d)
         /\ \A d \in B : d # e => Sent(d)
  BY <1>1, <1>2, <1>3 DEF BatchInv, Live
<1>6. \A d \in B : /\ command'[d].queue = q /\ Live(d)' /\ command'[d].kind = command[d].kind
                   /\ command'[d].next = command[d].next /\ (Sent(d) => Sent(d)')
  <2>1. None \notin AllCommands BY DirectDispatchAssumption DEF AllCommands
  <2>2. x \notin B BY <1>5, <2>1
  <2> QED BY <1>5, <2>2 DEF LiveKept, Steady
<1>7. List(B, e)' BY <1>5, <1>6 DEF List
<1>8. ASSUME Closing(e)' \/ ~Sent(e)'
      PROVE  \E t \in Clients : /\ execution'[q] = t /\ e = Current(t)'
                                /\ pc'[t] \in {"submit", "complete", "advance", "reset"}
  <2>1. Closing(e) \/ ~Sent(e) BY <1>5, <1>6, <1>8 DEF Closing, List
  <2> QED BY <1>4, <2>1 DEF Current
<1> QED BY <1>2, <1>3, <1>4, <1>5, <1>6, <1>7, <1>8 DEF BatchInv, Live

LEMMA LastOkStays ==
  ASSUME IInv, Steady, NEW q \in Queues, NEW x, LiveKept(x), LastOk(q),
         queue'[q].last = queue[q].last, queue'[q].open = queue[q].open,
         queue[q].ring = <<>> => queue'[q].ring = <<>>,
         \A c : InRing(q, c)' => InRing(q, c)
  PROVE  LastOk(q)'
<1>1. Types /\ RingInv /\ CommandInv BY DEF IInv
<1>2. PICK c : c = queue[q].last OBVIOUS
<1>3. c \in Optional BY <1>1, <1>2 DEF Types, QueueObject
<1>4. ASSUME c # None
      PROVE  /\ command'[c].queue = q /\ Settled(c)'
             /\ \A d : InRing(q, d)' => Upto(d, c)'
  <2>1. c \in AllCommands /\ Settled(c) /\ command[c].queue = q BY <1>2, <1>3, <1>4 DEF LastOk, Optional
  <2>2. Live(c) BY <1>1, <2>1, SentFacts DEF Settled, Complete, Live
  <2>3. \A d : InRing(q, d) => d \in AllCommands /\ Upto(d, c)
    BY <1>1, <1>2, <1>4, SentFacts DEF LastOk, InRing
  <2> QED BY <2>1, <2>2, <2>3 DEF Steady, LiveKept
<1>5. PICK r : r = queue'[q].ring OBVIOUS
<1>6. \A i \in DOMAIN r : InRing(q, r[i])' BY <1>5 DEF InRing
<1>7. c # None => \A i \in DOMAIN r : Upto(r[i], c)' BY <1>4, <1>6
<1>8. c = None /\ queue[q].open => r = <<>> BY <1>2, <1>5 DEF LastOk
<1> QED BY <1>2, <1>4, <1>5, <1>7, <1>8 DEF LastOk

LEMMA LastStays ==
  ASSUME IInv, Steady, NEW q \in Queues, NEW x, LiveKept(x),
         queue'[q].last = queue[q].last, queue'[q].open = queue[q].open,
         queue'[q].head = queue[q].head, queue'[q].tail = queue[q].tail,
         queue[q].ring = <<>> => queue'[q].ring = <<>>,
         \A c : InRing(q, c)' => InRing(q, c),
         \A t \in Clients :
           execution[q] = t /\ pc[t] \in {"submit", "complete", "advance"} =>
             execution'[q] = t /\ pc'[t] = pc[t] /\ my'[t] = my[t],
         \A t \in Clients :
           execution'[q] = t /\ pc'[t] = "submit" => execution[q] = t /\ pc[t] = "submit"
  PROVE  LastInv(q)'
<1>1. Types /\ RingInv /\ CommandInv /\ LastInv(q) BY DEF IInv
<1>0. SubmitOk(q)'
  <2> SUFFICES ASSUME NEW t \in Clients, execution'[q] = t, pc'[t] = "submit"
               PROVE  /\ queue'[q].head # None /\ queue'[q].tail = Current(t)'
                      /\ queue'[q].last = Current(t)' \/ (queue'[q].last = None /\ ~queue'[q].open)
    BY DEF SubmitOk
  <2>1. Current(t)' = Current(t) BY DEF Current
  <2> QED BY <1>1, <2>1 DEF LastInv, SubmitOk
<1>2. CASE LastOk(q) BY <1>0, <1>2, LastOkStays DEF LastInv
<1>3. CASE ~LastOk(q)
  <2>1. PICK t \in Clients : /\ execution[q] = t /\ Here(t) = q /\ queue[q].last = Current(t)
                             /\ pc[t] \in {"submit", "complete", "advance"}
    BY <1>1, <1>3 DEF LastInv
  <2>2. Current(t)' = Current(t) /\ Live(Current(t)) /\ Current(t) \in AllCommands
    BY <2>1, CurrentFacts DEF Current
  <2>3. Here(t)' = q BY <2>1, <2>2 DEF Here, LiveKept
  <2> QED BY <1>0, <2>1, <2>2, <2>3 DEF LastInv
<1> QED BY <1>2, <1>3

LEMMA ArmedStays ==
  ASSUME IInv, Steady, NEW x, LiveKept(x), x # None => command[x].next = None /\ ~Closing(x),
         NEW m \in armed
  PROVE  ArmedInv(m)'
<1>1. Types /\ RingInv /\ CommandInv /\ ArmedInv(m) /\ m \in AllCommands BY DEF IInv, Types
<1>2. PICK B \in SUBSET AllCommands : /\ command[m].batchHead \in B /\ List(B, m)
                                      /\ \A d \in B : Upto(d, m)
  BY <1>1 DEF ArmedInv
<1>3. Sent(m) /\ Closing(m) /\ command[m].batchHead # None /\ Live(m) BY <1>1, SentFacts DEF ArmedInv
<1>4. \A d \in B : Live(d) /\ Upto(d, m)' BY <1>1, <1>2, SentFacts DEF Steady
<1>5. x \notin B
  <2>1. \A d \in B : d # m => command[d].next # None
    BY <1>2, DirectDispatchAssumption DEF List, AllCommands
  <2> QED BY <1>2, <1>3, <2>1, DirectDispatchAssumption DEF AllCommands
<1>6. \A d \in B : command'[d].next = command[d].next BY <1>4, <1>5 DEF LiveKept
<1>7. List(B, m)' BY <1>2, <1>6 DEF List
<1>8. Sent(m)' /\ Closing(m)' /\ command'[m].batchHead = command[m].batchHead
  BY <1>1, <1>3 DEF Steady, LiveKept, Closing
<1> QED BY <1>2, <1>3, <1>4, <1>7, <1>8 DEF ArmedInv

LEMMA WalkStays ==
  ASSUME IInv, Steady, NEW x, LiveKept(x), x # None => command[x].next = None /\ ~Closing(x),
         NEW t \in Threads, pc'[t] = pc[t], my'[t] = my[t],
         \A q \in Queues : execution[q] = t =>
            queue'[q].head = queue[q].head /\ queue'[q].tail = queue[q].tail
  PROVE  WalkInv(t)'
<1>1. Types /\ RingInv /\ CommandInv /\ WalkInv(t) BY DEF IInv
<1>2. SUFFICES ASSUME pc[t] \in {"complete", "advance"} PROVE WalkInv(t)' BY DEF WalkInv
<1>3. PICK B \in SUBSET AllCommands, end \in AllCommands :
         /\ my[t].cursor \in B /\ List(B, end) /\ Closing(end)
         /\ t \in Clients => end = Current(t) /\ queue[Here(t)].tail = end /\ queue[Here(t)].head # None
         /\ \A d \in B : d \in ran \/ (t \in Clients /\ d = end /\ command[d].kind = "cpuWait")
         /\ \A d \in B : Live(d)
         /\ pc[t] = "advance" => Complete(my[t].cursor)
  BY <1>1, <1>2 DEF WalkInv, Live
<1>4. x \notin B
  <2>1. \A d \in B : d # end => command[d].next # None
    BY <1>3, DirectDispatchAssumption DEF List, AllCommands
  <2> QED BY <1>3, <2>1, DirectDispatchAssumption DEF AllCommands
<1>5. \A d \in B : /\ command'[d].next = command[d].next /\ command'[d].kind = command[d].kind
                   /\ command'[d].queue = command[d].queue
                   /\ Live(d)' /\ (d \in ran => d \in ran') /\ (Complete(d) => Complete(d)')
  BY <1>3, <1>4 DEF LiveKept, Steady
<1>6. List(B, end)' /\ Closing(end)' BY <1>3, <1>5 DEF List, Closing
<1>7. t \in Clients => end = Current(t)' /\ queue'[Here(t)'].tail = end /\ queue'[Here(t)'].head # None
  <2>1. SUFFICES ASSUME t \in Clients
                 PROVE  end = Current(t)' /\ queue'[Here(t)'].tail = end /\ queue'[Here(t)'].head # None
    OBVIOUS
  <2>2. Here(t) \in Queues /\ execution[Here(t)] = t BY <1>2, <2>1, CurrentFacts
  <2>3. Current(t)' = Current(t) BY DEF Current
  <2>4. Here(t)' = Here(t) BY <1>3, <1>5, <2>1, <2>3 DEF Here, List
  <2> QED BY <1>3, <2>1, <2>2, <2>3, <2>4
<1> QED BY <1>3, <1>5, <1>6, <1>7 DEF WalkInv, Live

(* What a step leaves of a command whose packet it neither sends nor runs,
   and of an event and its marker. *)
LEMMA CommandStays ==
  ASSUME IInv, Steady, NEW c \in AllCommands, created' \in Nat, created <= created',
         Sent(c)' <=> Sent(c), c \in ran' <=> c \in ran,
         command'[c].kind = command[c].kind, command'[c].queue = command[c].queue,
         command'[c].waits = command[c].waits, command'[c].deps = command[c].deps,
         command'[c].hwEvent = command[c].hwEvent,
         c \notin Commands => command'[c].notifyEvent = command[c].notifyEvent,
         \/ command'[c].status = command[c].status /\ command'[c].next = command[c].next
         \/ Live(c) /\ Live(c)',
         Complete(c)' /\ ~Complete(c) => command[c].kind = "cpuWait" \/ c \in ran,
         c \in handles' => c \in handles \/ (Sent(c) /\ command[c].kind = "record")
  PROVE  Before(c)' /\ After(c)'
<1>1. Types /\ RingInv /\ CommandInv /\ Before(c) /\ After(c) BY DEF IInv, CommandInv
<1>2. /\ command[c].waits \subseteq AllCommands /\ command[c].deps \subseteq AllCommands
      /\ created \in Nat
  BY <1>1, DirectDispatchAssumption DEF Types, CommandObject
<1>3. Before(c)' BY <1>1, <1>2 DEF Before, Live, Commands
<1>4. /\ \A e \in command[c].waits : (Sent(e) => Sent(e)') /\ (e \in ran => e \in ran')
      /\ \A e \in command[c].waits, s \in command[c].deps : Upto(e, s) => Upto(e, s)'
  BY <1>2 DEF Steady
<1>5. Complete(c)' /\ command[c].kind # "cpuWait" => c \in ran BY <1>1 DEF After
<1>6. (command'[c].hwEvent <=> Sent(c)' /\ command'[c].kind # "work") BY <1>1, Zenon DEF After
<1>7. After(c)' BY <1>1, <1>4, <1>5, <1>6 DEF After
<1> QED BY <1>3, <1>7

LEMMA PairingStays ==
  ASSUME IInv, Steady, NEW e \in Commands,
         NotifyMarker(e) \in AllCommands, e \in AllCommands,
         command'[e].notified = command[e].notified,
         command'[e].notifyEvent = command[e].notifyEvent,
         command[e].notified => (command'[e].hwEvent <=> command[e].hwEvent),
         notifyLock'[e] = notifyLock[e],
         command'[NotifyMarker(e)].status = "new" <=> command[NotifyMarker(e)].status = "new",
         command[NotifyMarker(e)].status # "new" =>
           /\ command'[NotifyMarker(e)].kind = command[NotifyMarker(e)].kind
           /\ command'[NotifyMarker(e)].queue = command[NotifyMarker(e)].queue,
         Sent(NotifyMarker(e))' => Sent(NotifyMarker(e)) \/ Upto(e, NotifyMarker(e))'
  PROVE  Pairing(e)'
<1>1. Pairing(e) BY DEF IInv, CommandInv
<1>2. PICK m : m = NotifyMarker(e) OBVIOUS
<1>3. /\ Sent(e) => Sent(e)' /\ command'[e].queue = command[e].queue
      /\ Sent(m) => Sent(m)'
      /\ Upto(e, m) => Upto(e, m)'
      /\ e \in ran => e \in ran'
  BY <1>2 DEF Steady
<1>4. ASSUME ~command'[e].notified
      PROVE  command'[m].status = "new" /\ command'[e].notifyEvent = None /\ notifyLock'[e] = None
  BY <1>1, <1>2, <1>4 DEF Pairing
<1>5. ASSUME command'[e].notified
      PROVE  /\ Sent(e)' /\ ~command'[e].hwEvent
             /\ command'[m].status # "new" /\ command'[m].queue = command'[e].queue
             /\ command'[e].notifyEvent \in {None, m}
  BY <1>1, <1>2, <1>3, <1>5 DEF Pairing
<1>6. ASSUME command'[e].notified, notifyLock'[e] = None
      PROVE  e \in ran' \/ (command'[e].notifyEvent = m /\ Sent(m)' /\ command'[m].kind = "marker")
  BY <1>1, <1>2, <1>3, <1>5, <1>6 DEF Pairing
<1>7. Sent(m)' => Upto(e, m)' BY <1>1, <1>2, <1>3 DEF Pairing
<1> QED BY <1>2, <1>4, <1>5, <1>6, <1>7 DEF Pairing

----------------------------------------
(* A step of a call that sends nothing and leaves the queues alone: it may
   create command x, and change what is between event y and its marker. *)
Busy == {"submit", "complete", "advance", "reset"}

(* The lock of a queue's virtual device stays where it is. *)
LockSame(t) ==
  /\ execution' = execution
  /\ HoldsExec(t)' <=> HoldsExec(t)
  /\ HoldsExec(t) => Here(t)' = Here(t)

(* The call goes on, or returns, or is a new one on an open queue. *)
PlaceKept(t) ==
  \/ my'[t].on = my[t].on /\ my'[t].op = my[t].op /\ pc[t] # "finished"
  \/ my'[t] = AtHome
  \/ /\ pc[t] = "idle" /\ my'[t].on \in Queues /\ Open(my'[t].on)
     /\ my'[t].op = "terminate" =>
          pc'[t] # "finished" /\ \A u \in Clients \ {t} : my[u].on # my'[t].on

LEMMA PlaceStays ==
  ASSUME IInv, NEW t \in Clients, PlaceKept(t),
         \A q \in Queues : queue'[q].open = queue[q].open,
         \A u \in Clients : u # t => pc'[u] = pc[u] /\ my'[u] = my[u]
  PROVE  OpenInv'
<1>1. /\ OpenInv /\ Types /\ Threads = Clients \cup {Handler}
      /\ \A u \in Clients : Shape(u) /\ my[u].on \in Queues \cup {None}
  BY TypeFacts DEF IInv, Threads
<1>2. ASSUME NEW u \in Clients, my'[u].on # None, my'[u].op # "terminate" \/ pc'[u] # "finished"
      PROVE  queue'[my'[u].on].open
  <2>1. CASE u # t \/ (my'[t].on = my[t].on /\ my'[t].op = my[t].op /\ pc[t] # "finished")
    <3>1. my[u].on \in Queues /\ my'[u].on = my[u].on BY <1>1, <1>2, <2>1
    <3>2. queue[my[u].on].open BY <1>1, <1>2, <2>1, <3>1 DEF OpenInv
    <3> QED BY <3>1, <3>2
  <2>2. CASE u = t /\ my'[t] = AtHome BY <1>2, <2>2 DEF AtHome
  <2>3. CASE u = t /\ pc[t] = "idle" /\ my'[t].on \in Queues /\ Open(my'[t].on) BY <2>3 DEF Open
  <2> QED BY <2>1, <2>2, <2>3 DEF PlaceKept
<1>3. ASSUME NEW u \in Clients, NEW v \in Clients, u # v,
             my'[u].op = "terminate", my'[v].on = my'[u].on
      PROVE  FALSE
  <2>1. \A w \in Clients : w = t \/ (my'[w].on = my[w].on /\ my'[w].op = my[w].op) BY <1>3
  <2>2. CASE my'[t].on = my[t].on /\ my'[t].op = my[t].op BY <1>1, <1>3, <2>1, <2>2 DEF OpenInv
  <2>3. CASE my'[t] = AtHome
    <3>1. my'[t].on = None /\ my'[t].op = "none" BY <2>3 DEF AtHome
    <3>2. \A w \in Clients : my[w].op = "terminate" => my[w].on \in Queues /\ my[w].on # None
      BY <1>1, DirectDispatchAssumption DEF Shape, AtHome
    <3>3. v = t \/ u = t BY <1>1, <1>3, <2>1 DEF OpenInv
    <3> QED BY <1>3, <2>1, <3>1, <3>2, <3>3
  <2>4. CASE /\ Open(my'[t].on)
             /\ my'[t].op = "terminate" => \A w \in Clients \ {t} : my[w].on # my'[t].on
    <3>1. CASE u = t BY <1>3, <2>1, <2>4, <3>1
    <3>2. CASE u # t /\ v = t BY <1>3, <2>1, <2>4, <3>2 DEF Open
    <3>3. CASE u # t /\ v # t BY <1>1, <1>3, <2>1, <3>3 DEF OpenInv
    <3> QED BY <3>1, <3>2, <3>3
  <2> QED BY <2>2, <2>3, <2>4 DEF PlaceKept
<1> QED BY <1>2, <1>3 DEF OpenInv

LEMMA LocksStay ==
  ASSUME IInv, NEW t \in Clients, LockSame(t),
         \A u \in Clients : u # t => pc'[u] = pc[u] /\ my'[u] = my[u],
         \A u \in Clients : u # t /\ HoldsExec(u) => Here(u)' = Here(u),
         \A e \in AllCommands : \A u \in Clients :
            u # t => (notifyLock'[e] = u <=> notifyLock[e] = u),
         \A e \in AllCommands : notifyLock'[e] = t => my'[t].marker # None /\ my'[t].event = e,
         \A u \in Clients : u # t /\ my'[t].cmd # None => my[u].cmd # my'[t].cmd
  PROVE  LockInv'
<1>1. LockInv BY DEF IInv
<1>2. \A u \in Clients : /\ HoldsExec(u)' <=> HoldsExec(u)
                         /\ HoldsExec(u) => Here(u)' = Here(u)
  BY DEF LockSame, HoldsExec
<1>3. \A u \in Clients : HoldsExec(u)' => Here(u)' \in Queues /\ execution'[Here(u)'] = u
  BY <1>1, <1>2 DEF LockInv, LockSame
<1>4. \A q \in Queues, u \in Clients : execution'[q] = u => HoldsExec(u)' /\ Here(u)' = q
  BY <1>1, <1>2 DEF LockInv, LockSame
<1>5. \A e \in AllCommands, u \in Clients :
         notifyLock'[e] = u => my'[u].marker # None /\ my'[u].event = e
  BY <1>1 DEF LockInv
<1>6. \A u, v \in Clients : my'[u].cmd # None /\ my'[u].cmd = my'[v].cmd => u = v BY <1>1 DEF LockInv
<1> QED BY <1>3, <1>4, <1>5, <1>6 DEF LockInv

(* Whoever holds execution() does so for a command that exists. *)
LEMMA HolderFacts ==
  ASSUME IInv, NEW t \in Clients
  PROVE  /\ HoldsExec(t) => /\ Current(t) \in AllCommands /\ command[Current(t)].status # "new"
                            /\ Here(t) \in Queues /\ execution[Here(t)] = t
         /\ my[t].marker # None => /\ my[t].marker \in AllCommands /\ my[t].marker \notin Commands
                                   /\ command[my[t].marker].status # "new"
                                   /\ my[t].event \in Commands
                                   /\ command[my[t].event].notified
                                   /\ notifyLock[my[t].event] = t
                                   /\ command[my[t].marker].queue = command[my[t].event].queue
                                   /\ my[t].marker = NotifyMarker(my[t].event)
         /\ my[t].cmd # None => my[t].cmd \in Commands /\ my[t].cmd \in AllCommands
                                /\ my[t].cmd <= created
<1>1. /\ Types /\ CommandInv /\ LockInv /\ t \in Threads
      /\ Shape(t) /\ OwnCommand(t) /\ OwnMarker(t)
  BY DEF IInv, Threads
<1>2. my[t].cmd # None => my[t].cmd \in Commands /\ my[t].cmd \in AllCommands /\ my[t].cmd <= created
  BY <1>1, MarkerFacts DEF OwnCommand
<1>3. ASSUME my[t].marker # None
      PROVE  /\ my[t].marker \in AllCommands /\ my[t].marker \notin Commands
             /\ command[my[t].marker].status # "new"
             /\ my[t].event \in Commands
             /\ command[my[t].event].notified
             /\ notifyLock[my[t].event] = t
             /\ command[my[t].marker].queue = command[my[t].event].queue
             /\ my[t].marker = NotifyMarker(my[t].event)
  <2>1. /\ my[t].event \in Commands /\ my[t].marker = NotifyMarker(my[t].event)
        /\ command[my[t].event].notified /\ notifyLock[my[t].event] = t
    BY <1>1, <1>3 DEF OwnMarker
  <2>2. Pairing(my[t].event) BY <1>1, <2>1 DEF CommandInv
  <2> QED BY <2>1, <2>2, MarkerFacts DEF Pairing
<1>4. ASSUME HoldsExec(t)
      PROVE  Current(t) \in AllCommands /\ command[Current(t)].status # "new"
  <2>1. CASE my[t].marker # None BY <1>3, <2>1 DEF Current
  <2>2. CASE my[t].marker = None
    <3>1. At(t) \in {"submit", "reset", "unlock"} BY <1>1, <1>4, <2>2 DEF HoldsExec, Shape, At
    <3>2. my[t].cmd # None /\ command[my[t].cmd].status # "new" BY <1>1, <3>1 DEF OwnCommand
    <3> QED BY <1>2, <2>2, <3>2 DEF Current
  <2> QED BY <2>1, <2>2
<1>5. HoldsExec(t) => Here(t) \in Queues /\ execution[Here(t)] = t BY <1>1 DEF LockInv
<1> QED BY <1>2, <1>3, <1>4, <1>5

(* What a step does not touch of a command. *)
Kept(c) ==
  /\ command'[c].kind = command[c].kind /\ command'[c].queue = command[c].queue
  /\ command'[c].waits = command[c].waits /\ command'[c].status = command[c].status
  /\ command'[c].next = command[c].next /\ command'[c].deps = command[c].deps
  /\ command'[c].hwEvent = command[c].hwEvent /\ command'[c].batchHead = command[c].batchHead

(* The step creates x, if x is a command, and no other. *)
Creates(t, x) ==
  /\ \A c \in AllCommands : c # x => Kept(c)
  /\ x \in AllCommands => /\ command[x].status = "new" /\ Before(x)' /\ After(x)'
                          /\ \A u \in Clients : u # t => my[u].cmd # x

(* It works on the pair of event y and its marker, and on no other. *)
Between(t, x, y) ==
  /\ \A c \in AllCommands : c # y => /\ command'[c].notified = command[c].notified
                                     /\ command'[c].notifyEvent = command[c].notifyEvent
                                     /\ notifyLock'[c] = notifyLock[c]
  /\ y \in AllCommands => /\ y \in Commands /\ command'[y].notified /\ Pairing(y)'
                          /\ notifyLock[y] \in {None, t} /\ notifyLock'[y] \in {None, t}
                          /\ notifyLock'[y] = t => my'[t].marker # None /\ my'[t].event = y
  /\ my[t].event \in AllCommands /\ notifyLock[my[t].event] = t /\ my[t].event # y =>
       my'[t].marker = my[t].marker /\ my'[t].event = my[t].event
  /\ \A e \in Commands : NotifyMarker(e) = x => e = y

LEMMA CallStep ==
  ASSUME IInv, NEW t \in Clients, Types', Steady,
         queue' = queue, armed' = armed, ran' = ran, created <= created',
         pc[t] \notin Busy, pc'[t] \notin Busy,
         \A u \in Threads : u # t => pc'[u] = pc[u] /\ my'[u] = my[u],
         LockSame(t), PlaceKept(t), Client(t)',
         \A u \in Clients : u # t /\ my'[t].cmd # None => my[u].cmd # my'[t].cmd,
         \A c \in AllCommands : c \in handles' => c \in handles \/ (Sent(c) /\ command[c].kind = "record"),
         NEW x, NEW y, Creates(t, x), Between(t, x, y)
  PROVE  IInv'
<1> USE DEF Creates, Between
<1>1. /\ Types /\ RingInv /\ CommandInv /\ LockInv /\ t \in Threads
      /\ \A c \in AllCommands : Before(c) /\ After(c)
      /\ \A e \in Commands : Pairing(e)
      /\ created \in Nat /\ created' \in Nat
  BY DirectDispatchAssumption DEF IInv, CommandInv, Threads, Types
<1>2. SamePackets BY DEF SamePackets
<1>3. /\ \A c : Sent(c)' <=> Sent(c)
      /\ \A q \in Queues : \A c : InRing(q, c)' <=> InRing(q, c)
      /\ \A d, c : Upto(d, c)' <=> Upto(d, c)
  BY <1>2, PacketsSame
<1>4. \A u \in Clients : u # t => pc'[u] = pc[u] /\ my'[u] = my[u] BY DEF Threads
<1>5. RingInv'
  <2>1. \A q \in Queues : \A i \in DOMAIN queue[q].ring :
           /\ queue[q].ring[i] \in AllCommands
           /\ command'[queue[q].ring[i]].queue = q
    <3>1. \A q \in Queues : \A i \in DOMAIN queue[q].ring :
             Sent(queue[q].ring[i]) /\ command[queue[q].ring[i]].queue = q
      BY <1>1 DEF Sent, InRing, RingInv
    <3> QED BY <1>1, <3>1, SentFacts DEF Steady
  <2> QED BY <1>1, <2>1 DEF RingInv
<1>6. LiveKept(None) /\ \A c \in AllCommands : c # x => (Live(c)' <=> Live(c)) BY DEF LiveKept, Kept, Live
<1>7. CommandInv'
  <2>1. ASSUME NEW c \in AllCommands, c # x PROVE Before(c)' /\ After(c)'
    <3>1. Kept(c) BY <2>1
    <3>2. c \notin Commands => command'[c].notifyEvent = command[c].notifyEvent BY <2>1
    <3> QED BY <1>1, <1>3, <3>1, <3>2, CommandStays DEF Kept, Complete
  <2>2. ASSUME NEW e \in Commands, e # y PROVE Pairing(e)'
    <3>1. e \in AllCommands /\ NotifyMarker(e) \in AllCommands /\ NotifyMarker(e) # x BY <2>2, MarkerFacts
    <3>2. Kept(NotifyMarker(e)) BY <3>1
    <3>3. command[e].notified => (command'[e].hwEvent <=> command[e].hwEvent)
      <4>1. command[e].notified => command[e].status # "new" BY <1>1, SentFacts, <3>1 DEF Pairing, Live
      <4>2. command[e].notified => e # x BY <4>1, <3>1
      <4> QED BY <3>1, <4>2 DEF Kept
    <3> QED BY <1>3, <2>2, <3>1, <3>2, <3>3, PairingStays DEF Kept
  <2> QED BY <2>1, <2>2, MarkerFacts DEF CommandInv
<1>8. \A u \in Clients : u # t /\ HoldsExec(u) => Here(u)' = Here(u)
  <2> SUFFICES ASSUME NEW u \in Clients, u # t, HoldsExec(u) PROVE Here(u)' = Here(u) OBVIOUS
  <2>1. Current(u)' = Current(u) BY <1>4 DEF Current
  <2>2. Current(u) \in AllCommands /\ Current(u) # x BY HolderFacts
  <2> QED BY <2>1, <2>2 DEF Here, Kept
<1>9. LockInv'
  <2>1. \A e \in AllCommands : \A u \in Clients : u # t => (notifyLock'[e] = u <=> notifyLock[e] = u)
    BY DirectDispatchAssumption
  <2>2. \A e \in AllCommands : notifyLock'[e] = t => my'[t].marker # None /\ my'[t].event = e
    BY <1>1 DEF LockInv
  <2> QED BY <1>4, <1>8, <2>1, <2>2, LocksStay
<1>10. OpenInv' BY <1>4, PlaceStays
<1>11. \A u \in Clients : Client(u)'
  <2> SUFFICES ASSUME NEW u \in Clients, u # t PROVE Client(u)' OBVIOUS
  <2>1. my[u].cmd # None => my[u].cmd \in AllCommands /\ Kept(my[u].cmd) BY HolderFacts
  <2>2. my[u].marker # None => my[u].marker \in AllCommands /\ Kept(my[u].marker) BY HolderFacts
  <2>3. my[u].marker # None => command'[my[u].event].notified /\ notifyLock'[my[u].event] = u
    BY HolderFacts, MarkerFacts, DirectDispatchAssumption
  <2>4. my[u].cmd # None => (Sent(my[u].cmd) => command'[my[u].cmd].status # "new")
    BY <1>1, <2>1, SentFacts DEF Kept, Live
  <2> QED BY <1>1, <1>3, <1>4, <2>1, <2>2, <2>3, <2>4, ClientStays DEF Kept, Client
<1>12. pc'[Handler] = pc[Handler] /\ Handler \in Threads BY DirectDispatchAssumption DEF Threads
<1>13. \A q \in Queues : \A u \in Clients :
          /\ execution[q] = u /\ pc[u] \in Busy => execution'[q] = u /\ pc'[u] = pc[u] /\ my'[u] = my[u]
          /\ execution'[q] = u /\ pc'[u] = "submit" => execution[q] = u /\ pc[u] = "submit"
  BY <1>4 DEF LockSame, Busy
<1>14. \A q \in Queues : BatchInv(q)' /\ LastInv(q)'
  <2> SUFFICES ASSUME NEW q \in Queues PROVE BatchInv(q)' /\ LastInv(q)' OBVIOUS
  <2>1. BatchInv(q)' BY <1>6, <1>13, BatchStays DEF Busy
  <2>2. LastInv(q)' BY <1>3, <1>6, <1>13, LastStays DEF Busy
  <2> QED BY <2>1, <2>2
<1>15. \A m \in armed' : ArmedInv(m)' BY <1>6, ArmedStays
<1>16. \A u \in Threads : WalkInv(u)'
  <2>1. WalkInv(t)' BY DEF WalkInv, Busy
  <2>2. \A u \in Threads : u # t => WalkInv(u)' BY <1>6, WalkStays
  <2> QED BY <2>1, <2>2
<1> QED BY <1>5, <1>7, <1>9, <1>10, <1>11, <1>12, <1>14, <1>15, <1>16 DEF IInv, Client

----------------------------------------
(* A step that changes no command, no queue and no lock. *)
LEMMA SameFacts ==
  ASSUME command' = command, queue' = queue, ran' = ran
  PROVE  /\ SamePackets
         /\ \A c : Sent(c)' <=> Sent(c)
         /\ \A c : Settled(c)' <=> Settled(c)
         /\ \A c : Complete(c)' <=> Complete(c)
         /\ \A c : Covered(c)' <=> Covered(c)
         /\ \A d, c : Upto(d, c)' <=> Upto(d, c)
BY DEF SamePackets, Sent, InRing, Settled, Complete, Covered, Upto, HwEvent

LEMMA LocalStep ==
  ASSUME IInv, NEW t \in Clients, Types',
         command' = command, queue' = queue, armed' = armed, ran' = ran,
         execution' = execution, notifyLock' = notifyLock, created <= created',
         pc[t] \notin Busy, pc'[t] \notin Busy,
         \A u \in Threads : u # t => pc'[u] = pc[u] /\ my'[u] = my[u],
         my'[t].cmd = my[t].cmd \/ ~HoldsExec(t),
         my[t].marker = None, my'[t].marker = None,
         HoldsExec(t)' <=> HoldsExec(t), PlaceKept(t), Client(t)',
         \A u \in Clients : u # t /\ my'[t].cmd # None => my[u].cmd # my'[t].cmd,
         \A c \in AllCommands : c \in handles' => c \in handles \/ (Sent(c) /\ command[c].kind = "record")
  PROVE  IInv'
<1>1. Types /\ LockInv /\ t \in Threads BY DEF IInv, Threads
<1>2. Steady
  <2>1. SamePackets BY SameFacts
  <2> QED BY <2>1, SteadyStep DEF Complete
<1>3. LockSame(t) BY DEF LockSame, Here, Current
<1>4. \A c \in AllCommands : Kept(c) BY DEF Kept
<1>5. None \notin AllCommands BY DirectDispatchAssumption DEF AllCommands
<1>6. my[t].event \in AllCommands => notifyLock[my[t].event] # t BY <1>1 DEF LockInv
<1>7. \A e \in Commands : NotifyMarker(e) # None BY <1>5, MarkerFacts
<1>8. Creates(t, None) BY <1>4, <1>5 DEF Creates
<1>9. Between(t, None, None) BY <1>5, <1>6, <1>7 DEF Between
<1> QED BY <1>2, <1>3, <1>8, <1>9, CallStep

(* The types of a record with some fields replaced. *)
LEMMA ThreadTypes ==
  ASSUME Types, NEW t \in Threads, NEW label \in Labels, NEW l \in Locals,
         created' \in 0..MaxCommands, handles' \subseteq Commands,
         command' = command, queue' = queue, execution' = execution, notifyLock' = notifyLock,
         armed' = armed, ran' = ran,
         pc' = [pc EXCEPT ![t] = label], my' = [my EXCEPT ![t] = l]
  PROVE  /\ Types' /\ pc'[t] = label /\ my'[t] = l
         /\ \A u \in Threads : u # t => pc'[u] = pc[u] /\ my'[u] = my[u]
BY DEF Types

(* The facts every step of a client starts from. *)
LEMMA ClientFacts ==
  ASSUME IInv, NEW t \in Clients
  PROVE  /\ Types /\ RingInv /\ CommandInv /\ LockInv /\ OpenInv /\ t \in Threads
         /\ Shape(t) /\ OwnCommand(t) /\ OwnMarker(t) /\ DueOf(t)
         /\ t # Handler /\ created \in 0..MaxCommands /\ handles \subseteq Commands
BY DirectDispatchAssumption DEF IInv, Threads, Types

(* What a call that is new on a queue starts from. *)
LEMMA IdleFacts ==
  ASSUME IInv, NEW t \in Clients, pc[t] = "idle"
  PROVE  my[t] = AtHome /\ At(t) = "idle" /\ ~HoldsExec(t) /\ pc[t] \notin Busy
BY ClientFacts DEF Shape, AtHome, At, HoldsExec, Busy

LEMMA FreshFacts ==
  ASSUME IInv, created < MaxCommands
  PROVE  /\ created + 1 \in Commands /\ created + 1 \in AllCommands /\ created + 1 # None
         /\ created + 1 \in 0..MaxCommands /\ created <= created + 1
         /\ command[created + 1].status = "new"
         /\ \A u \in Clients : my[u].cmd # created + 1
<1>1. created \in Nat /\ MaxCommands \in Nat BY DirectDispatchAssumption DEF IInv, Types
<1>2. /\ created + 1 \in Commands /\ created + 1 \in AllCommands /\ created + 1 # None
      /\ created + 1 \in 0..MaxCommands /\ created <= created + 1
  BY <1>1, DirectDispatchAssumption DEF Commands, AllCommands
<1>3. command[created + 1].status = "new" BY <1>1, <1>2 DEF IInv, CommandInv, Before
<1>4. \A u \in Clients : my[u].cmd # created + 1 BY <1>1, <1>2, HolderFacts DEF Commands
<1> QED BY <1>2, <1>3, <1>4

LEMMA ReleaseHandleStep ==
  ASSUME IInv, NEW t \in Clients, NEW e \in handles, ReleaseHandle(t, e)
  PROVE  IInv'
<1>1. /\ Types /\ t \in Threads /\ pc[t] = "idle" /\ my[t] = AtHome /\ ~HoldsExec(t)
      /\ pc[t] \notin Busy /\ my[t].marker = None
  BY ClientFacts, IdleFacts DEF ReleaseHandle, AtHome
<1>2. /\ command' = command /\ queue' = queue /\ armed' = armed /\ ran' = ran
      /\ execution' = execution /\ notifyLock' = notifyLock /\ created' = created
      /\ pc' = pc /\ my' = my /\ handles' \subseteq handles
  BY DEF ReleaseHandle, locks, gpu
<1>3. Types' BY <1>1, <1>2 DEF Types
<1>4. HoldsExec(t)' <=> HoldsExec(t) BY <1>2 DEF HoldsExec
<1>5. PlaceKept(t) BY <1>1, <1>2 DEF PlaceKept
<1>6. Client(t)'
  BY <1>1, <1>2, DirectDispatchAssumption
     DEF Client, Shape, OwnCommand, OwnMarker, DueOf, At, AtHome
<1>7. created <= created' BY <1>1, <1>2, DirectDispatchAssumption DEF Types
<1>8. my'[t].cmd = None BY <1>1, <1>2 DEF AtHome
<1> QED BY <1>1, <1>2, <1>3, <1>4, <1>5, <1>6, <1>7, <1>8, LocalStep

(* A call returns. *)
LEMMA ReturnsStep ==
  ASSUME IInv, NEW t \in Clients, pc[t] \notin Busy, my[t].marker = None, ~HoldsExec(t),
         created' = created, handles' \subseteq Commands,
         \A c \in AllCommands : c \in handles' => c \in handles \/ (Sent(c) /\ command[c].kind = "record"),
         command' = command, queue' = queue, armed' = armed, ran' = ran,
         execution' = execution, notifyLock' = notifyLock,
         pc' = [pc EXCEPT ![t] = "idle"], my' = [my EXCEPT ![t] = AtHome]
  PROVE  IInv'
<1>1. AtHome \in Locals /\ "idle" \in Labels BY DEF AtHome, Locals, Labels, Optional
<1>2. /\ Types' /\ pc'[t] = "idle" /\ my'[t] = AtHome
      /\ \A u \in Threads : u # t => pc'[u] = pc[u] /\ my'[u] = my[u]
  BY <1>1, ThreadTypes, ClientFacts
<1>3. HoldsExec(t)' <=> HoldsExec(t) BY <1>2 DEF HoldsExec
<1>4. PlaceKept(t) BY <1>2 DEF PlaceKept
<1>5. Client(t)'
  BY <1>2, DirectDispatchAssumption DEF Client, Shape, OwnCommand, OwnMarker, DueOf, At, AtHome
<1>6. created <= created' BY ClientFacts, DirectDispatchAssumption
<1>7. my'[t].cmd = None /\ my'[t].marker = None /\ pc'[t] \notin Busy BY <1>2 DEF AtHome, Busy
<1> QED BY <1>2, <1>3, <1>4, <1>5, <1>6, <1>7, LocalStep

LEMMA ReturnStep ==
  ASSUME IInv, NEW t \in Clients, Return(t)
  PROVE  IInv'
<1>1. pc[t] = "finished" /\ my[t].marker = None /\ ~HoldsExec(t) /\ pc[t] \notin Busy
  BY ClientFacts DEF Return, Shape, HoldsExec, Busy
<1>2. handles' \subseteq Commands /\ handles' = handles BY ClientFacts DEF Return
<1> QED BY <1>1, <1>2, ReturnsStep DEF Return, Goto, locks, gpu

(* While nobody holds execution() of a queue, its last command is the last. *)
LEMMA QuietQueue ==
  ASSUME IInv, NEW q \in Queues, execution[q] = None
  PROVE  /\ queue[q].last # None =>
              /\ queue[q].last \in AllCommands /\ command[queue[q].last].queue = q
              /\ Settled(queue[q].last)
              /\ \A d \in Pending(q) : Upto(d, queue[q].last)
         /\ \A d \in Pending(q) : d \in AllCommands /\ Sent(d) /\ command[d].queue = q
         /\ queue[q].last = None /\ queue[q].open => Pending(q) = {}
<1>1. LastOk(q) BY DirectDispatchAssumption DEF IInv, LastInv
<1>2. Types /\ RingInv /\ CommandInv BY DEF IInv
<1>3. queue[q].last \in Optional BY <1>2 DEF Types, QueueObject
<1>4. \A d \in Pending(q) : InRing(q, d) BY DEF Pending, InRing
<1>5. \A d \in Pending(q) : d \in AllCommands /\ Sent(d) /\ command[d].queue = q BY <1>2, <1>4, SentFacts
<1> QED BY <1>1, <1>3, <1>5 DEF LastOk, Pending, Optional

(* A call that creates nothing yet. *)
LEMMA BeginStep ==
  ASSUME IInv, NEW t \in Clients, pc[t] = "idle",
         NEW l \in Locals, NEW label \in Labels,
         label \notin Busy \cup {"unlock", "form", "notified"},
         label = "notify" => l.then # "unlock",
         l.marker = None, l.cmd = None \/ l.cmd = created + 1,
         l.on \in Queues, Open(l.on),
         l.op = "terminate" => label # "finished" /\ \A u \in Clients \ {t} : my[u].on # l.on,
         created' = created \/ (created < MaxCommands /\ created' = created + 1),
         l.cmd # None => created < MaxCommands /\ created' = created + 1,
         handles' = handles, command' = command, queue' = queue, armed' = armed, ran' = ran,
         execution' = execution, notifyLock' = notifyLock,
         pc' = [pc EXCEPT ![t] = label], my' = [my EXCEPT ![t] = l],
         Client(t)'
  PROVE  IInv'
<1>1. /\ my[t].marker = None /\ ~HoldsExec(t) /\ pc[t] \notin Busy BY IdleFacts DEF AtHome
<1>2. created' \in 0..MaxCommands /\ created <= created' /\ handles' \subseteq Commands
  BY ClientFacts, DirectDispatchAssumption
<1>3. /\ Types' /\ pc'[t] = label /\ my'[t] = l
      /\ \A u \in Threads : u # t => pc'[u] = pc[u] /\ my'[u] = my[u]
  BY <1>2, ThreadTypes, ClientFacts
<1>4. HoldsExec(t)' <=> HoldsExec(t) BY <1>1, <1>3 DEF HoldsExec, Busy
<1>5. PlaceKept(t) BY <1>3 DEF PlaceKept
<1>6. \A u \in Clients : u # t /\ my'[t].cmd # None => my[u].cmd # my'[t].cmd BY <1>3, FreshFacts
<1> QED BY <1>1, <1>2, <1>3, <1>4, <1>5, <1>6, LocalStep

LEMMA WaitStreamStep ==
  ASSUME IInv, NEW t \in Clients, NEW q \in Queues, NEW p \in Queues, WaitStream(t, q, p)
  PROVE  IInv'
<1>1. PICK e : e = queue[p].last OBVIOUS
<1>2. /\ pc[t] = "idle" /\ Open(q) /\ created < MaxCommands /\ created' = created + 1
      /\ execution[p] = None /\ e # None /\ ~Complete(e) /\ "waitStream" \in Operations
      /\ command' = command /\ queue' = queue /\ armed' = armed /\ ran' = ran
      /\ execution' = execution /\ notifyLock' = notifyLock /\ handles' = handles
      /\ pc' = [pc EXCEPT ![t] = "notify"]
  BY <1>1 DEF WaitStream, Call, Goto, locks, gpu
<1>3a. PICK l : l = [Locally(t, "waitStream", q) EXCEPT !.held = e, !.event = e, !.then = "waitMarker"]
  OBVIOUS
<1>3b. my' = [my EXCEPT ![t] = l] BY <1>1, <1>3a DEF WaitStream
<1>3. /\ l.op = "waitStream" /\ l.on = q /\ l.due = {} /\ l.cmd = created + 1
      /\ l.marker = None /\ l.todo = {} /\ l.event = e /\ l.then = "waitMarker"
      /\ l.held = e /\ l.cursor = None
  BY <1>3a, <1>2 DEF Locally, AtHome
<1>4. e \in AllCommands /\ Settled(e) /\ Sent(e) BY <1>1, <1>2, QuietQueue DEF Settled
<1>5. /\ created + 1 \in Commands /\ created + 1 \in AllCommands /\ created + 1 # None
      /\ command[created + 1].status = "new" /\ created + 1 <= created + 1
  BY <1>2, FreshFacts, ClientFacts, DirectDispatchAssumption
<1>6. l \in Locals
  <2>1. e \in Optional /\ created + 1 \in Optional BY <1>4, <1>5 DEF Optional
  <2>2. Locally(t, "waitStream", q) \in Locals BY <1>2, <2>1 DEF Locally, AtHome, Locals, Labels, Optional
  <2> QED BY ONLY <1>3a, <2>1, <2>2 DEF Locals, Labels
<1>7. pc'[t] = "notify" /\ my'[t] = l BY <1>2, <1>3a, <1>3b, <1>3, ClientFacts DEF Types
<1>9. Client(t)'
  <2>1. Shape(t)' BY <1>2, <1>3a, <1>3b, <1>3, <1>4, <1>7, SameFacts DEF Shape
  <2>2. At(t)' = "waitMarker"
    BY <1>2, <1>3a, <1>3b, <1>3, <1>7, <1>4, DirectDispatchAssumption DEF At, AllCommands
  <2>3. OwnCommand(t)'
    <3>1. /\ my'[t].op = "waitStream" /\ my'[t].cmd = created + 1 /\ my'[t].held = e
          /\ my'[t].event = e
      BY <1>3, <1>7
    <3>2. /\ command'[created + 1].status = "new" /\ Sent(e)' /\ created' = created + 1
          /\ created + 1 <= created'
      BY <1>2, <1>4, <1>5, SameFacts
    <3> QED BY <1>2, <1>5, <2>2, <3>1, <3>2 DEF OwnCommand
  <2>4. OwnMarker(t)' /\ DueOf(t)' BY <1>3a, <1>3b, <1>3, <1>7 DEF OwnMarker, DueOf
  <2> QED BY <2>1, <2>3, <2>4 DEF Client
<1> QED BY <1>2, <1>3a, <1>3b, <1>3, <1>6, <1>9, BeginStep DEF Busy, Labels

LEMMA FinishStep ==
  ASSUME IInv, NEW t \in Clients, NEW q \in Queues, Finish(t, q)
  PROVE  IInv'
<1>1. PICK e, D : e = queue[q].last /\ D = Pending(q) OBVIOUS
<1>2. /\ pc[t] = "idle" /\ Open(q) /\ created < MaxCommands /\ created' = created + 1
      /\ execution[q] = None /\ e # None /\ "finish" \in Operations
      /\ command' = command /\ queue' = queue /\ armed' = armed /\ ran' = ran
      /\ execution' = execution /\ notifyLock' = notifyLock /\ handles' = handles
      /\ pc' = [pc EXCEPT ![t] = "fence"]
  BY <1>1 DEF Finish, Call, Goto, locks, gpu
<1>3a. PICK l : l = [Locally(t, "finish", q) EXCEPT !.held = e, !.due = D] OBVIOUS
<1>3b. my' = [my EXCEPT ![t] = l] BY <1>1, <1>3a DEF Finish
<1>3. /\ l.op = "finish" /\ l.on = q /\ l.due = D /\ l.cmd = created + 1
      /\ l.marker = None /\ l.todo = {} /\ l.event = None /\ l.then = "idle"
      /\ l.held = e /\ l.cursor = None
  BY <1>3a, <1>2 DEF Locally, AtHome
<1>4. /\ e \in AllCommands /\ Settled(e)
      /\ \A d \in D : d \in AllCommands /\ Sent(d) /\ command[d].queue = q /\ Upto(d, e)
  BY <1>1, <1>2, QuietQueue
<1>5. /\ created + 1 \in Commands /\ created + 1 \in AllCommands /\ created + 1 # None
      /\ command[created + 1].status = "new" /\ created + 1 <= created + 1
  BY <1>2, FreshFacts, ClientFacts, DirectDispatchAssumption
<1>6. l \in Locals
  <2>1. D \subseteq AllCommands /\ e \in Optional /\ created + 1 \in Optional BY <1>4, <1>5 DEF Optional
  <2>2. Locally(t, "finish", q) \in Locals BY <1>2, <2>1 DEF Locally, AtHome, Locals, Labels, Optional
  <2> QED BY ONLY <1>3a, <2>1, <2>2 DEF Locals
<1>7. pc'[t] = "fence" /\ my'[t] = l BY <1>2, <1>3a, <1>3b, <1>3, ClientFacts DEF Types
<1>9. Client(t)'
  <2>1. Shape(t)' BY <1>2, <1>3a, <1>3b, <1>3, <1>4, <1>7, SameFacts DEF Shape
  <2>2. At(t)' = "fence" BY <1>2, <1>3a, <1>3b, <1>3, <1>7 DEF At
  <2>3. OwnCommand(t)' BY <1>2, <1>3a, <1>3b, <1>3, <1>4, <1>5, <1>7, <2>2, SameFacts DEF OwnCommand
  <2>4. OwnMarker(t)' BY <1>3a, <1>3b, <1>3, <1>7 DEF OwnMarker
  <2>5. DueOf(t)'
    <3>1. \A d \in D : Sent(d)' /\ command'[d].queue = q /\ Upto(d, e)' BY <1>2, <1>4, SameFacts
    <3>2. my'[t].due = D /\ my'[t].on = q /\ my'[t].held = e BY <1>3, <1>7
    <3> QED BY <2>2, <3>1, <3>2 DEF DueOf
  <2> QED BY <2>1, <2>3, <2>4, <2>5 DEF Client
<1> QED BY <1>2, <1>3a, <1>3b, <1>3, <1>6, <1>9, BeginStep DEF Busy, Labels

LEMMA FinishIdleStep ==
  ASSUME IInv, NEW t \in Clients, NEW q \in Queues, FinishIdle(t, q)
  PROVE  IInv'
<1>1. /\ pc[t] = "idle" /\ Open(q) /\ created' = created /\ queue[q].last = None
      /\ execution[q] = None /\ "finish" \in Operations
      /\ command' = command /\ queue' = queue /\ armed' = armed /\ ran' = ran
      /\ execution' = execution /\ notifyLock' = notifyLock /\ handles' = handles
      /\ pc' = [pc EXCEPT ![t] = "finished"]
  BY DEF FinishIdle, Goto, locks, gpu
<1>2. Pending(q) = {} BY <1>1, QuietQueue DEF Open
<1>3a. PICK l : l = [AtHome EXCEPT !.op = "finish", !.on = q, !.due = Pending(q)] OBVIOUS
<1>3b. my' = [my EXCEPT ![t] = l] BY <1>1, <1>3a DEF FinishIdle
<1>3. /\ l.op = "finish" /\ l.on = q /\ l.due = {} /\ l.cmd = None
      /\ l.marker = None /\ l.todo = {} /\ l.event = None /\ l.then = "idle"
      /\ l.held = None /\ l.cursor = None
  BY <1>3a, <1>2 DEF Locally, AtHome
<1>4. l \in Locals BY <1>1, <1>3a, <1>3b, <1>3 DEF Locally, AtHome, Locals, Labels, Optional
<1>5. pc'[t] = "finished" /\ my'[t] = l BY <1>1, <1>3a, <1>3b, <1>3, ClientFacts DEF Types
<1>6. Client(t)' BY <1>3a, <1>3b, <1>3, <1>5 DEF Client, Shape, OwnCommand, OwnMarker, DueOf, At
<1> QED BY <1>1, <1>3a, <1>3b, <1>3, <1>4, <1>6, BeginStep DEF Busy, Labels

LEMMA TerminateIdleStep ==
  ASSUME IInv, NEW t \in Clients, NEW q \in Queues, Terminate(t, q), queue[q].head = None
  PROVE  IInv'
<1>1. PICK e, D : e = queue[q].last /\ D = Pending(q) OBVIOUS
<1>2. /\ pc[t] = "idle" /\ Open(q) /\ created < MaxCommands /\ created' = created + 1
      /\ execution[q] = None /\ e # None /\ "terminate" \in Operations
      /\ \A u \in Clients \ {t} : my[u].on # q
      /\ command' = command /\ queue' = queue /\ armed' = armed /\ ran' = ran
      /\ execution' = execution /\ notifyLock' = notifyLock /\ handles' = handles
      /\ pc' = [pc EXCEPT ![t] = "await"]
  BY <1>1 DEF Terminate, Call, Goto, locks, gpu
<1>3a. PICK l : l = [Locally(t, "terminate", q) EXCEPT !.due = D, !.held = e] OBVIOUS
<1>3b. my' = [my EXCEPT ![t] = l] BY <1>1, <1>3a DEF Terminate
<1>3. /\ l.op = "terminate" /\ l.on = q /\ l.due = D /\ l.cmd = created + 1
      /\ l.marker = None /\ l.todo = {} /\ l.event = None /\ l.then = "idle"
      /\ l.held = e /\ l.cursor = None
  BY <1>3a DEF Locally, AtHome
<1>4. /\ e \in AllCommands /\ Settled(e)
      /\ \A d \in D : d \in AllCommands /\ Sent(d) /\ command[d].queue = q /\ Upto(d, e)
  BY <1>1, <1>2, QuietQueue
<1>5. /\ created + 1 \in Commands /\ created + 1 \in AllCommands /\ created + 1 # None
      /\ created + 1 <= created + 1
  BY <1>2, FreshFacts, ClientFacts, DirectDispatchAssumption
<1>6. l \in Locals BY <1>2, <1>3a, <1>4, <1>5 DEF Locally, AtHome, Locals, Labels, Optional
<1>7. pc'[t] = "await" /\ my'[t] = l BY <1>2, <1>3b, ClientFacts DEF Types
<1>9. Client(t)'
  <2>1. Shape(t)' BY <1>2, <1>3, <1>4, <1>7, SameFacts DEF Shape
  <2>2. At(t)' = "await" BY <1>2, <1>3, <1>7 DEF At
  <2>3. OwnCommand(t)' BY <1>2, <1>3, <1>4, <1>5, <1>7, <2>2, SameFacts DEF OwnCommand
  <2>4. OwnMarker(t)' BY <1>3, <1>7 DEF OwnMarker
  <2>5. DueOf(t)' BY <1>2, <1>3, <1>4, <1>7, <2>2, SameFacts DEF DueOf
  <2> QED BY <2>1, <2>3, <2>4, <2>5 DEF Client
<1> QED BY <1>2, <1>3, <1>3b, <1>6, <1>9, BeginStep DEF Busy, Labels

(* A call in progress goes on, and changes only its own locals. *)
LEMMA GoOnStep ==
  ASSUME IInv, NEW t \in Clients, pc[t] \notin Busy \cup {"finished"},
         NEW l \in Locals, NEW label \in Labels, label \notin Busy,
         my[t].marker = None, l.marker = None,
         l.cmd = my[t].cmd \/ (l.cmd = None /\ ~HoldsExec(t)),
         l.on = my[t].on, l.op = my[t].op,
         created' = created, handles' = handles, command' = command, queue' = queue,
         armed' = armed, ran' = ran, execution' = execution, notifyLock' = notifyLock,
         pc' = [pc EXCEPT ![t] = label], my' = [my EXCEPT ![t] = l],
         HoldsExec(t)' <=> HoldsExec(t), Client(t)'
  PROVE  IInv'
<1>1. created' \in 0..MaxCommands /\ created <= created' /\ handles' \subseteq Commands
  BY ClientFacts, DirectDispatchAssumption
<1>2. /\ Types' /\ pc'[t] = label /\ my'[t] = l
      /\ \A u \in Threads : u # t => pc'[u] = pc[u] /\ my'[u] = my[u]
  BY <1>1, ThreadTypes, ClientFacts
<1>3. PlaceKept(t) BY <1>2 DEF PlaceKept
<1>4. \A u \in Clients : u # t /\ my'[t].cmd # None => my[u].cmd # my'[t].cmd
  BY <1>2, ClientFacts DEF LockInv
<1> QED BY <1>1, <1>2, <1>3, <1>4, LocalStep

LEMMA WakeUpStep ==
  ASSUME IInv, NEW t \in Clients, WakeUp(t)
  PROVE  IInv'
<1>1. /\ pc[t] = "sleep" /\ Complete(my[t].held)
      /\ created' = created /\ handles' = handles /\ command' = command /\ queue' = queue
      /\ armed' = armed /\ ran' = ran /\ execution' = execution /\ notifyLock' = notifyLock
      /\ pc' = [pc EXCEPT ![t] = "clear"] /\ my' = my
  BY DEF WakeUp, Goto, locks, gpu
<1>2. PICK l \in Locals : l = my[t] BY ClientFacts, TypeFacts
<1>3. /\ my' = [my EXCEPT ![t] = l] /\ my'[t] = l /\ pc'[t] = "clear"
      /\ my[t].marker = None /\ my[t].event = None
  BY <1>1, <1>2, ClientFacts DEF Types, Shape
<1>4. HoldsExec(t)' <=> HoldsExec(t) BY <1>1, <1>3 DEF HoldsExec
<1>5. At(t) = "sleep" /\ At(t)' = "clear" BY <1>1, <1>3 DEF At
<1>6. Client(t)'
  <2>1. Shape(t)' BY <1>1, <1>3, <1>5, SameFacts, ClientFacts DEF Shape
  <2>2. OwnCommand(t)' BY <1>1, <1>3, <1>5, SameFacts, ClientFacts DEF OwnCommand
  <2>3. OwnMarker(t)' BY <1>1, <1>3 DEF OwnMarker
  <2>4. DueOf(t)' BY <1>1, <1>3, <1>5, SameFacts, ClientFacts DEF DueOf
  <2> QED BY <2>1, <2>2, <2>3, <2>4 DEF Client
<1> QED BY <1>1, <1>2, <1>3, <1>4, <1>6, GoOnStep DEF Busy, Labels

LEMMA AwaitStep ==
  ASSUME IInv, NEW t \in Clients, Await(t)
  PROVE  IInv'
<1>1. /\ pc[t] \in {"await", "hwWait"}
      /\ created' = created /\ handles' = handles /\ command' = command /\ queue' = queue
      /\ armed' = armed /\ ran' = ran /\ execution' = execution /\ notifyLock' = notifyLock
  BY DEF Await, locks, gpu
<1>2. my[t].marker = None /\ my[t].event = None /\ At(t) = pc[t] /\ my[t].todo = {}
  BY <1>1, ClientFacts DEF Shape, At
<1>3. PICK h : h = my[t].held OBVIOUS
<1>4. /\ h # None /\ h \in AllCommands /\ Settled(h)
      /\ my[t].op \in {"copy", "finish", "terminate"} /\ my[t].on \in Queues
  BY <1>1, <1>2, <1>3, ClientFacts, TypeFacts DEF OwnCommand, Shape
<1>5. CASE Complete(h)
  <2>1. PICK l \in Locals : l = my[t] BY ClientFacts, TypeFacts
  <2>2. /\ my' = [my EXCEPT ![t] = l] /\ my'[t] = l /\ pc'[t] = "clear"
        /\ pc' = [pc EXCEPT ![t] = "clear"]
    BY <1>3, <1>5, <2>1, ClientFacts DEF Await, Goto, Types
  <2>3. HoldsExec(t)' <=> HoldsExec(t) BY <1>1, <2>2 DEF HoldsExec
  <2>4. At(t)' = "clear" BY <1>2, <2>1, <2>2 DEF At
  <2>5. Client(t)'
    <3>1. Shape(t)' BY <1>1, <1>2, <2>1, <2>2, <2>4, SameFacts, ClientFacts DEF Shape
    <3>2. OwnCommand(t)'
      BY <1>1, <1>2, <1>3, <1>4, <1>5, <2>1, <2>2, <2>4, SameFacts, ClientFacts DEF OwnCommand
    <3>3. OwnMarker(t)' BY <1>2, <2>1, <2>2 DEF OwnMarker
    <3>4. DueOf(t)' BY <1>1, <1>2, <2>1, <2>2, <2>4, SameFacts, ClientFacts DEF DueOf
    <3> QED BY <3>1, <3>2, <3>3, <3>4 DEF Client
  <2> QED BY <1>1, <1>2, <2>1, <2>2, <2>3, <2>5, GoOnStep DEF Busy, Labels
<1>6. CASE ~Complete(h)
  <2>1. PICK l : l = [my[t] EXCEPT !.event = h, !.then = "sleep"] OBVIOUS
  <2>2. my[t] \in Locals BY ClientFacts, TypeFacts
  <2>3. /\ l.op = my[t].op /\ l.on = my[t].on /\ l.due = my[t].due /\ l.cmd = my[t].cmd
        /\ l.marker = None /\ l.todo = {} /\ l.event = h /\ l.then = "sleep" /\ l.held = h
    BY <1>2, <1>3, <2>1, <2>2 DEF Locals
  <2>4. l \in Locals BY <1>4, <2>1, <2>2 DEF Locals, Labels, Optional
  <2>5. /\ my' = [my EXCEPT ![t] = l] /\ my'[t] = l /\ pc'[t] = "notify"
        /\ pc' = [pc EXCEPT ![t] = "notify"]
    BY <1>3, <1>6, <2>1, ClientFacts DEF Await, Goto, Types
  <2>6. HoldsExec(t)' <=> HoldsExec(t) BY <1>1, <2>3, <2>5 DEF HoldsExec
  <2>7. At(t)' = "sleep" BY <1>4, <2>3, <2>5 DEF At
  <2>8. Client(t)'
    <3>1. Shape(t)' BY <1>1, <1>2, <1>4, <2>3, <2>5, SameFacts, ClientFacts DEF Shape
    <3>2. OwnCommand(t)'
      BY <1>1, <1>2, <1>3, <1>4, <2>3, <2>5, <2>7, SameFacts, ClientFacts DEF OwnCommand
    <3>3. OwnMarker(t)' BY <2>3, <2>5 DEF OwnMarker
    <3>4. DueOf(t)' BY <1>1, <1>2, <1>3, <2>3, <2>5, <2>7, SameFacts, ClientFacts DEF DueOf
    <3> QED BY <3>1, <3>2, <3>3, <3>4 DEF Client
  <2> QED BY <1>1, <1>2, <2>3, <2>4, <2>5, <2>6, <2>8, GoOnStep DEF Busy, Labels
<1> QED BY <1>5, <1>6

LEMMA WaitListStep ==
  ASSUME IInv, NEW t \in Clients, WaitList(t)
  PROVE  IInv'
<1>1. PICK e \in my[t].todo :
         my' = [my EXCEPT ![t].todo = @ \ {e}, ![t].event = e, ![t].then = "waitList"]
  BY DEF WaitList
<1>2. /\ pc[t] = "waitList" /\ pc' = [pc EXCEPT ![t] = "notify"]
      /\ created' = created /\ handles' = handles /\ command' = command /\ queue' = queue
      /\ armed' = armed /\ ran' = ran /\ execution' = execution /\ notifyLock' = notifyLock
  BY DEF WaitList, Goto, locks, gpu
<1>3. my[t].marker = None /\ my[t].event = None /\ At(t) = "waitList" BY <1>2, ClientFacts DEF Shape, At
<1>4. my[t] \in Locals /\ e \in AllCommands /\ Sent(e) /\ e # None /\ my[t].on \in Queues
  BY <1>2, ClientFacts, TypeFacts DEF Shape
<1>5. PICK l : l = [my[t] EXCEPT !.todo = @ \ {e}, !.event = e, !.then = "waitList"] OBVIOUS
<1>6. /\ l.op = my[t].op /\ l.on = my[t].on /\ l.due = my[t].due /\ l.cmd = my[t].cmd
      /\ l.marker = None /\ l.todo = my[t].todo \ {e} /\ l.event = e /\ l.then = "waitList"
      /\ l.held = my[t].held
  BY <1>3, <1>4, <1>5 DEF Locals
<1>7. l \in Locals BY <1>4, <1>5 DEF Locals, Labels, Optional
<1>8. my' = [my EXCEPT ![t] = l] /\ my'[t] = l /\ pc'[t] = "notify"
  BY <1>1, <1>2, <1>5, ClientFacts DEF Types
<1>9. HoldsExec(t)' <=> HoldsExec(t) BY <1>2, <1>6, <1>8 DEF HoldsExec
<1>10. At(t)' = "waitList" BY <1>4, <1>6, <1>8 DEF At
<1>11. Client(t)'
  <2>1. Shape(t)' BY <1>2, <1>3, <1>4, <1>6, <1>8, <1>10, SameFacts, ClientFacts DEF Shape, Settled
  <2>2. OwnCommand(t)'
    <3>1. PICK c : c = my[t].cmd OBVIOUS
    <3>2. /\ c # None /\ c \in Commands /\ c <= created /\ command[c].queue = my[t].on
          /\ my[t].op = "record" => command[c].kind = "record"
          /\ command[c].status = "queued"
          /\ \A d \in command[c].waits : d \in my[t].todo \/ d = my[t].event \/ Covered(d)
      BY <1>3, <3>1, ClientFacts DEF OwnCommand
    <3>3. \A d \in command[c].waits : d \in AllCommands /\ d # None
      BY <3>2, ClientFacts, TypeFacts, MarkerFacts
    <3>4. \A d \in command[c].waits : d \in l.todo \/ d = l.event \/ Covered(d)'
      <4>1. \A d : Covered(d) => Covered(d)' BY <1>2, SameFacts
      <4> QED BY <1>3, <1>6, <3>2, <3>3, <4>1
    <3> QED BY <1>2, <1>6, <1>8, <1>10, <3>1, <3>2, <3>4 DEF OwnCommand
  <2>3. OwnMarker(t)' BY <1>6, <1>8 DEF OwnMarker
  <2>4. DueOf(t)' BY <1>2, <1>3, <1>6, <1>8, <1>10, SameFacts, ClientFacts DEF DueOf
  <2> QED BY <2>1, <2>2, <2>3, <2>4 DEF Client
<1> QED BY <1>2, <1>3, <1>6, <1>7, <1>8, <1>9, <1>11, GoOnStep DEF Busy, Labels

LEMMA FenceIdleStep ==
  ASSUME IInv, NEW t \in Clients, pc[t] = "fence",
         my' = [my EXCEPT ![t].cmd = None], pc' = [pc EXCEPT ![t] = "hwWait"],
         created' = created, handles' = handles, command' = command, queue' = queue,
         armed' = armed, ran' = ran, execution' = execution, notifyLock' = notifyLock
  PROVE  IInv'
<1>1. my[t].marker = None /\ my[t].event = None /\ At(t) = "fence" /\ my[t].todo = {}
  BY ClientFacts DEF Shape, At
<1>2. /\ my[t].on \in Queues /\ my[t].op = "finish" /\ my[t].held # None
      /\ my[t].held \in AllCommands /\ Settled(my[t].held) /\ my[t] \in Locals
  BY <1>1, ClientFacts, TypeFacts DEF OwnCommand, Shape
<1>3. PICK l : l = [my[t] EXCEPT !.cmd = None] OBVIOUS
<1>4. /\ l.op = my[t].op /\ l.on = my[t].on /\ l.due = my[t].due /\ l.cmd = None
      /\ l.marker = None /\ l.todo = {} /\ l.event = None /\ l.held = my[t].held
  BY <1>1, <1>2, <1>3 DEF Locals
<1>5. l \in Locals BY <1>2, <1>3 DEF Locals, Optional
<1>6. my' = [my EXCEPT ![t] = l] /\ my'[t] = l /\ pc'[t] = "hwWait" BY <1>3, ClientFacts DEF Types
<1>7. ~HoldsExec(t) /\ ~HoldsExec(t)' BY <1>6 DEF HoldsExec
<1>8. At(t)' = "hwWait" BY <1>4, <1>6 DEF At
<1>9. Client(t)'
  <2>1. Shape(t)' BY <1>2, <1>4, <1>6, <1>8 DEF Shape
  <2>2. OwnCommand(t)' BY <1>2, <1>4, <1>6, <1>8, SameFacts DEF OwnCommand
  <2>3. OwnMarker(t)' BY <1>4, <1>6 DEF OwnMarker
  <2>4. DueOf(t)' BY <1>1, <1>4, <1>6, <1>8, SameFacts, ClientFacts DEF DueOf
  <2> QED BY <2>1, <2>2, <2>3, <2>4 DEF Client
<1> QED BY <1>1, <1>4, <1>5, <1>6, <1>7, <1>9, GoOnStep DEF Busy, Labels

LEMMA EnqueuedStep ==
  ASSUME IInv, NEW t \in Clients, Enqueued(t)
  PROVE  IInv'
<1>1. PICK c : c = my[t].cmd OBVIOUS
<1>2. /\ pc[t] = "enqueued" /\ my[t].marker = None /\ my[t].event = None
      /\ At(t) = "enqueued" /\ my[t].todo = {} /\ ~HoldsExec(t) /\ pc[t] \notin Busy
      /\ created' = created /\ command' = command /\ queue' = queue
      /\ armed' = armed /\ ran' = ran /\ execution' = execution /\ notifyLock' = notifyLock
  BY ClientFacts DEF Enqueued, Shape, At, HoldsExec, Busy, locks, gpu
<1>3. /\ c # None /\ c \in Commands /\ c \in AllCommands /\ Sent(c) /\ my[t].on \in Queues
      /\ my[t].op = "record" => command[c].kind = "record"
      /\ my[t] \in Locals
  BY <1>1, <1>2, ClientFacts, TypeFacts, MarkerFacts DEF OwnCommand, Shape
<1>4. ASSUME handles' \subseteq handles \cup {c}, handles' # handles => command[c].kind = "record",
             my' = [my EXCEPT ![t] = AtHome], pc' = [pc EXCEPT ![t] = "idle"]
      PROVE  IInv'
  <2>1. handles' \subseteq Commands BY <1>3, <1>4, ClientFacts
  <2>2. \A d \in AllCommands : d \in handles' => d \in handles \/ (Sent(d) /\ command[d].kind = "record")
    BY <1>3, <1>4
  <2> QED BY <1>2, <1>4, <2>1, <2>2, ReturnsStep
<1>5. CASE my[t].op \in {"launch", "streamWait", "waitStream"} /\ handles' = handles
           /\ my' = [my EXCEPT ![t] = AtHome] /\ pc' = [pc EXCEPT ![t] = "idle"]
  BY <1>4, <1>5
<1>6. CASE my[t].op = "record" /\ handles' = handles \cup {c}
           /\ my' = [my EXCEPT ![t] = AtHome] /\ pc' = [pc EXCEPT ![t] = "idle"]
  BY <1>3, <1>4, <1>6
<1>7. CASE /\ my[t].op \in {"copy", "finish", "terminate"} /\ handles' = handles
           /\ my' = [my EXCEPT ![t].held = c, ![t].cmd = None]
           /\ pc' = [pc EXCEPT ![t] = IF my[t].op = "finish" THEN "hwWait" ELSE "await"]
  <2>1. PICK l, label : /\ l = [my[t] EXCEPT !.held = c, !.cmd = None]
                        /\ label = IF my[t].op = "finish" THEN "hwWait" ELSE "await"
    OBVIOUS
  <2>2. /\ l.op = my[t].op /\ l.on = my[t].on /\ l.due = my[t].due /\ l.cmd = None
        /\ l.marker = None /\ l.todo = {} /\ l.event = None /\ l.held = c
    BY <1>2, <1>3, <2>1 DEF Locals
  <2>3. l \in Locals /\ label \in Labels /\ label \in {"hwWait", "await"}
    BY <1>3, <2>1 DEF Locals, Labels, Optional
  <2>4. /\ my' = [my EXCEPT ![t] = l] /\ my'[t] = l /\ pc'[t] = label
        /\ pc' = [pc EXCEPT ![t] = label]
    BY <1>7, <2>1, ClientFacts DEF Types
  <2>5. ~HoldsExec(t)' BY <2>3, <2>4 DEF HoldsExec
  <2>6. At(t)' = label BY <2>2, <2>4 DEF At
  <2>7. Client(t)'
    <3>1. Shape(t)' BY <1>3, <1>7, <2>2, <2>3, <2>4, <2>6 DEF Shape
    <3>2. OwnCommand(t)' BY <1>2, <1>3, <1>7, <2>2, <2>3, <2>4, <2>6, SameFacts DEF OwnCommand, Settled
    <3>3. OwnMarker(t)' BY <2>2, <2>4 DEF OwnMarker
    <3>4. DueOf(t)' BY <1>1, <1>2, <2>2, <2>3, <2>4, <2>6, SameFacts, ClientFacts DEF DueOf
    <3> QED BY <3>1, <3>2, <3>3, <3>4 DEF Client
  <2>8. label \notin Busy /\ pc[t] \notin Busy \cup {"finished"} BY <1>2, <2>3 DEF Busy
  <2> QED BY <1>2, <1>7, <2>2, <2>3, <2>4, <2>5, <2>7, <2>8, GoOnStep
<1> QED BY <1>1, <1>5, <1>6, <1>7 DEF Enqueued, Goto

(* The signal that stands for an event falls after the event has run. *)
LEMMA SignalMeansRun ==
  ASSUME IInv, NEW e \in AllCommands, HwEvent(e) \in ran
  PROVE  e \in ran
<1>1. /\ Types /\ RingInv /\ CommandInv
      /\ Before(e) /\ \A d \in Commands : Pairing(d)
  BY DEF IInv, CommandInv
<1>2. PICK n : n = command[e].notifyEvent OBVIOUS
<1>3. HwEvent(e) # None BY <1>1, DirectDispatchAssumption DEF Types, AllCommands
<1>4. CASE n = None BY <1>2, <1>3, <1>4 DEF HwEvent
<1>5. CASE n # None
  <2>1. HwEvent(e) = n BY <1>2, <1>3, <1>5 DEF HwEvent
  <2>2. e \in Commands BY <1>1, <1>2, <1>5 DEF Before
  <2>3. n = NotifyMarker(e) BY <1>1, <1>2, <1>5, <2>2 DEF Pairing
  <2>4. n \in ran /\ Sent(n) BY <2>1 DEF Sent
  <2>5. Upto(e, n) BY <1>1, <2>2, <2>3, <2>4 DEF Pairing
  <2> QED BY <1>1, <2>4, <2>5, SentFacts
<1> QED BY <1>4, <1>5

LEMMA SignalFallsStep ==
  ASSUME IInv, NEW t \in Clients, SignalFalls(t)
  PROVE  IInv'
<1>1. PICK h : h = my[t].held OBVIOUS
<1>2. /\ pc[t] = "hwWait" /\ HwEvent(h) \in ran
      /\ created' = created /\ handles' = handles /\ command' = command /\ queue' = queue
      /\ armed' = armed /\ ran' = ran /\ execution' = execution /\ notifyLock' = notifyLock
      /\ pc' = [pc EXCEPT ![t] = "finished"] /\ my' = [my EXCEPT ![t].held = None]
  BY <1>1 DEF SignalFalls, Goto, locks, gpu
<1>3. my[t].marker = None /\ my[t].event = None /\ At(t) = "hwWait" /\ my[t].todo = {}
  BY <1>2, ClientFacts DEF Shape, At
<1>4. /\ h \in AllCommands /\ my[t].on \in Queues /\ my[t] \in Locals /\ my[t].op # "none"
  BY <1>1, <1>2, <1>3, ClientFacts, TypeFacts DEF OwnCommand, Shape
<1>5. \A d \in my[t].due : d \in ran /\ Sent(d) /\ command[d].queue = my[t].on
  <2>1. h \in ran BY <1>2, <1>4, SignalMeansRun
  <2> QED BY <1>1, <1>3, <2>1, SentFacts, ClientFacts DEF DueOf
<1>6. PICK l : l = [my[t] EXCEPT !.held = None] OBVIOUS
<1>7. /\ l.op = my[t].op /\ l.on = my[t].on /\ l.due = my[t].due /\ l.cmd = my[t].cmd
      /\ l.marker = None /\ l.todo = {} /\ l.event = None /\ l.held = None
  BY <1>3, <1>4, <1>6 DEF Locals
<1>8. l \in Locals BY <1>4, <1>6 DEF Locals, Optional
<1>9. my' = [my EXCEPT ![t] = l] /\ my'[t] = l /\ pc'[t] = "finished" BY <1>2, <1>6, ClientFacts DEF Types
<1>10. ~HoldsExec(t) /\ ~HoldsExec(t)' BY <1>2, <1>9 DEF HoldsExec
<1>11. At(t)' = "finished" BY <1>7, <1>9 DEF At
<1>12. Client(t)'
  <2>1. Shape(t)' BY <1>4, <1>7, <1>9, <1>11 DEF Shape
  <2>2. OwnCommand(t)' BY <1>2, <1>7, <1>9, <1>11, ClientFacts DEF OwnCommand
  <2>3. OwnMarker(t)' BY <1>7, <1>9 DEF OwnMarker
  <2>4. DueOf(t)' BY <1>2, <1>5, <1>7, <1>9, <1>11, SameFacts DEF DueOf
  <2> QED BY <2>1, <2>2, <2>3, <2>4 DEF Client
<1> QED BY <1>2, <1>3, <1>7, <1>8, <1>9, <1>10, <1>12, GoOnStep DEF Busy, Labels

(* Once notifyCmdQueue() has nothing to do, a signal stands for the event,
   or it has run. *)
LEMMA NothingToNotify ==
  ASSUME IInv, NEW e \in AllCommands, Sent(e), notifyLock[e] = None,
         Complete(e) \/ command[e].hwEvent \/ command[e].notified
  PROVE  Covered(e)
<1>1. /\ Types /\ RingInv /\ CommandInv
      /\ \A d \in AllCommands : Before(d) /\ After(d)
      /\ \A d \in Commands : Pairing(d)
  BY DEF IInv, CommandInv
<1>2. e # None /\ Upto(e, e) /\ command[e].kind # "cpuWait"
  BY <1>1, SentFacts, DirectDispatchAssumption DEF AllCommands
<1>3. CASE Complete(e) BY <1>1, <1>2, <1>3 DEF After, Covered
<1>4. CASE command[e].hwEvent
  <2>1. command[e].notifyEvent = None
    <3>1. SUFFICES ASSUME command[e].notifyEvent # None PROVE FALSE OBVIOUS
    <3>2. e \in Commands BY <1>1, <3>1 DEF Before
    <3> QED BY <1>1, <1>4, <3>1, <3>2 DEF Pairing
  <2>2. HwEvent(e) = e BY <1>4, <2>1 DEF HwEvent
  <2> QED BY <1>2, <2>2 DEF Covered
<1>5. CASE ~Complete(e) /\ ~command[e].hwEvent /\ command[e].notified /\ e \in Commands /\ e \notin ran
  <2>1. PICK m : m = NotifyMarker(e) /\ m \in AllCommands BY <1>5, MarkerFacts
  <2>2. command[e].notifyEvent = m /\ Sent(m) /\ command[m].kind = "marker" /\ Upto(e, m)
    BY <1>1, <1>5, <2>1 DEF Pairing
  <2>3. command[m].hwEvent BY <1>1, <2>1, <2>2 DEF After
  <2>4. HwEvent(e) = m /\ m # None BY <2>1, <2>2, <2>3, DirectDispatchAssumption DEF HwEvent, AllCommands
  <2> QED BY <2>2, <2>4 DEF Covered
<1>6. CASE e \in ran BY <1>6 DEF Covered
<1>7. CASE e \notin Commands
  <2>1. command[e].kind \in {"marker", "cpuWait"} BY <1>1, <1>2, <1>7, SentFacts DEF Before, Live
  <2>2. command[e].hwEvent BY <1>1, <1>2, <2>1 DEF After
  <2> QED BY <1>4, <2>2
<1> QED BY <1>3, <1>4, <1>5, <1>6, <1>7

LEMMA NotifyIdleStep ==
  ASSUME IInv, NEW t \in Clients, Notify(t),
         Complete(my[t].event) \/ command[my[t].event].hwEvent \/ command[my[t].event].notified
  PROVE  IInv'
<1>1. PICK e, s, c : e = my[t].event /\ s = my[t].then /\ c = my[t].cmd OBVIOUS
<1>2. /\ pc[t] = "notify" /\ notifyLock[e] = None
      /\ my' = [my EXCEPT ![t].event = None] /\ pc' = [pc EXCEPT ![t] = s]
      /\ created' = created /\ handles' = handles /\ command' = command /\ queue' = queue
      /\ armed' = armed /\ ran' = ran /\ execution' = execution /\ notifyLock' = notifyLock
  BY <1>1 DEF Notify, Goto, gpu
<1>3. /\ e # None /\ my[t].marker = None /\ At(t) = s /\ my[t] \in Locals /\ e \in AllCommands
      /\ s \in {"waitMarker", "waitList", "unlock", "sleep"} /\ my[t].on \in Queues
      /\ my[t].op # "none" /\ (my[t].todo # {} => s = "waitList")
  BY <1>1, <1>2, ClientFacts, TypeFacts DEF Shape, At
<1>4. PICK l : l = [my[t] EXCEPT !.event = None] OBVIOUS
<1>5. /\ l.op = my[t].op /\ l.on = my[t].on /\ l.due = my[t].due /\ l.cmd = c
      /\ l.marker = None /\ l.todo = my[t].todo /\ l.event = None /\ l.held = my[t].held
  BY <1>1, <1>3, <1>4 DEF Locals
<1>6. l \in Locals BY <1>3, <1>4 DEF Locals, Optional
<1>7. my' = [my EXCEPT ![t] = l] /\ my'[t] = l /\ pc'[t] = s BY <1>2, <1>4, ClientFacts DEF Types
<1>8. HoldsExec(t)' <=> HoldsExec(t) BY <1>1, <1>2, <1>3, <1>5, <1>7 DEF HoldsExec
<1>9. At(t)' = s BY <1>5, <1>7 DEF At
<1>10. ASSUME s = "waitList", NEW d \in command[c].waits
       PROVE  d \in my[t].todo \/ Covered(d)'
  <2>1. /\ c \in AllCommands /\ d \in AllCommands
        /\ d \in my[t].todo \/ d = e \/ Covered(d)
    BY <1>1, <1>3, <1>10, ClientFacts, TypeFacts, HolderFacts DEF OwnCommand
  <2>2. Sent(d) BY <2>1, <1>10, ClientFacts DEF CommandInv, After
  <2>3. d = e => Covered(d) BY <1>1, <1>2, <2>1, <2>2, NothingToNotify
  <2> QED BY <1>2, <2>1, <2>3, SameFacts
<1>11. Client(t)'
  <2>1. Shape(t)' BY <1>2, <1>3, <1>5, <1>7, <1>9, SameFacts, ClientFacts DEF Shape
  <2>2. OwnCommand(t)'
    <3>1. ASSUME s = "waitMarker" PROVE OwnCommand(t)'
      BY <1>1, <1>2, <1>3, <1>5, <1>7, <1>9, <3>1, SameFacts, ClientFacts DEF OwnCommand
    <3>2. ASSUME s = "waitList" PROVE OwnCommand(t)'
      BY <1>1, <1>2, <1>3, <1>5, <1>7, <1>9, <1>10, <3>2, ClientFacts DEF OwnCommand
    <3>3. ASSUME s = "unlock" PROVE OwnCommand(t)'
      BY <1>1, <1>2, <1>3, <1>5, <1>7, <1>9, <3>3, SameFacts, ClientFacts DEF OwnCommand
    <3>4. ASSUME s = "sleep" PROVE OwnCommand(t)'
      BY <1>1, <1>2, <1>3, <1>5, <1>7, <1>9, <3>4, SameFacts, ClientFacts DEF OwnCommand
    <3> QED BY <1>3, <3>1, <3>2, <3>3, <3>4
  <2>3. OwnMarker(t)' BY <1>5, <1>7 DEF OwnMarker
  <2>4. DueOf(t)' BY <1>1, <1>2, <1>3, <1>5, <1>7, <1>9, SameFacts, ClientFacts DEF DueOf
  <2> QED BY <2>1, <2>2, <2>3, <2>4 DEF Client
<1>12. s \notin Busy /\ s \in Labels /\ pc[t] \notin Busy \cup {"finished"} BY <1>2, <1>3 DEF Busy, Labels
<1>13. /\ l.marker = None /\ my[t].marker = None /\ l.cmd = my[t].cmd
       /\ l.on = my[t].on /\ l.op = my[t].op /\ my' = [my EXCEPT ![t] = l]
  BY <1>1, <1>3, <1>5, <1>7
<1> QED BY <1>2, <1>6, <1>8, <1>11, <1>12, <1>13, GoOnStep

----------------------------------------
(* Steps that create a command. *)
LEMMA CreatedFacts ==
  ASSUME IInv, NEW x \in AllCommands, command[x].status = "new", NEW q \in Queues,
         NEW W \in SUBSET AllCommands, \A e \in W : Sent(e),
         NEW kind \in {"work", "record", "marker", "cpuWait"},
         x \in Commands => kind # "cpuWait", x \notin Commands => W = {} /\ kind \in {"marker", "cpuWait"},
         created' \in Nat, x \in Commands => x <= created', handles' = handles,
         queue' = queue, ran' = ran,
         command' = Created(x, kind, q, W)
  PROVE  /\ \A c \in AllCommands : c # x => command'[c] = command[c]
         /\ command' \in [AllCommands -> CommandObject]
         /\ command'[x].kind = kind /\ command'[x].queue = q /\ command'[x].waits = W
         /\ command'[x].status = "queued" /\ ~Sent(x)
         /\ command'[x].notified = command[x].notified
         /\ command'[x].notifyEvent = command[x].notifyEvent
         /\ Steady /\ SamePackets /\ Before(x)' /\ After(x)'
<1>1. /\ Types /\ RingInv /\ CommandInv /\ Before(x) /\ After(x) BY DEF IInv, CommandInv
<1>2. /\ \A c \in AllCommands : c # x => command'[c] = command[c]
      /\ command'[x] = [command[x] EXCEPT !.kind = kind, !.queue = q, !.waits = W, !.status = "queued"]
  BY <1>1 DEF Types, Created
<1>3. command[x] \in CommandObject BY <1>1 DEF Types
<1>4. /\ command'[x].kind = kind /\ command'[x].queue = q /\ command'[x].waits = W
      /\ command'[x].status = "queued" /\ command'[x].notified = command[x].notified
      /\ command'[x].notifyEvent = command[x].notifyEvent
      /\ command'[x].next = command[x].next /\ command'[x].hwEvent = command[x].hwEvent
      /\ command'[x] \in CommandObject
  BY <1>2, <1>3 DEF CommandObject, Kinds
<1>5. command' \in [AllCommands -> CommandObject] BY <1>1, <1>2, <1>4 DEF Types, Created
<1>6. SamePackets BY DEF SamePackets
<1>7. ~Sent(x) /\ ~Live(x) /\ ~Complete(x) BY <1>1 DEF Before, Live, Complete
<1>8. Steady
  <2>1. ASSUME NEW c \in AllCommands
        PROVE  /\ Live(c) => command'[c].kind = command[c].kind /\ command'[c].queue = command[c].queue
               /\ Complete(c) => Complete(c)'
               /\ command'[c].hwEvent = command[c].hwEvent
               /\ command'[c].notifyEvent = command[c].notifyEvent
    BY <1>2, <1>4, <1>7 DEF Complete
  <2> QED BY <1>6, <2>1, SteadyStep
<1>9. ~Sent(x)' /\ x \notin ran' /\ \A c : Sent(c) => Sent(c)' BY <1>6, <1>7, PacketsSame DEF Sent
<1>10. Before(x)'
  <2>1. x \in Commands /\ x > created' => FALSE BY <1>1, DirectDispatchAssumption DEF Types, Commands
  <2>2. x \notin Commands => command[x].notifyEvent = None BY <1>1 DEF Before
  <2>3. command[x].next = None BY <1>1 DEF Before
  <2> QED BY <1>4, <1>9, <2>1, <2>2, <2>3 DEF Before
<1>11. After(x)'
  <2>1. ~command'[x].hwEvent BY <1>1, <1>4, <1>7, Zenon DEF After
  <2>2. x \notin handles' BY <1>1, <1>7 DEF After
  <2> QED BY <1>4, <1>9, <2>1, <2>2 DEF After, Complete
<1> QED BY <1>2, <1>4, <1>5, <1>6, <1>7, <1>8, <1>10, <1>11

(* The call of t, whose locals become l, may create x on queue q, of a kind
   and with the events of W to wait for. *)
MayCreate(t, x, q, W, kind, l) ==
  /\ pc[t] \in {"idle", "waitMarker", "fence"}
  /\ x \in Commands /\ command[x].status = "new"
  /\ \A u \in Clients : u # t => my[u].cmd # x
  /\ x <= created' /\ created' \in 0..MaxCommands /\ created <= created'
  /\ q \in Queues /\ W \subseteq l.todo /\ kind \in {"work", "record", "marker"}
  /\ l \in Locals /\ l.cmd = x /\ l.on = q /\ l.marker = None /\ l.event = None
  /\ l.op # "none" /\ (l.op = "record" => kind = "record")
  /\ \A d \in l.todo : Sent(d)
  /\ \A d \in l.due : Sent(d) /\ command[d].queue = q
  /\ \/ l.on = my[t].on /\ l.op = my[t].op
     \/ /\ pc[t] = "idle" /\ Open(q)
        /\ l.op = "terminate" => \A u \in Clients \ {t} : my[u].on # q

LEMMA CreateStep ==
  ASSUME IInv, NEW t \in Clients, NEW x, NEW q, NEW W, NEW kind, NEW l,
         MayCreate(t, x, q, W, kind, l),
         command' = Created(x, kind, q, W),
         pc' = [pc EXCEPT ![t] = "waitList"], my' = [my EXCEPT ![t] = l],
         handles' = handles, queue' = queue, armed' = armed, ran' = ran,
         execution' = execution, notifyLock' = notifyLock
  PROVE  IInv'
<1> USE DEF MayCreate
<1>1. /\ x \in AllCommands /\ W \in SUBSET AllCommands /\ x # None /\ created' \in Nat /\ t \in Threads
      /\ my[t].marker = None /\ my[t].event = None /\ pc[t] \notin Busy
      /\ ~HoldsExec(t) /\ pc[t] # "finished" /\ Types /\ CommandInv
  BY ClientFacts, MarkerFacts, DirectDispatchAssumption DEF Shape, AtHome, Busy, HoldsExec, AllCommands, Locals
<1>2. /\ \A c \in AllCommands : c # x => command'[c] = command[c]
      /\ command' \in [AllCommands -> CommandObject]
      /\ command'[x].kind = kind /\ command'[x].queue = q /\ command'[x].waits = W
      /\ command'[x].status = "queued" /\ ~Sent(x)
      /\ command'[x].notified = command[x].notified
      /\ command'[x].notifyEvent = command[x].notifyEvent
      /\ Steady /\ SamePackets /\ Before(x)' /\ After(x)'
  <2>1. \A e \in W : Sent(e) OBVIOUS
  <2> QED BY <1>1, <2>1, CreatedFacts
<1>3. /\ pc'[t] = "waitList" /\ my'[t] = l
      /\ \A u \in Threads : u # t => pc'[u] = pc[u] /\ my'[u] = my[u]
  BY <1>1 DEF Types
<1>4. Types' BY <1>1, <1>2 DEF Types, Labels
<1>5. ~HoldsExec(t)' /\ pc'[t] \notin Busy BY <1>3 DEF HoldsExec, Busy
<1>6. PlaceKept(t) BY <1>1, <1>3 DEF PlaceKept
<1>7. At(t)' = "waitList" BY <1>3 DEF At
<1>8. \A d \in l.todo \cup l.due : d \in AllCommands /\ Sent(d)' /\ d # x BY <1>2 DEF Locals, Steady
<1>9. Client(t)'
  <2>1. Shape(t)' BY <1>3, <1>7, <1>8 DEF Shape
  <2>2. OwnCommand(t)' BY <1>1, <1>2, <1>3, <1>7 DEF OwnCommand
  <2>3. OwnMarker(t)' BY <1>3 DEF OwnMarker
  <2>4. DueOf(t)' BY <1>2, <1>3, <1>7, <1>8 DEF DueOf
  <2> QED BY <2>1, <2>2, <2>3, <2>4 DEF Client
<1>10. Creates(t, x) BY <1>1, <1>2 DEF Creates, Kept
<1>11. Between(t, x, None)
  <2>1. None \notin AllCommands BY DirectDispatchAssumption DEF AllCommands
  <2>2. \A c \in AllCommands : /\ command'[c].notified = command[c].notified
                               /\ command'[c].notifyEvent = command[c].notifyEvent
    BY <1>2
  <2>3. my[t].event \notin AllCommands BY <1>1, <2>1
  <2>4. \A e \in Commands : NotifyMarker(e) # x BY MarkerFacts
  <2> QED BY <2>1, <2>2, <2>3, <2>4 DEF Between
<1>12. LockSame(t) BY <1>1, <1>5 DEF LockSame
<1> QED BY <1>1, <1>2, <1>3, <1>4, <1>5, <1>6, <1>9, <1>10, <1>11, <1>12, CallStep

LEMMA LaunchStep ==
  ASSUME IInv, NEW t \in Clients, NEW q \in Queues, NEW what \in {"launch", "copy", "record"},
         Launch(t, what, q)
  PROVE  IInv'
<1>1. PICK x, kind : x = created + 1 /\ kind = IF what = "record" THEN "record" ELSE "work" OBVIOUS
<1>2. /\ pc[t] = "idle" /\ Open(q) /\ created < MaxCommands /\ created' = x
      /\ what \in Operations /\ command' = Created(x, kind, q, {})
      /\ handles' = handles /\ queue' = queue /\ armed' = armed /\ ran' = ran
      /\ execution' = execution /\ notifyLock' = notifyLock
      /\ pc' = [pc EXCEPT ![t] = "waitList"]
  BY <1>1 DEF Launch, Call, Goto, locks, gpu
<1>3. PICK l : l = Locally(t, what, q) OBVIOUS
<1>4. /\ l.op = what /\ l.on = q /\ l.due = {} /\ l.cmd = x
      /\ l.marker = None /\ l.todo = {} /\ l.event = None
  BY <1>1, <1>3 DEF Locally, AtHome
<1>5. /\ x \in Commands /\ x \in AllCommands /\ command[x].status = "new" /\ x <= x
      /\ x \in 0..MaxCommands /\ created <= x /\ \A u \in Clients : my[u].cmd # x
  BY <1>1, <1>2, FreshFacts, ClientFacts, DirectDispatchAssumption
<1>6. l \in Locals BY <1>1, <1>2, <1>3, <1>5 DEF Locally, AtHome, Locals, Labels, Optional
<1>7. my' = [my EXCEPT ![t] = l] BY <1>3 DEF Launch
<1>8. MayCreate(t, x, q, {}, kind, l) BY <1>1, <1>2, <1>4, <1>5, <1>6 DEF MayCreate
<1> QED BY <1>2, <1>7, <1>8, CreateStep

LEMMA StreamWaitStep ==
  ASSUME IInv, NEW t \in Clients, NEW q \in Queues, NEW e \in handles, StreamWait(t, q, e)
  PROVE  IInv'
<1>1. PICK x : x = created + 1 OBVIOUS
<1>2. /\ pc[t] = "idle" /\ Open(q) /\ created < MaxCommands /\ created' = x
      /\ "streamWait" \in Operations /\ command' = Created(x, "marker", q, {e})
      /\ handles' = handles /\ queue' = queue /\ armed' = armed /\ ran' = ran
      /\ execution' = execution /\ notifyLock' = notifyLock
      /\ pc' = [pc EXCEPT ![t] = "waitList"]
  BY <1>1 DEF StreamWait, Call, Goto, locks, gpu
<1>3. PICK l : l = [Locally(t, "streamWait", q) EXCEPT !.todo = {e}] OBVIOUS
<1>4. /\ l.op = "streamWait" /\ l.on = q /\ l.due = {} /\ l.cmd = x
      /\ l.marker = None /\ l.todo = {e} /\ l.event = None
  BY <1>1, <1>3 DEF Locally, AtHome
<1>5. /\ x \in Commands /\ x \in AllCommands /\ command[x].status = "new" /\ x <= x
      /\ x \in 0..MaxCommands /\ created <= x /\ \A u \in Clients : my[u].cmd # x
  BY <1>1, <1>2, FreshFacts, ClientFacts, DirectDispatchAssumption
<1>6. e \in AllCommands /\ Sent(e) BY ClientFacts, MarkerFacts DEF CommandInv, After
<1>7. l \in Locals BY <1>1, <1>2, <1>3, <1>5, <1>6 DEF Locally, AtHome, Locals, Labels, Optional
<1>8. my' = [my EXCEPT ![t] = l] BY <1>3 DEF StreamWait
<1>9. {e} \in SUBSET AllCommands /\ {e} \subseteq l.todo /\ \A d \in l.todo : Sent(d) BY <1>4, <1>6
<1>10. MayCreate(t, x, q, {e}, "marker", l) BY <1>2, <1>4, <1>5, <1>7, <1>9 DEF MayCreate
<1> QED BY <1>2, <1>8, <1>10, CreateStep

LEMMA WaitMarkerStep ==
  ASSUME IInv, NEW t \in Clients, WaitMarker(t)
  PROVE  IInv'
<1>1. PICK x, e, q : x = my[t].cmd /\ e = my[t].held /\ q = my[t].on OBVIOUS
<1>2. /\ pc[t] = "waitMarker" /\ created' = created
      /\ command' = Created(x, "marker", q, {e}) /\ my' = [my EXCEPT ![t].todo = {e}]
      /\ handles' = handles /\ queue' = queue /\ armed' = armed /\ ran' = ran
      /\ execution' = execution /\ notifyLock' = notifyLock
      /\ pc' = [pc EXCEPT ![t] = "waitList"]
  BY <1>1 DEF WaitMarker, Goto, locks, gpu
<1>3. my[t].marker = None /\ my[t].event = None /\ At(t) = "waitMarker" BY <1>2, ClientFacts DEF Shape, At
<1>4. /\ q \in Queues /\ my[t].op = "waitStream" /\ my[t] \in Locals
      /\ x \in Commands /\ x <= created /\ command[x].status = "new"
      /\ e \in AllCommands /\ Sent(e)
  BY <1>1, <1>2, <1>3, ClientFacts, TypeFacts DEF OwnCommand, Shape
<1>5. PICK l : l = [my[t] EXCEPT !.todo = {e}] OBVIOUS
<1>6. /\ l.op = my[t].op /\ l.on = q /\ l.due = my[t].due /\ l.cmd = x
      /\ l.marker = None /\ l.todo = {e} /\ l.event = None
  BY <1>1, <1>3, <1>4, <1>5 DEF Locals
<1>7. l \in Locals /\ my' = [my EXCEPT ![t] = l] BY <1>2, <1>4, <1>5, ClientFacts DEF Locals
<1>8. {e} \in SUBSET AllCommands /\ {e} \subseteq l.todo /\ \A d \in l.todo : Sent(d) BY <1>4, <1>6
<1>9. \A d \in l.due : Sent(d) /\ command[d].queue = q BY <1>1, <1>6, ClientFacts DEF DueOf
<1>10. \A u \in Clients : u # t => my[u].cmd # x
  BY <1>1, <1>4, ClientFacts, DirectDispatchAssumption, MarkerFacts DEF LockInv, AllCommands
<1>11. x <= created' /\ created' \in 0..MaxCommands /\ created <= created'
  BY <1>2, <1>4, ClientFacts, DirectDispatchAssumption
<1>12. MayCreate(t, x, q, {e}, "marker", l)
  BY <1>1, <1>2, <1>4, <1>6, <1>7, <1>8, <1>9, <1>10, <1>11 DEF MayCreate
<1> QED BY <1>2, <1>7, <1>12, CreateStep

LEMMA FenceMarkerStep ==
  ASSUME IInv, NEW t \in Clients, pc[t] = "fence",
         command' = Created(my[t].cmd, "marker", my[t].on, {}),
         my' = [my EXCEPT ![t].held = my[t].cmd], pc' = [pc EXCEPT ![t] = "waitList"],
         created' = created, handles' = handles, queue' = queue,
         armed' = armed, ran' = ran, execution' = execution, notifyLock' = notifyLock
  PROVE  IInv'
<1>1. PICK x, q : x = my[t].cmd /\ q = my[t].on OBVIOUS
<1>2. /\ command' = Created(x, "marker", q, {}) /\ my' = [my EXCEPT ![t].held = x]
      /\ pc' = [pc EXCEPT ![t] = "waitList"]
      /\ handles' = handles /\ queue' = queue /\ armed' = armed /\ ran' = ran
      /\ execution' = execution /\ notifyLock' = notifyLock
  BY <1>1
<1>3. my[t].marker = None /\ my[t].event = None /\ At(t) = "fence" /\ my[t].todo = {}
  BY ClientFacts DEF Shape, At
<1>4. /\ q \in Queues /\ my[t].op = "finish" /\ my[t] \in Locals
      /\ x \in Commands /\ x \in AllCommands /\ x <= created /\ command[x].status = "new"
  BY <1>1, <1>3, ClientFacts, TypeFacts, MarkerFacts DEF OwnCommand, Shape
<1>5. PICK l : l = [my[t] EXCEPT !.held = x] OBVIOUS
<1>6. /\ l.op = my[t].op /\ l.on = q /\ l.due = my[t].due /\ l.cmd = x
      /\ l.marker = None /\ l.todo = {} /\ l.event = None
  BY <1>1, <1>3, <1>4, <1>5 DEF Locals
<1>7. l \in Locals /\ my' = [my EXCEPT ![t] = l] BY <1>2, <1>4, <1>5, ClientFacts DEF Locals, Optional
<1>8. \A d \in l.due : Sent(d) /\ command[d].queue = q BY <1>1, <1>6, ClientFacts DEF DueOf
<1>9. \A u \in Clients : u # t => my[u].cmd # x
  BY <1>1, <1>4, ClientFacts, DirectDispatchAssumption DEF LockInv, AllCommands
<1>10. x <= created' /\ created' \in 0..MaxCommands /\ created <= created'
  BY <1>4, ClientFacts, DirectDispatchAssumption
<1>11. MayCreate(t, x, q, {}, "marker", l) BY <1>1, <1>4, <1>6, <1>7, <1>8, <1>9, <1>10 DEF MayCreate
<1> QED BY ONLY <1>2, <1>7, <1>11, IInv, t \in Clients, CreateStep

LEMMA FenceStep ==
  ASSUME IInv, NEW t \in Clients, Fence(t)
  PROVE  IInv'
BY FenceMarkerStep, FenceIdleStep DEF Fence, Goto, locks, gpu

LEMMA TerminateMarkerStep ==
  ASSUME IInv, NEW t \in Clients, NEW q \in Queues, Terminate(t, q), queue[q].head # None
  PROVE  IInv'
<1>1. PICK x, D : x = created + 1 /\ D = Pending(q) OBVIOUS
<1>2. /\ pc[t] = "idle" /\ Open(q) /\ created < MaxCommands /\ created' = x
      /\ execution[q] = None /\ "terminate" \in Operations
      /\ \A u \in Clients \ {t} : my[u].on # q
      /\ command' = Created(x, "marker", q, {})
      /\ handles' = handles /\ queue' = queue /\ armed' = armed /\ ran' = ran
      /\ execution' = execution /\ notifyLock' = notifyLock
      /\ pc' = [pc EXCEPT ![t] = "waitList"]
  BY <1>1 DEF Terminate, Call, Goto, locks, gpu
<1>3. PICK l : l = [Locally(t, "terminate", q) EXCEPT !.due = D, !.held = x] OBVIOUS
<1>4. /\ l.op = "terminate" /\ l.on = q /\ l.due = D /\ l.cmd = x
      /\ l.marker = None /\ l.todo = {} /\ l.event = None
  BY <1>1, <1>3 DEF Locally, AtHome
<1>5. /\ x \in Commands /\ x \in AllCommands /\ command[x].status = "new" /\ x <= x
      /\ x \in 0..MaxCommands /\ created <= x /\ \A u \in Clients : my[u].cmd # x
  BY <1>1, <1>2, FreshFacts, ClientFacts, DirectDispatchAssumption
<1>6. \A d \in D : d \in AllCommands /\ Sent(d) /\ command[d].queue = q BY <1>1, <1>2, QuietQueue
<1>7. l \in Locals
  <2>1. D \subseteq AllCommands /\ x \in Optional /\ created + 1 \in Optional
    BY <1>1, <1>5, <1>6 DEF Optional
  <2>2. Locally(t, "terminate", q) \in Locals BY <1>2, <2>1 DEF Locally, AtHome, Locals, Labels, Optional
  <2> QED BY ONLY <1>3, <2>1, <2>2 DEF Locals
<1>8. my' = [my EXCEPT ![t] = l] BY <1>1, <1>3 DEF Terminate
<1>9. MayCreate(t, x, q, {}, "marker", l) BY <1>2, <1>4, <1>5, <1>6, <1>7 DEF MayCreate
<1> QED BY <1>2, <1>8, <1>9, CreateStep

----------------------------------------
(* Steps of notifyCmdQueue().  The stage of the call itself stays. *)
LEMMA OwnStays ==
  ASSUME IInv, Steady, NEW u \in Clients, At(u)' = At(u),
         NEW c, NEW e, c = my[u].cmd, e = my[u].event,
         my'[u].cmd = my[u].cmd, my'[u].held = my[u].held, my'[u].todo = my[u].todo,
         my'[u].op = my[u].op, my'[u].on = my[u].on, my'[u].due = my[u].due,
         \/ my'[u].event = e
         \/ my'[u].event = None /\ (At(u) = "waitList" /\ e # None => Covered(e)'),
         created' \in Nat, created <= created',
         c # None => /\ command'[c].kind = command[c].kind /\ command'[c].queue = command[c].queue
                     /\ command'[c].waits = command[c].waits
                     /\ ~Sent(c) => ~Sent(c)' /\ command'[c].status = command[c].status
                     /\ Sent(c) => command'[c].status # "new"
  PROVE  OwnCommand(u)' /\ DueOf(u)'
<1>1. /\ Types /\ RingInv /\ CommandInv /\ LockInv /\ u \in Threads
      /\ Shape(u) /\ OwnCommand(u) /\ OwnMarker(u) /\ DueOf(u)
  BY DEF IInv, Threads
<1>3. /\ my[u].event # None => my[u].event \in AllCommands
      /\ my[u].held # None => my[u].held \in AllCommands
      /\ my[u].cmd # None => my[u].cmd \in AllCommands
      /\ my[u].todo \subseteq AllCommands /\ my[u].due \subseteq AllCommands
      /\ \A d \in AllCommands : command[d].waits \subseteq AllCommands
      /\ None \notin AllCommands
  BY <1>1, TypeFacts
<1>5. OwnCommand(u)'
  <2>1. PICK h, f : h = my[u].held /\ f = my'[u].event OBVIOUS
  <2>2. h # None => (Sent(h) => Sent(h)') /\ (Settled(h) => Settled(h)') /\ (Complete(h) => Complete(h)')
    BY <1>3, <2>1 DEF Steady
  <2>3. c # None => /\ command'[c].kind = command[c].kind /\ command'[c].queue = command[c].queue
                    /\ command'[c].waits = command[c].waits
                    /\ Sent(c) <=> Sent(c)'
                    /\ ~Sent(c) => command'[c].status = command[c].status
                    /\ Sent(c) => command'[c].status # "new"
                    /\ \A d \in command[c].waits : d # None /\ (Covered(d) => Covered(d)')
    BY <1>3, <2>1 DEF Steady
  <2>4. c # None => (c <= created => c <= created') BY <1>1, <2>1 DEF OwnCommand, Types, Commands
  <2>5. c # None => /\ command[c].status = "new" => ~Sent(c)
                    /\ command[c].status = "queued" => ~Sent(c)
    BY <1>1, <1>3, <2>1, SentFacts DEF Live
  <2>6. ASSUME At(u) \in {"waitList", "submit"}, NEW d \in command[c].waits
        PROVE  d \in my[u].todo \/ d = f \/ Covered(d)'
    <3>1. c # None /\ (d \in my[u].todo \/ d = e \/ Covered(d)) BY <1>1, <2>1, <2>6 DEF OwnCommand
    <3>2. At(u) = "submit" => e = None BY <1>1, <2>1 DEF Shape, At
    <3> QED BY <2>1, <2>3, <2>6, <3>1, <3>2
  <2>7. f = e \/ f = None BY <2>1
  <2>8. c # None => (c \in Commands /\ c <= created' /\ command'[c].queue = command[c].queue)
    BY <1>1, <2>1, <2>3, <2>4 DEF OwnCommand
  <2> HIDE DEF Covered
  <2> QED BY <1>1, <2>1, <2>2, <2>3, <2>5, <2>6, <2>7, <2>8 DEF OwnCommand
<1>7. DueOf(u)'
  <2>1. ASSUME NEW d \in my[u].due, NEW b \in Optional
        PROVE  /\ Sent(d)' /\ command'[d].queue = my[u].on
               /\ b # None => (Upto(d, b) => Upto(d, b)')
               /\ d \in ran => d \in ran'
    <3>1. Sent(d) /\ command[d].queue = my[u].on /\ d \in AllCommands BY <1>1, <1>3 DEF DueOf
    <3> QED BY <3>1 DEF Steady, Optional
  <2>2. my[u].cmd \in Optional /\ my[u].held \in Optional BY <1>1, TypeFacts
  <2>3. /\ At(u) \in {"reset", "unlock", "enqueued"} => my[u].cmd # None
        /\ At(u) \in {"fence", "hwWait", "await", "sleep", "clear"} => my[u].held # None
    BY <1>1 DEF OwnCommand
  <2> QED BY <1>1, <2>1, <2>2, <2>3 DEF DueOf
<1> QED BY <1>5, <1>7

LEMMA NotifyMarkerStep ==
  ASSUME IInv, NEW t \in Clients, Notify(t),
         ~Complete(my[t].event), ~command[my[t].event].hwEvent, ~command[my[t].event].notified
  PROVE  IInv'
<1>1. PICK e, s, m, q, kind :
         /\ e = my[t].event /\ s = my[t].then /\ m = NotifyMarker(e) /\ q = command[e].queue
         /\ kind = IF s = "sleep" THEN "cpuWait" ELSE "marker"
  OBVIOUS
<1>2. /\ pc[t] = "notify" /\ notifyLock[e] = None
      /\ notifyLock' = [notifyLock EXCEPT ![e] = t]
      /\ command' = [Created(m, kind, q, {}) EXCEPT ![e].notified = TRUE]
      /\ my' = [my EXCEPT ![t].marker = m] /\ pc' = [pc EXCEPT ![t] = "form"]
      /\ created' = created /\ handles' = handles /\ queue' = queue
      /\ armed' = armed /\ ran' = ran /\ execution' = execution
  BY <1>1 DEF Notify, Goto, gpu
<1>3. /\ e # None /\ my[t].marker = None /\ At(t) = s /\ my[t] \in Locals /\ e \in AllCommands
      /\ s \in {"waitMarker", "waitList", "unlock", "sleep"} /\ my[t].on \in Queues
      /\ my[t].op # "none" /\ (my[t].todo # {} => s = "waitList") /\ Settled(e)
  BY <1>1, <1>2, ClientFacts, TypeFacts DEF Shape, At
<1>4. /\ Types /\ CommandInv /\ Before(e) /\ After(e) /\ created \in Nat
  BY <1>3, ClientFacts, DirectDispatchAssumption DEF CommandInv
<1>5. /\ Sent(e) /\ Live(e) /\ q \in Queues /\ e \in Commands
  <2>1. Sent(e) BY <1>1, <1>3 DEF Settled
  <2>2. Live(e) /\ command[e].queue \in Queues BY <2>1, ClientFacts, SentFacts
  <2>3. command[e].kind = "work" BY <1>1, <1>4, <2>1 DEF After
  <2>4. e \in Commands BY <1>4, <2>2, <2>3 DEF Before, Live
  <2> QED BY <1>1, <2>1, <2>2, <2>4
<1>6. /\ m \in AllCommands /\ m \notin Commands /\ m # e /\ m # None
      /\ \A d \in Commands : NotifyMarker(d) = m => d = e
  BY <1>1, <1>5, MarkerFacts, DirectDispatchAssumption DEF AllCommands
<1>7. command[m].status = "new" /\ command[e].notifyEvent = None
  BY <1>1, <1>4, <1>5 DEF CommandInv, Pairing
<1>8. /\ \A c \in AllCommands : c # m /\ c # e => command'[c] = command[c]
      /\ command'[e] = [command[e] EXCEPT !.notified = TRUE]
      /\ command'[m] = [command[m] EXCEPT !.kind = kind, !.queue = q, !.waits = {}, !.status = "queued"]
      /\ DOMAIN command' = AllCommands
  BY <1>2, <1>3, <1>4, <1>6 DEF Types, Created
<1>9. /\ command[e] \in CommandObject /\ command[m] \in CommandObject
      /\ kind \in {"cpuWait", "marker"}
  BY <1>1, <1>3, <1>4, <1>6 DEF Types
<1>10. /\ command'[m].kind = kind /\ command'[m].queue = q /\ command'[m].waits = {}
       /\ command'[m].status = "queued" /\ command'[m].notified = command[m].notified
       /\ command'[m].notifyEvent = command[m].notifyEvent
       /\ command'[m].next = command[m].next /\ command'[m].hwEvent = command[m].hwEvent
       /\ command'[m] \in CommandObject
  BY <1>5, <1>8, <1>9 DEF CommandObject, Kinds
<1>11. /\ Kept(e) /\ command'[e].notified /\ command'[e].notifyEvent = None
       /\ command'[e] \in CommandObject
  BY <1>7, <1>8, <1>9 DEF CommandObject, Kept
<1>12. \A c \in AllCommands : c # m => Kept(c) BY <1>8, <1>11 DEF Kept
<1>13. \A c \in AllCommands : command'[c].notifyEvent = command[c].notifyEvent BY <1>7, <1>8, <1>10, <1>11
<1>14. command' \in [AllCommands -> CommandObject]
  <2>1. \A c \in AllCommands : command'[c] \in CommandObject BY <1>4, <1>8, <1>10, <1>11 DEF Types
  <2> QED BY <1>2, <1>8, <2>1 DEF Created
<1>15. /\ pc'[t] = "form" /\ my'[t] = [my[t] EXCEPT !.marker = m]
       /\ \A u \in Threads : u # t => pc'[u] = pc[u] /\ my'[u] = my[u]
  BY <1>2, ClientFacts DEF Types
<1>16. /\ my'[t].op = my[t].op /\ my'[t].on = my[t].on /\ my'[t].due = my[t].due
       /\ my'[t].cmd = my[t].cmd /\ my'[t].marker = m /\ my'[t].todo = my[t].todo
       /\ my'[t].event = e /\ my'[t].then = s /\ my'[t].held = my[t].held /\ my'[t] \in Locals
  BY <1>1, <1>3, <1>6, <1>15 DEF Locals, Optional
<1>17. Types' BY <1>2, <1>4, <1>14, <1>15, <1>16, ClientFacts DEF Types, Labels
<1>18. SamePackets BY <1>2 DEF SamePackets
<1>19. ~Sent(m) /\ ~Live(m) /\ ~Complete(m) /\ Before(m) /\ After(m)
  BY <1>4, <1>6, <1>7 DEF CommandInv, Before, Live, Complete
<1>20. Steady
  <2>1. ASSUME NEW c \in AllCommands
        PROVE  /\ Live(c) => command'[c].kind = command[c].kind /\ command'[c].queue = command[c].queue
               /\ Complete(c) => Complete(c)'
               /\ command'[c].hwEvent = command[c].hwEvent
               /\ command'[c].notifyEvent = command[c].notifyEvent
    BY <1>10, <1>12, <1>13, <1>19 DEF Complete, Kept
  <2> QED BY <1>18, <2>1, SteadyStep
<1>21. ~Sent(m)' /\ m \notin ran' /\ Sent(e)' /\ \A c : Sent(c)' <=> Sent(c)
  BY <1>5, <1>18, <1>19, PacketsSame DEF Sent
<1>22. Before(m)' /\ After(m)'
  <2>1. Before(m)'
    <3>1. command'[m].next = None /\ command'[m].notifyEvent = None BY <1>6, <1>7, <1>10, <1>19 DEF Before
    <3> QED BY <1>5, <1>6, <1>9, <1>10, <1>21, <3>1 DEF Before
  <2>2. ~command'[m].hwEvent BY <1>10, <1>19, Zenon DEF After
  <2>3. m \notin handles' BY <1>2, <1>19 DEF After
  <2> QED BY <1>10, <1>21, <2>1, <2>2, <2>3 DEF After, Complete
<1>23. notifyLock'[e] = t /\ \A c \in AllCommands : c # e => notifyLock'[c] = notifyLock[c]
  BY <1>2, <1>3, <1>4 DEF Types
<1>24. Pairing(e)'
  <2>1. ~command'[e].hwEvent /\ command'[e].queue = q BY <1>1, <1>11 DEF Kept
  <2>2. notifyLock'[e] # None BY <1>23, DirectDispatchAssumption
  <2> QED BY <1>1, <1>10, <1>11, <1>21, <2>1, <2>2 DEF Pairing
<1>25. Creates(t, m) BY <1>6, <1>7, <1>12, <1>22, HolderFacts DEF Creates
<1>26. Between(t, m, e)
  <2>1. \A c \in AllCommands : c # e => command'[c].notified = command[c].notified BY <1>8, <1>10
  <2> QED BY <1>1, <1>2, <1>5, <1>6, <1>11, <1>13, <1>16, <1>23, <1>24, <2>1 DEF Between
<1>27. At(t)' = s BY <1>3, <1>16 DEF At
<1>28. LockSame(t)
  <2>1. HoldsExec(t)' <=> HoldsExec(t) BY <1>1, <1>2, <1>15, <1>16 DEF HoldsExec
  <2>2. ASSUME HoldsExec(t) PROVE Here(t)' = Here(t)
    <3>1. s = "unlock" BY <1>1, <1>2, <2>2 DEF HoldsExec
    <3>2. my[t].cmd = e BY <1>1, <1>3, <3>1, ClientFacts DEF OwnCommand
    <3>3. Current(t) = e /\ Current(t)' = m BY <1>3, <1>6, <1>16, <3>2 DEF Current
    <3> QED BY <1>1, <1>10, <3>3 DEF Here
  <2> QED BY <1>2, <2>1, <2>2 DEF LockSame
<1>29. PlaceKept(t) BY <1>2, <1>16 DEF PlaceKept
<1>30. Client(t)'
  <2>1. Settled(e)' /\ \A d \in my[t].todo : Sent(d)' BY <1>3, <1>20, <1>21, ClientFacts DEF Steady, Shape
  <2>2. Shape(t)' BY <1>3, <1>6, <1>15, <1>16, <1>27, <2>1 DEF Shape
  <2>3. OwnCommand(t)' /\ DueOf(t)'
    <3>0. PICK c : c = my[t].cmd OBVIOUS
    <3>1. ASSUME c # None
          PROVE  /\ command'[c].kind = command[c].kind /\ command'[c].queue = command[c].queue
                 /\ command'[c].waits = command[c].waits
                 /\ ~Sent(c) => ~Sent(c)' /\ command'[c].status = command[c].status
                 /\ Sent(c) => command'[c].status # "new"
      <4>1. Kept(c) /\ c \in AllCommands BY <1>6, <1>12, <3>0, <3>1, HolderFacts
      <4>2. Sent(c) => Live(c) BY ClientFacts, SentFacts
      <4> QED BY <1>21, <4>1, <4>2 DEF Kept, Live
    <3>2. created' \in Nat /\ created <= created' BY <1>2, <1>4
    <3> QED BY <1>1, <1>3, <1>16, <1>20, <1>27, <3>0, <3>1, <3>2, OwnStays
  <2>4. OwnMarker(t)' BY <1>1, <1>5, <1>10, <1>11, <1>15, <1>16, <1>21, <1>23 DEF OwnMarker
  <2> QED BY <2>2, <2>3, <2>4 DEF Client
<1>31. \A u \in Clients : u # t /\ my'[t].cmd # None => my[u].cmd # my'[t].cmd
  BY <1>16, ClientFacts DEF LockInv
<1>32. pc[t] \notin Busy /\ pc'[t] \notin Busy /\ created <= created' BY <1>2, <1>4, <1>15 DEF Busy
<1> QED BY <1>2, <1>15, <1>17, <1>20, <1>25, <1>26, <1>28, <1>29, <1>30, <1>31, <1>32, CallStep

LEMMA NotifiedStep ==
  ASSUME IInv, NEW t \in Clients, Notified(t)
  PROVE  IInv'
<1>1. PICK e, s, m, c : e = my[t].event /\ s = my[t].then /\ m = my[t].marker /\ c = my[t].cmd OBVIOUS
<1>2. /\ pc[t] = "notified"
      /\ command' = [command EXCEPT ![e].notifyEvent = m]
      /\ notifyLock' = [notifyLock EXCEPT ![e] = None]
      /\ my' = [my EXCEPT ![t].event = None, ![t].marker = None] /\ pc' = [pc EXCEPT ![t] = s]
      /\ created' = created /\ handles' = handles /\ queue' = queue
      /\ armed' = armed /\ ran' = ran /\ execution' = execution
  BY <1>1 DEF Notified, Goto, gpu
<1>3. /\ e # None /\ m # None /\ At(t) = s /\ my[t] \in Locals /\ e \in AllCommands
      /\ s \in {"waitMarker", "waitList", "unlock", "sleep"} /\ my[t].on \in Queues
      /\ my[t].op # "none" /\ (my[t].todo # {} => s = "waitList")
      /\ \A d \in my[t].todo : Sent(d)
  BY <1>1, <1>2, ClientFacts, TypeFacts DEF Shape, At
<1>4. /\ Types /\ CommandInv /\ RingInv /\ Before(e) /\ After(e) /\ created \in Nat
  BY <1>3, ClientFacts, DirectDispatchAssumption DEF CommandInv
<1>5. /\ e \in Commands /\ m = NotifyMarker(e) /\ Sent(e) /\ m \in AllCommands /\ m \notin Commands
      /\ command[e].notified /\ notifyLock[e] = t
      /\ command[m].kind = IF s = "sleep" THEN "cpuWait" ELSE "marker"
      /\ Settled(m) /\ (s = "sleep" => e \in ran) /\ m # e /\ m # None
      /\ command[m].queue = command[e].queue
  BY <1>1, <1>2, <1>3, ClientFacts, HolderFacts, MarkerFacts DEF OwnMarker
<1>6. /\ ~command[e].hwEvent /\ command[e].notifyEvent \in {None, m} /\ command[m].status # "new"
      /\ Sent(m) => Upto(e, m)
  BY <1>4, <1>5 DEF CommandInv, Pairing
<1>7. s # "sleep" => Sent(m) /\ command[m].hwEvent /\ command[m].kind = "marker"
  BY <1>4, <1>5 DEF Settled, CommandInv, After
<1>8. /\ \A d \in AllCommands : d # e => command'[d] = command[d]
      /\ command'[e] = [command[e] EXCEPT !.notifyEvent = m]
  BY <1>2, <1>3, <1>4 DEF Types
<1>9. command[e] \in CommandObject BY <1>3, <1>4 DEF Types
<1>10. Kept(e) /\ command'[e].notified = command[e].notified /\ command'[e].notifyEvent = m
       /\ command'[e] \in CommandObject
  BY <1>5, <1>8, <1>9 DEF CommandObject, Kept, Optional
<1>11. \A d \in AllCommands : Kept(d) BY <1>8, <1>10 DEF Kept
<1>12. command' \in [AllCommands -> CommandObject] BY <1>2, <1>4, <1>8, <1>10 DEF Types
<1>13. /\ pc'[t] = s /\ my'[t] = [my[t] EXCEPT !.event = None, !.marker = None]
       /\ \A u \in Threads : u # t => pc'[u] = pc[u] /\ my'[u] = my[u]
  BY <1>2, ClientFacts DEF Types
<1>14. /\ my'[t].op = my[t].op /\ my'[t].on = my[t].on /\ my'[t].due = my[t].due
       /\ my'[t].cmd = my[t].cmd /\ my'[t].marker = None /\ my'[t].todo = my[t].todo
       /\ my'[t].event = None /\ my'[t].then = s /\ my'[t].held = my[t].held /\ my'[t] \in Locals
  BY <1>1, <1>3, <1>13 DEF Locals, Optional
<1>15. Types'
  <2>1. s \in Labels /\ notifyLock' \in [AllCommands -> Clients \cup {None}]
    BY <1>2, <1>3, <1>4 DEF Types, Labels
  <2>2. my' \in [Threads -> Locals] /\ pc' \in [Threads -> Labels]
    BY <1>2, <1>4, <1>13, <1>14, <2>1 DEF Types
  <2> QED BY <1>2, <1>4, <1>12, <2>1, <2>2 DEF Types
<1>16. SamePackets BY <1>2 DEF SamePackets
<1>17. /\ \A d : Sent(d)' <=> Sent(d)
       /\ \A d, b : Upto(d, b)' <=> Upto(d, b)
  BY <1>16, PacketsSame
<1>18. s # "sleep" => Covered(e)'
  <2>1. s # "sleep" => HwEvent(e)' = m BY <1>5, <1>7, <1>10, <1>11 DEF HwEvent, Kept
  <2> QED BY <1>5, <1>6, <1>7, <1>17, <2>1 DEF Covered
<1>19. Steady
  <2>1. ASSUME NEW d \in AllCommands, Covered(d) PROVE Covered(d)'
    <3>1. CASE d = e
      <4>1. s = "sleep" => e \in ran' BY <1>2, <1>5
      <4> QED BY <1>18, <3>1, <4>1 DEF Covered
    <3>2. CASE d # e
      <4>1. command[d].notifyEvent # None => command[d].notifyEvent \in AllCommands
        BY <1>4 DEF Types, CommandObject, Optional
      <4>2. HwEvent(d)' = HwEvent(d) BY <1>8, <1>11, <3>2, <4>1 DEF HwEvent, Kept
      <4> QED BY <1>2, <1>17, <2>1, <4>2 DEF Covered
    <3> QED BY <3>1, <3>2
  <2>2. \A d \in AllCommands : /\ Complete(d)' <=> Complete(d)
                               /\ Settled(d)' <=> Settled(d)
                               /\ command'[d].queue = command[d].queue
    BY <1>11, <1>17 DEF Kept, Complete, Settled
  <2> QED BY <1>2, <1>17, <2>1, <2>2 DEF Steady
<1>20. notifyLock'[e] = None /\ \A d \in AllCommands : d # e => notifyLock'[d] = notifyLock[d]
  BY <1>2, <1>3, <1>4 DEF Types
<1>21. Pairing(e)' BY <1>2, <1>5, <1>6, <1>7, <1>10, <1>11, <1>17, <1>20 DEF Pairing, Kept
<1>22. Creates(t, None)
  <2>1. None \notin AllCommands BY DirectDispatchAssumption DEF AllCommands
  <2> QED BY <1>11, <2>1 DEF Creates
<1>23. Between(t, None, e)
  <2>1. \A d \in AllCommands : d # e => /\ command'[d].notified = command[d].notified
                                        /\ command'[d].notifyEvent = command[d].notifyEvent
    BY <1>8
  <2>2. \A d \in Commands : NotifyMarker(d) # None
    BY MarkerFacts, DirectDispatchAssumption DEF AllCommands
  <2>3. command'[e].notified /\ notifyLock[e] \in {None, t} /\ notifyLock'[e] \in {None, t}
        /\ notifyLock'[e] # t
    BY <1>5, <1>10, <1>20, DirectDispatchAssumption
  <2> QED BY <1>1, <1>5, <1>20, <1>21, <2>1, <2>2, <2>3 DEF Between
<1>24. At(t)' = s BY <1>13, <1>14 DEF At
<1>25. LockSame(t)
  <2>1. HoldsExec(t)' <=> HoldsExec(t) BY <1>1, <1>2, <1>3, <1>13, <1>14 DEF HoldsExec
  <2>2. ASSUME HoldsExec(t) PROVE Here(t)' = Here(t)
    <3>1. s = "unlock" BY <1>1, <1>2, <2>2 DEF HoldsExec
    <3>2. my[t].cmd = e BY <1>1, <1>3, <3>1, ClientFacts DEF OwnCommand
    <3>3. Current(t) = m /\ Current(t)' = e BY <1>1, <1>3, <1>14, <3>2 DEF Current
    <3> QED BY <1>5, <1>10, <3>3 DEF Here, Kept
  <2> QED BY <1>2, <2>1, <2>2 DEF LockSame
<1>26. PlaceKept(t) BY <1>2, <1>14 DEF PlaceKept
<1>27. Client(t)'
  <2>1. Shape(t)' BY <1>3, <1>13, <1>14, <1>17, <1>24 DEF Shape
  <2>2. OwnCommand(t)' /\ DueOf(t)'
    <3>1. ASSUME c # None
          PROVE  /\ command'[c].kind = command[c].kind /\ command'[c].queue = command[c].queue
                 /\ command'[c].waits = command[c].waits
                 /\ ~Sent(c) => ~Sent(c)' /\ command'[c].status = command[c].status
                 /\ Sent(c) => command'[c].status # "new"
      <4>1. Kept(c) /\ c \in AllCommands BY <1>1, <1>11, <3>1, HolderFacts
      <4>2. Sent(c) => Live(c) BY ClientFacts, SentFacts
      <4> QED BY <1>17, <4>1, <4>2 DEF Kept, Live
    <3>2. created' \in Nat /\ created <= created' BY <1>2, <1>4
    <3>3. s = "waitList" => Covered(e)' BY <1>18
    <3>4. At(t)' = At(t) BY <1>3, <1>24
    <3> HIDE DEF Covered
    <3> QED BY <1>1, <1>3, <1>14, <1>19, <3>1, <3>2, <3>3, <3>4, OwnStays
  <2>3. OwnMarker(t)' BY <1>14 DEF OwnMarker
  <2> QED BY <2>1, <2>2, <2>3 DEF Client
<1>28. \A u \in Clients : u # t /\ my'[t].cmd # None => my[u].cmd # my'[t].cmd
  BY <1>14, ClientFacts DEF LockInv
<1>29. pc[t] \notin Busy /\ pc'[t] \notin Busy /\ created <= created' BY <1>2, <1>3, <1>4, <1>13 DEF Busy
<1> QED BY <1>2, <1>13, <1>15, <1>19, <1>22, <1>23, <1>25, <1>26, <1>27, <1>28, <1>29, CallStep

----------------------------------------
(* A step of thread t that works on queue q and on command w, and links or
   sends nothing else; x is the end of the open batch if it links one to it. *)
OnCommand(t, w) ==
  /\ \A c \in AllCommands : c # w =>
       /\ command'[c].kind = command[c].kind /\ command'[c].queue = command[c].queue
       /\ command'[c].waits = command[c].waits /\ command'[c].deps = command[c].deps
       /\ command'[c].hwEvent = command[c].hwEvent /\ command'[c].status = command[c].status
       /\ command'[c].next = command[c].next \/ Live(c)
       /\ Sent(c)' <=> Sent(c)
       /\ c \in ran' <=> c \in ran
  /\ \A c \in AllCommands : /\ command'[c].notified = command[c].notified
                            /\ command'[c].notifyEvent = command[c].notifyEvent
  /\ w \in AllCommands =>
       /\ command'[w].kind = command[w].kind /\ command'[w].queue = command[w].queue
       /\ command'[w].waits = command[w].waits
       /\ command[w].status # "new" /\ command'[w].status # "new"
       /\ Before(w)' /\ After(w)'
       /\ Sent(w) => (command'[w].hwEvent <=> command[w].hwEvent)
       /\ \A e \in Commands : NotifyMarker(e) = w => (Sent(w)' => Sent(w) \/ Upto(e, w)')
       /\ \A u \in Clients : u # t => /\ my[u].cmd = w => Sent(w)
                                      /\ my[u].marker = w => Settled(w)

OnQueue(t, q) ==
  /\ \A p \in Queues : p # q => queue'[p] = queue[p] /\ execution'[p] = execution[p]
  /\ q \in Queues =>
       \/ \A u \in Clients : u # t => execution[q] # u
       \/ /\ queue'[q].head = queue[q].head /\ queue'[q].tail = queue[q].tail
          /\ queue[q].ring = <<>> => queue'[q].ring = <<>>
  /\ t \in Clients /\ pc[t] \in Busy => Here(t) = q

OnLock(t, q) ==
  \/ /\ execution' = execution
     /\ t \in Clients => /\ HoldsExec(t)' <=> HoldsExec(t)
                         /\ HoldsExec(t) => Here(t)' = Here(t)
                         /\ pc'[t] # "submit"
  \/ /\ t \in Clients /\ q \in Queues
     /\ execution[q] \in {t, None} /\ execution'[q] \in {t, None}
     /\ HoldsExec(t)' <=> execution'[q] = t
     /\ HoldsExec(t)' => Here(t)' = q
     /\ HoldsExec(t) => Here(t) = q

OnLocals(t) ==
  /\ \A u \in Threads : u # t => pc'[u] = pc[u] /\ my'[u] = my[u]
  /\ t \in Clients => /\ my'[t].cmd = my[t].cmd /\ my'[t].marker = my[t].marker
                      /\ my[t].marker # None => my'[t].event = my[t].event

LEMMA OthersOnCommand ==
  ASSUME IInv, Steady, NEW t \in Threads, NEW w, OnCommand(t, w),
         created' = created, handles' = handles, notifyLock' = notifyLock
  PROVE  /\ CommandInv'
         /\ \A u \in Clients : u # t /\ my[u].cmd # None =>
              /\ command'[my[u].cmd].kind = command[my[u].cmd].kind
              /\ command'[my[u].cmd].queue = command[my[u].cmd].queue
              /\ command'[my[u].cmd].waits = command[my[u].cmd].waits
         /\ \A u \in Clients, c \in AllCommands : u # t /\ my[u].cmd = c =>
              /\ ~Sent(c) => ~Sent(c)' /\ command'[c].status = command[c].status
              /\ Sent(c) => command'[c].status # "new"
         /\ \A u \in Clients, c \in AllCommands : u # t /\ my[u].marker = c =>
              /\ command'[c].kind = command[c].kind /\ command'[c].queue = command[c].queue
              /\ ~Sent(c) => ~Sent(c)'
              /\ ~Settled(c) => command'[c].status = command[c].status
         /\ \A c \in AllCommands : command[c].status # "new" => command'[c].queue = command[c].queue
<1>1. /\ Types /\ RingInv /\ CommandInv
      /\ \A c \in AllCommands : Before(c) /\ After(c)
      /\ \A e \in Commands : Pairing(e)
      /\ created' \in Nat /\ created <= created'
  BY DirectDispatchAssumption DEF IInv, CommandInv, Types
<1>2. ASSUME NEW c \in AllCommands, c # w PROVE Before(c)' /\ After(c)'
  <2>1. /\ command'[c].kind = command[c].kind /\ command'[c].queue = command[c].queue
        /\ command'[c].waits = command[c].waits /\ command'[c].deps = command[c].deps
        /\ command'[c].hwEvent = command[c].hwEvent /\ command'[c].status = command[c].status
        /\ command'[c].next = command[c].next \/ Live(c)
        /\ Sent(c)' <=> Sent(c)
        /\ c \in ran' <=> c \in ran
        /\ command'[c].notifyEvent = command[c].notifyEvent
    BY <1>2 DEF OnCommand
  <2>2. (Live(c)' <=> Live(c)) /\ (Complete(c)' <=> Complete(c)) BY <2>1 DEF Live, Complete
  <2> QED BY <1>1, <2>1, <2>2, CommandStays
<1>3. \A c \in AllCommands : Before(c)' /\ After(c)' BY <1>2 DEF OnCommand
<1>4. ASSUME NEW e \in Commands PROVE Pairing(e)'
  <2>1. PICK m : m = NotifyMarker(e) OBVIOUS
  <2>2. e \in AllCommands /\ m \in AllCommands BY <2>1, MarkerFacts
  <2>3. /\ command'[e].notified = command[e].notified
        /\ command'[e].notifyEvent = command[e].notifyEvent
        /\ notifyLock'[e] = notifyLock[e]
    BY <2>2 DEF OnCommand
  <2>4. command[e].notified => (command'[e].hwEvent <=> command[e].hwEvent)
    <3>1. command[e].notified => Sent(e) BY <1>1 DEF Pairing
    <3> QED BY <2>2, <3>1 DEF OnCommand
  <2>5. /\ command'[m].kind = command[m].kind /\ command'[m].queue = command[m].queue
        /\ command'[m].status = "new" <=> command[m].status = "new"
        /\ Sent(m)' => Sent(m) \/ Upto(e, m)'
    BY <2>1, <2>2 DEF OnCommand
  <2> QED BY <2>1, <2>2, <2>3, <2>4, <2>5, PairingStays
<1>5. CommandInv' BY <1>3, <1>4 DEF CommandInv
<1>6. ASSUME NEW u \in Clients, NEW c \in AllCommands, u # t, my[u].cmd = c \/ my[u].marker = c
      PROVE  /\ command'[c].kind = command[c].kind /\ command'[c].queue = command[c].queue
             /\ command'[c].waits = command[c].waits
             /\ my[u].cmd = c =>
                  /\ ~Sent(c) => ~Sent(c)' /\ command'[c].status = command[c].status
                  /\ Sent(c) => command'[c].status # "new"
             /\ my[u].marker = c =>
                  /\ ~Sent(c) => ~Sent(c)'
                  /\ ~Settled(c) => command'[c].status = command[c].status
  <2>1. CASE c # w
    <3>1. Sent(c) => command[c].status # "new" BY <1>1, SentFacts DEF Live
    <3> QED BY <2>1, <3>1 DEF OnCommand
  <2>2. CASE c = w
    <3>1. my[u].cmd = c => Sent(c) /\ command'[c].status # "new" BY <1>6, <2>2 DEF OnCommand
    <3>2. my[u].marker = c => Settled(c) BY <1>6, <2>2 DEF OnCommand
    <3>3. ~Sent(c) /\ Settled(c) => ~Sent(c)' BY <1>3, <1>6, <2>2 DEF Settled, OnCommand, Before
    <3> QED BY <2>2, <3>1, <3>2, <3>3 DEF OnCommand
  <2> QED BY <2>1, <2>2
<1>7. \A u \in Clients : my[u].cmd # None => my[u].cmd \in AllCommands BY HolderFacts
<1>8. \A c \in AllCommands : command[c].status # "new" => command'[c].queue = command[c].queue
  BY DEF OnCommand
<1> QED BY <1>5, <1>6, <1>7, <1>8

LEMMA WorkStep ==
  ASSUME IInv, NEW t \in Threads, Types', Steady, RingInv', OpenInv',
         created' = created, handles' = handles, notifyLock' = notifyLock,
         pc'[Handler] \in {"idle", "complete", "advance"},
         NEW q, NEW w, NEW x,
         OnCommand(t, w), OnQueue(t, q), OnLock(t, q), OnLocals(t), LiveKept(x),
         x \in AllCommands => q \in Queues /\ command[x].queue = q /\ command[x].next = None /\ ~Closing(x),
         t \in Clients => Client(t)',
         WalkInv(t)',
         q \in Queues => BatchInv(q)' /\ LastInv(q)',
         \A m \in armed' : m \in armed \/ ArmedInv(m)'
  PROVE  IInv'
<1>1. /\ Types /\ RingInv /\ CommandInv /\ LockInv /\ created \in Nat
      /\ Threads = Clients \cup {Handler} /\ None \notin AllCommands
      /\ \A u \in Clients : u # None /\ u # Handler
  BY DirectDispatchAssumption DEF IInv, Threads, Types, AllCommands
<1>2. CommandInv' BY OthersOnCommand
<1>3. \A u \in Clients : u # t => pc'[u] = pc[u] /\ my'[u] = my[u] BY <1>1 DEF OnLocals
<1>4. PICK y : y = (IF x \in AllCommands THEN x ELSE None) /\ LiveKept(y)
  <2>1. x \notin AllCommands => LiveKept(None) BY <1>1 DEF LiveKept
  <2> QED BY <2>1
<1>5. \A p \in Queues : p # q => (y # None => command[y].queue # p) BY <1>4
<1>6. y # None => command[y].next = None /\ ~Closing(y) BY <1>4
<1>7. \A p \in Queues : \A u \in Clients :
         p # q /\ execution[p] = u /\ pc[u] \in Busy =>
            u # t /\ execution'[p] = u /\ pc'[u] = pc[u] /\ my'[u] = my[u]
  <2> SUFFICES ASSUME NEW p \in Queues, NEW u \in Clients, p # q, execution[p] = u, pc[u] \in Busy
               PROVE  u # t /\ execution'[p] = u /\ pc'[u] = pc[u] /\ my'[u] = my[u]
    OBVIOUS
  <2>1. Here(u) = p BY <1>1 DEF LockInv
  <2>2. u # t BY <2>1 DEF OnQueue
  <2> QED BY <1>3, <2>2 DEF OnQueue
<1>7a. \A p \in Queues : \A u \in Clients :
         p # q /\ execution'[p] = u /\ pc'[u] = "submit" => execution[p] = u /\ pc[u] = "submit"
  <2> SUFFICES ASSUME NEW p \in Queues, NEW u \in Clients, p # q, execution'[p] = u, pc'[u] = "submit"
               PROVE  execution[p] = u /\ pc[u] = "submit"
    OBVIOUS
  <2>1. execution[p] = u /\ HoldsExec(u) /\ Here(u) = p BY <1>1 DEF OnQueue, LockInv
  <2>2. u # t BY <2>1 DEF OnLock
  <2> QED BY <1>3, <2>1, <2>2
<1>8. \A p \in Queues : BatchInv(p)' /\ LastInv(p)'
  <2> SUFFICES ASSUME NEW p \in Queues, p # q PROVE BatchInv(p)' /\ LastInv(p)' OBVIOUS
  <2>1. queue'[p] = queue[p] BY DEF OnQueue
  <2>2. BatchInv(p)' BY <1>4, <1>5, <1>7, <2>1, BatchStays DEF Busy
  <2>3. \A c : InRing(p, c)' => InRing(p, c) BY <2>1 DEF InRing
  <2>4. LastInv(p)' BY <1>4, <1>7, <1>7a, <2>1, <2>3, LastStays DEF Busy
  <2> QED BY <2>2, <2>4
<1>9. \A m \in armed' : ArmedInv(m)' BY <1>4, <1>6, ArmedStays
<1>10. \A u \in Clients : \A p \in Queues : u # t /\ execution[p] = u =>
          /\ queue'[p].head = queue[p].head /\ queue'[p].tail = queue[p].tail
          /\ queue[p].ring = <<>> => queue'[p].ring = <<>>
          /\ execution'[p] = u
  <2> SUFFICES ASSUME NEW u \in Clients, NEW p \in Queues, u # t, execution[p] = u
               PROVE  /\ queue'[p].head = queue[p].head /\ queue'[p].tail = queue[p].tail
                      /\ queue[p].ring = <<>> => queue'[p].ring = <<>>
                      /\ execution'[p] = u
    OBVIOUS
  <2>1. CASE p # q BY <2>1 DEF OnQueue
  <2>2. CASE p = q BY <1>1, <2>2 DEF OnQueue, OnLock
  <2> QED BY <2>1, <2>2
<1>11. \A u \in Threads : WalkInv(u)'
  <2> SUFFICES ASSUME NEW u \in Threads, u # t PROVE WalkInv(u)' OBVIOUS
  <2>1. pc'[u] = pc[u] /\ my'[u] = my[u] BY DEF OnLocals
  <2>2. \A p \in Queues : execution[p] = u =>
           queue'[p].head = queue[p].head /\ queue'[p].tail = queue[p].tail
    <3>1. \A p \in Queues : execution[p] \in Clients \cup {None} BY <1>1 DEF Types
    <3>2. CASE u \in Clients BY <1>10, <3>2
    <3>3. CASE u = Handler BY <3>1, <3>3, DirectDispatchAssumption
    <3> QED BY <1>1, <3>2, <3>3
  <2> QED BY <1>4, <1>6, <2>1, <2>2, WalkStays
<1>12. \A u \in Clients : Client(u)'
  <2> SUFFICES ASSUME NEW u \in Clients, u # t PROVE Client(u)' OBVIOUS
  <2>1. /\ my[u].cmd # None => my[u].cmd \in AllCommands
        /\ my[u].marker # None => /\ my[u].marker \in AllCommands
                                  /\ my[u].event \in AllCommands /\ command[my[u].event].notified
                                  /\ notifyLock[my[u].event] = u
    BY HolderFacts, MarkerFacts
  <2>2. my[u].marker # None => command'[my[u].event].notified /\ notifyLock'[my[u].event] = u
    BY <2>1 DEF OnCommand
  <2>3. PICK c, m : c = my[u].cmd /\ m = my[u].marker OBVIOUS
  <2>4. pc'[u] = pc[u] /\ my'[u] = my[u] /\ created' \in Nat /\ created <= created' BY <1>1, <1>3
  <2>5. c # None => /\ command'[c].kind = command[c].kind /\ command'[c].queue = command[c].queue
                    /\ command'[c].waits = command[c].waits
                    /\ ~Sent(c) => ~Sent(c)' /\ command'[c].status = command[c].status
                    /\ Sent(c) => command'[c].status # "new"
    BY <2>1, <2>3, OthersOnCommand
  <2>6. m # None => /\ command'[m].kind = command[m].kind /\ command'[m].queue = command[m].queue
                    /\ ~Sent(m) => ~Sent(m)'
                    /\ ~Settled(m) => command'[m].status = command[m].status
    BY <2>1, <2>3, OthersOnCommand
  <2>7. \A p \in Queues : execution[p] = u => (queue[p].ring = <<>> => queue'[p].ring = <<>>) BY <1>10
  <2>8. Shape(u)' /\ OwnCommand(u)' /\ OwnMarker(u)' /\ DueOf(u)'
    BY <2>2, <2>3, <2>4, <2>5, <2>6, <2>7, ClientStays
  <2> QED BY <2>8 DEF Client
<1>13. \A u \in Clients : u # t /\ HoldsExec(u) => Here(u)' = Here(u)
  <2> SUFFICES ASSUME NEW u \in Clients, u # t, HoldsExec(u) PROVE Here(u)' = Here(u) OBVIOUS
  <2>1. Current(u)' = Current(u) BY <1>3 DEF Current
  <2>2. Current(u) \in AllCommands /\ command[Current(u)].status # "new" BY HolderFacts
  <2>3. PICK c \in AllCommands : c = Current(u) BY <2>2
  <2>4. command'[c].queue = command[c].queue BY <2>2, <2>3, OthersOnCommand
  <2> QED BY <2>1, <2>3, <2>4 DEF Here
<1>14. LockInv'
  <2>1. ASSUME NEW u \in Clients
        PROVE  /\ HoldsExec(u)' => Here(u)' \in Queues /\ execution'[Here(u)'] = u
               /\ \A p \in Queues : execution'[p] = u => HoldsExec(u)' /\ Here(u)' = p
    <3>1. CASE u # t
      <4>1. HoldsExec(u)' <=> HoldsExec(u) BY <1>3, <3>1 DEF HoldsExec
      <4>2. HoldsExec(u) => Here(u) \in Queues /\ execution[Here(u)] = u BY <1>1 DEF LockInv
      <4>3. \A p \in Queues : execution'[p] = u => execution[p] = u BY <1>1, <3>1 DEF OnQueue, OnLock
      <4> QED BY <1>1, <1>10, <1>13, <3>1, <4>1, <4>2, <4>3 DEF LockInv
    <3>2. CASE u = t /\ execution' = execution
      <4>1. \/ (HoldsExec(t)' <=> HoldsExec(t)) /\ (HoldsExec(t) => Here(t)' = Here(t))
            \/ /\ (HoldsExec(t)' <=> execution'[q] = t) /\ (HoldsExec(t)' => Here(t)' = q)
               /\ q \in Queues /\ (HoldsExec(t) => Here(t) = q)
        BY <3>2 DEF OnLock
      <4> QED BY <1>1, <3>2, <4>1 DEF LockInv
    <3>3. CASE u = t /\ q \in Queues /\ execution'[q] \in {t, None}
               /\ (HoldsExec(t)' <=> execution'[q] = t) /\ (HoldsExec(t)' => Here(t)' = q)
               /\ (HoldsExec(t) => Here(t) = q)
      <4>1. \A p \in Queues : p # q => execution'[p] # t BY <1>1, <3>3 DEF LockInv, OnQueue
      <4> QED BY <3>3, <4>1
    <3> QED BY <3>1, <3>2, <3>3 DEF OnLock
  <2>2. \A u \in Clients : /\ my'[u].cmd = my[u].cmd /\ my'[u].marker = my[u].marker
                           /\ my[u].marker # None => my'[u].event = my[u].event
    BY <1>1 DEF OnLocals
  <2>3. \A e \in AllCommands, u \in Clients : notifyLock'[e] = u => my'[u].marker # None /\ my'[u].event = e
    BY <1>1, <2>2 DEF LockInv
  <2>4. \A u, v \in Clients : my'[u].cmd # None /\ my'[u].cmd = my'[v].cmd => u = v
    BY <1>1, <2>2 DEF LockInv
  <2> QED BY <2>1, <2>3, <2>4 DEF LockInv
<1> QED BY <1>2, <1>8, <1>9, <1>11, <1>12, <1>14 DEF IInv, Client

----------------------------------------
(* Steps that leave execution(), or only move a thread along. *)
LEMMA RingStays ==
  ASSUME IInv, SamePackets, \A c \in AllCommands : Live(c) => command'[c].queue = command[c].queue
  PROVE  RingInv'
<1>1. Types /\ RingInv /\ CommandInv BY DEF IInv
<1>2. \A q \in Queues : \A i \in DOMAIN queue[q].ring :
         command[queue[q].ring[i]].queue = q /\ command'[queue[q].ring[i]].queue = q
  <2> SUFFICES ASSUME NEW q \in Queues, NEW i \in DOMAIN queue[q].ring
               PROVE  command[queue[q].ring[i]].queue = q /\ command'[queue[q].ring[i]].queue = q
    OBVIOUS
  <2>1. PICK c : c = queue[q].ring[i] OBVIOUS
  <2>2. Sent(c) /\ command[c].queue = q BY <1>1, <2>1 DEF RingInv, Sent, InRing
  <2>3. c \in AllCommands /\ Live(c) BY <1>1, <2>2, SentFacts
  <2> QED BY <2>1, <2>2, <2>3
<1> QED BY <1>1, <1>2 DEF RingInv, SamePackets

LEMMA StillFacts ==
  ASSUME IInv, command' = command, SamePackets
  PROVE  /\ Steady /\ RingInv' /\ LiveKept(None) /\ None \notin AllCommands
         /\ \A t \in Threads : OnCommand(t, None)
<1>1. None \notin AllCommands BY DirectDispatchAssumption DEF AllCommands
<1>2. Steady BY SteadyStep DEF Complete
<1>3. RingInv' BY RingStays
<1>4. LiveKept(None) BY DEF LiveKept, Live
<1>5. (\A c : Sent(c)' <=> Sent(c)) /\ ran' = ran BY PacketsSame DEF SamePackets
<1>6. \A t \in Threads : OnCommand(t, None) BY <1>1, <1>5 DEF OnCommand
<1> QED BY <1>1, <1>2, <1>3, <1>4, <1>6

LEMMA UnlockStep ==
  ASSUME IInv, NEW t \in Clients, Unlock(t)
  PROVE  IInv'
<1>1. PICK q, c : q = Here(t) /\ c = my[t].cmd OBVIOUS
<1>2. /\ pc[t] = "unlock" /\ execution' = [execution EXCEPT ![q] = None]
      /\ pc' = [pc EXCEPT ![t] = "enqueued"] /\ my' = my
      /\ created' = created /\ handles' = handles /\ command' = command /\ queue' = queue
      /\ armed' = armed /\ ran' = ran /\ notifyLock' = notifyLock
  BY <1>1 DEF Unlock, Goto, gpu
<1>3. /\ Types /\ LockInv /\ t \in Threads /\ t # Handler
      /\ my[t].marker = None /\ my[t].event = None /\ At(t) = "unlock" /\ my[t].todo = {}
      /\ my[t].on \in Queues /\ my[t].op # "none"
  BY <1>2, ClientFacts DEF Shape, At
<1>4. /\ c # None /\ command[c].queue = my[t].on /\ (my[t].op = "record" => command[c].kind = "record")
      /\ Sent(c) /\ command[c].status # "new" /\ c \in Commands /\ c <= created
  BY <1>1, <1>3, ClientFacts DEF OwnCommand
<1>5. HoldsExec(t) /\ q \in Queues /\ execution[q] = t BY <1>1, <1>2, <1>3 DEF HoldsExec, LockInv
<1>6. /\ pc'[t] = "enqueued" /\ my'[t] = my[t] /\ execution'[q] = None
      /\ \A p \in Queues : p # q => execution'[p] = execution[p]
      /\ \A u \in Threads : u # t => pc'[u] = pc[u] /\ my'[u] = my[u]
  BY <1>2, <1>3, <1>5 DEF Types
<1>7. Types' BY <1>2, <1>3, <1>6 DEF Types, Labels
<1>8. SamePackets /\ Steady /\ RingInv' /\ LiveKept(None) /\ None \notin AllCommands /\ OnCommand(t, None)
  <2>1. SamePackets BY <1>2 DEF SamePackets
  <2> QED BY <1>2, <1>3, <2>1, StillFacts
<1>9. OpenInv'
  <2>1. PlaceKept(t) BY <1>2, <1>6 DEF PlaceKept
  <2>2. \A u \in Clients : u # t => pc'[u] = pc[u] /\ my'[u] = my[u] BY <1>6 DEF Threads
  <2> QED BY <1>2, <2>1, <2>2, PlaceStays
<1>10. OnQueue(t, q) BY <1>2, <1>5, <1>6 DEF OnQueue, Busy
<1>11. OnLock(t, q)
  <2>1. ~HoldsExec(t)' BY <1>6 DEF HoldsExec
  <2> QED BY <1>1, <1>5, <1>6, <2>1, DirectDispatchAssumption DEF OnLock
<1>12. OnLocals(t) BY <1>6 DEF OnLocals
<1>13. At(t)' = "enqueued" BY <1>3, <1>6 DEF At
<1>14. Client(t)'
  <2>1. Shape(t)' BY <1>3, <1>6, <1>13 DEF Shape
  <2>2. OwnCommand(t)' BY <1>1, <1>2, <1>3, <1>4, <1>6, <1>13, SameFacts DEF OwnCommand
  <2>3. OwnMarker(t)' BY <1>3, <1>6 DEF OwnMarker
  <2>4. DueOf(t)' BY <1>1, <1>2, <1>3, <1>6, <1>13, SameFacts, ClientFacts DEF DueOf
  <2> QED BY <2>1, <2>2, <2>3, <2>4 DEF Client
<1>15. WalkInv(t)' BY <1>6 DEF WalkInv
<1>16. BatchInv(q)' /\ LastInv(q)'
  <2>1. \A u \in Clients : ~(execution[q] = u /\ pc[u] \in {"submit", "complete", "advance", "reset"})
    BY <1>2, <1>5
  <2>2. \A u \in Clients : ~(execution'[q] = u) BY <1>6, DirectDispatchAssumption
  <2>3. \A d : InRing(q, d)' => InRing(q, d) BY <1>2 DEF InRing
  <2> QED BY <1>2, <1>5, <1>8, <2>1, <2>2, <2>3, BatchStays, LastStays
<1>17. pc'[Handler] \in {"idle", "complete", "advance"}
  BY <1>3, <1>6, DirectDispatchAssumption DEF IInv, Threads
<1>18. t \in Clients => Client(t)' BY <1>14
<1> QED BY <1>2, <1>3, <1>7, <1>8, <1>9, <1>10, <1>11, <1>12, <1>15, <1>16, <1>17, <1>18, WorkStep

LEMMA ResetStep ==
  ASSUME IInv, NEW t \in Clients, Reset(t)
  PROVE  IInv'
<1>1. PICK q, c, m, s : q = Here(t) /\ c = my[t].cmd /\ m = my[t].marker /\ s = my[t].then OBVIOUS
<1>2. /\ pc[t] = "reset" /\ my' = my
      /\ queue' = [queue EXCEPT ![q].head = None, ![q].size = 0]
      /\ created' = created /\ handles' = handles /\ command' = command
      /\ armed' = armed /\ ran' = ran /\ notifyLock' = notifyLock
  BY <1>1 DEF Reset, gpu
<1>3. \/ /\ m # None /\ execution' = [execution EXCEPT ![q] = IF s = "unlock" THEN t ELSE None]
         /\ pc' = [pc EXCEPT ![t] = "notified"]
      \/ /\ m = None /\ execution' = [execution EXCEPT ![q] = None]
         /\ pc' = [pc EXCEPT ![t] = "enqueued"]
  BY <1>1 DEF Reset, Goto
<1>4. /\ Types /\ LockInv /\ t \in Threads /\ t # Handler /\ t # None
      /\ my[t].on \in Queues /\ my[t].op # "none"
      /\ Shape(t) /\ OwnCommand(t) /\ OwnMarker(t) /\ DueOf(t) /\ created \in Nat
  BY <1>2, ClientFacts, DirectDispatchAssumption DEF Shape
<1>5. HoldsExec(t) /\ q \in Queues /\ execution[q] = t BY <1>1, <1>2, <1>4 DEF HoldsExec, LockInv
<1>6. /\ my'[t] = my[t] /\ pc'[t] = IF m # None THEN "notified" ELSE "enqueued"
      /\ execution'[q] = IF m # None /\ s = "unlock" THEN t ELSE None
      /\ \A p \in Queues : p # q => execution'[p] = execution[p] /\ queue'[p] = queue[p]
      /\ \A u \in Threads : u # t => pc'[u] = pc[u] /\ my'[u] = my[u]
  BY <1>2, <1>3, <1>4, <1>5 DEF Types
<1>7. /\ queue'[q].head = None /\ queue'[q].tail = queue[q].tail /\ queue'[q].last = queue[q].last
      /\ queue'[q].ring = queue[q].ring /\ queue'[q].open = queue[q].open
      /\ queue'[q] \in QueueObject
  <2>1. queue[q] \in QueueObject /\ queue'[q] = [queue[q] EXCEPT !.head = None, !.size = 0]
    BY <1>2, <1>4, <1>5 DEF Types
  <2>2. PICK o, n : o = queue[q] /\ n = queue'[q] OBVIOUS
  <2>3. o \in QueueObject /\ n = [o EXCEPT !.head = None, !.size = 0] BY <2>1, <2>2
  <2>4. n.head = None /\ n.tail = o.tail /\ n.last = o.last /\ n.ring = o.ring /\ n.open = o.open
    BY ONLY <2>3 DEF QueueObject
  <2>5. n \in QueueObject BY ONLY <2>3 DEF QueueObject, Optional
  <2> QED BY <2>2, <2>4, <2>5
<1>8. Types'
  <2>1. queue' \in [Queues -> QueueObject] BY <1>2, <1>4, <1>6, <1>7 DEF Types
  <2>2. execution' \in [Queues -> Clients \cup {None}] /\ pc' \in [Threads -> Labels]
    BY <1>3, <1>4 DEF Types, Labels
  <2> QED BY <1>2, <1>4, <2>1, <2>2 DEF Types
<1>9. SamePackets BY <1>2, <1>6, <1>7 DEF SamePackets
<1>10. Steady /\ RingInv' /\ LiveKept(None) /\ None \notin AllCommands /\ OnCommand(t, None)
  BY <1>2, <1>4, <1>9, StillFacts
<1>11. OpenInv'
  <2>1. PlaceKept(t) BY <1>2, <1>6 DEF PlaceKept
  <2>2. \A u \in Clients : u # t => pc'[u] = pc[u] /\ my'[u] = my[u] BY <1>6 DEF Threads
  <2>3. \A p \in Queues : queue'[p].open = queue[p].open BY <1>6, <1>7
  <2> QED BY <2>1, <2>2, <2>3, PlaceStays
<1>12. OnQueue(t, q) BY <1>1, <1>2, <1>5, <1>6 DEF OnQueue
<1>13. OnLock(t, q)
  <2>1. HoldsExec(t)' <=> execution'[q] = t BY <1>1, <1>4, <1>6 DEF HoldsExec
  <2>2. Here(t)' = q BY <1>1, <1>2, <1>6 DEF Here, Current
  <2> QED BY <1>1, <1>5, <1>6, <2>1, <2>2 DEF OnLock
<1>14. OnLocals(t) BY <1>6 DEF OnLocals
<1>15. /\ \A d : Sent(d)' <=> Sent(d)
       /\ \A d : Settled(d)' <=> Settled(d)
       /\ \A d, b : Upto(d, b)' <=> Upto(d, b)
       /\ \A d : Covered(d)' <=> Covered(d)
       /\ \A d : Complete(d)' <=> Complete(d)
  BY <1>2, <1>9, PacketsSame DEF Settled, Complete, Covered, HwEvent
<1>16. Client(t)'
  <2>1. CASE m = None
    <3>1. /\ my[t].event = None /\ my[t].todo = {} /\ At(t) = "reset" /\ At(t)' = "enqueued"
          /\ pc'[t] = "enqueued"
      BY <1>1, <1>2, <1>4, <1>6, <2>1 DEF Shape, At
    <3>2. Shape(t)' BY <1>4, <1>6, <2>1, <1>1, <3>1 DEF Shape
    <3>3. OwnCommand(t)' BY <1>1, <1>2, <1>4, <1>6, <1>15, <3>1 DEF OwnCommand
    <3>4. OwnMarker(t)' BY <1>1, <1>6, <2>1 DEF OwnMarker
    <3>5. DueOf(t)' BY <1>1, <1>2, <1>4, <1>6, <1>15, <3>1 DEF DueOf
    <3> QED BY <3>2, <3>3, <3>4, <3>5 DEF Client
  <2>2. CASE m # None
    <3>1. /\ my[t].event # None /\ At(t) = s /\ At(t)' = s /\ pc'[t] = "notified"
      BY <1>1, <1>2, <1>4, <1>6, <2>2 DEF Shape, At
    <3>2. Shape(t)' BY <1>1, <1>4, <1>6, <1>15, <2>2, <3>1 DEF Shape
    <3>3. OwnCommand(t)' /\ DueOf(t)'
      <4>1. PICK e : e = my[t].event OBVIOUS
      <4>2. c # None => (Sent(c) => command'[c].status # "new")
        BY <1>1, <1>2, HolderFacts, ClientFacts, SentFacts DEF Live
      <4>3. c # None => /\ command'[c].kind = command[c].kind /\ command'[c].queue = command[c].queue
                        /\ command'[c].waits = command[c].waits
                        /\ ~Sent(c) => ~Sent(c)' /\ command'[c].status = command[c].status
                        /\ Sent(c) => command'[c].status # "new"
        BY <1>2, <1>15, <4>2
      <4>4. created' \in Nat /\ created <= created' BY <1>2, <1>4
      <4> QED BY <1>1, <1>6, <1>10, <3>1, <4>1, <4>3, <4>4, OwnStays
    <3>4. OwnMarker(t)' BY <1>1, <1>2, <1>4, <1>6, <1>15, <3>1 DEF OwnMarker
    <3> QED BY <3>2, <3>3, <3>4 DEF Client
  <2> QED BY <2>1, <2>2
<1>17. WalkInv(t)' BY <1>6 DEF WalkInv
<1>18. BatchInv(q)' /\ LastInv(q)'
  <2>1. BatchInv(q)' BY <1>7 DEF BatchInv
  <2>2. LastOk(q) BY <1>2, <1>5 DEF IInv, LastInv
  <2>3. PICK b, r : b = queue[q].last /\ r = queue[q].ring OBVIOUS
  <2>4. LastOk(q)' BY <1>2, <1>7, <1>15, <2>2, <2>3 DEF LastOk
  <2>5. SubmitOk(q)' BY <1>4, <1>6, DirectDispatchAssumption DEF SubmitOk
  <2> QED BY <2>1, <2>4, <2>5 DEF LastInv
<1>19. pc'[Handler] \in {"idle", "complete", "advance"}
  BY <1>4, <1>6, DirectDispatchAssumption DEF IInv, Threads
<1>20. t \in Clients => Client(t)' BY <1>16
<1> QED BY <1>2, <1>4, <1>8, <1>10, <1>11, <1>12, <1>13, <1>14, <1>17, <1>18, <1>19, <1>20, WorkStep

(* A finished call leaves nothing of the queue that came before its command. *)
LEMMA ClearStep ==
  ASSUME IInv, NEW t \in Clients, Clear(t)
  PROVE  IInv'
<1>1. PICK q, h, ends, clears :
         /\ q = my[t].on /\ h = my[t].held /\ ends = (my[t].op = "terminate")
         /\ clears = (ends \/ (my[t].op = "finish" /\ queue[q].last = h))
  OBVIOUS
<1>2. /\ pc[t] = "clear" /\ (my[t].op = "finish" => execution[q] = None)
      /\ queue' = [queue EXCEPT ![q].last = IF clears THEN None ELSE @, ![q].open = ~ends]
      /\ my' = [my EXCEPT ![t].held = None] /\ pc' = [pc EXCEPT ![t] = "finished"]
      /\ created' = created /\ handles' = handles /\ command' = command
      /\ armed' = armed /\ ran' = ran /\ notifyLock' = notifyLock /\ execution' = execution
  BY <1>1 DEF Clear, Goto, gpu, locks
<1>3. /\ Types /\ RingInv /\ CommandInv /\ LockInv /\ OpenInv /\ t \in Threads /\ t # Handler /\ t # None
      /\ Shape(t) /\ OwnCommand(t) /\ DueOf(t) /\ my[t] \in Locals
      /\ my[t].marker = None /\ my[t].event = None /\ At(t) = "clear" /\ my[t].todo = {}
      /\ q \in Queues /\ my[t].op # "none"
  BY <1>1, <1>2, ClientFacts, TypeFacts, DirectDispatchAssumption DEF Shape, At, IInv
<1>4. h # None /\ Settled(h) /\ Complete(h) /\ h \in AllCommands BY <1>1, <1>3, TypeFacts DEF OwnCommand
<1>5. \A d : Upto(d, h) => d \in ran
  <2>1. Before(h) /\ After(h) BY <1>3, <1>4 DEF CommandInv
  <2>2. CASE command[h].kind = "cpuWait"
    <3>1. ~Sent(h) BY <2>1, <2>2 DEF Before
    <3> QED BY <3>1 DEF Upto, Sent, InRing
  <2>3. CASE command[h].kind # "cpuWait" BY <1>3, <1>4, <2>1, <2>3, SentFacts DEF After
  <2> QED BY <2>2, <2>3
<1>6. /\ pc'[t] = "finished" /\ my'[t] = [my[t] EXCEPT !.held = None]
      /\ \A p \in Queues : p # q => queue'[p] = queue[p]
      /\ \A u \in Threads : u # t => pc'[u] = pc[u] /\ my'[u] = my[u]
  BY <1>2, <1>3 DEF Types
<1>7. PICK o, n : o = queue[q] /\ n = queue'[q] OBVIOUS
<1>8. /\ o \in QueueObject /\ ends \in BOOLEAN
      /\ n = [o EXCEPT !.last = IF clears THEN None ELSE o.last, !.open = ~ends]
  BY <1>1, <1>2, <1>3, <1>7 DEF Types
<1>9. /\ n.head = o.head /\ n.tail = o.tail /\ n.ring = o.ring
      /\ n.last = (IF clears THEN None ELSE o.last)
  BY ONLY <1>8 DEF QueueObject
<1>10. n.open = ~ends BY ONLY <1>8, Zenon DEF QueueObject
<1>11. n \in QueueObject BY ONLY <1>8 DEF QueueObject, Optional
<1>12. /\ my'[t].op = my[t].op /\ my'[t].on = q /\ my'[t].due = my[t].due
       /\ my'[t].cmd = my[t].cmd /\ my'[t].marker = None /\ my'[t].todo = {}
       /\ my'[t].event = None /\ my'[t].held = None /\ my'[t] \in Locals
  BY <1>1, <1>3, <1>6 DEF Locals, Optional
<1>13. Types'
  <2>1. queue' \in [Queues -> QueueObject]
    <3>1. \A p \in Queues : queue'[p] \in QueueObject BY <1>3, <1>6, <1>7, <1>11 DEF Types
    <3> QED BY <1>2, <1>3, <3>1 DEF Types
  <2>2. my' \in [Threads -> Locals] /\ pc' \in [Threads -> Labels]
    BY <1>2, <1>3, <1>6, <1>12 DEF Types, Labels
  <2> QED BY <1>2, <1>3, <2>1, <2>2 DEF Types
<1>14. SamePackets BY <1>2, <1>6, <1>7, <1>9 DEF SamePackets
<1>15. Steady /\ RingInv' /\ LiveKept(None) /\ None \notin AllCommands /\ OnCommand(t, None)
  BY <1>2, <1>3, <1>14, StillFacts
<1>16. OpenInv'
  <2>1. \A u \in Clients : u # t => pc'[u] = pc[u] /\ my'[u] = my[u] BY <1>6 DEF Threads
  <2>2. \A u, v \in Clients : my'[u].op = "terminate" /\ my'[v].on = my'[u].on => u = v
    BY <1>1, <1>3, <1>12, <2>1 DEF OpenInv
  <2>3. ASSUME NEW u \in Clients, my'[u].on # None, my'[u].op # "terminate" \/ pc'[u] # "finished"
        PROVE  queue'[my'[u].on].open
    <3>1. PICK p : p = my'[u].on OBVIOUS
    <3>2. p \in Queues
      <4>1. u \in Threads BY DEF Threads
      <4> QED BY <1>13, <2>3, <3>1, <4>1 DEF Types, Locals
    <3>3. CASE p # q
      <4>1. u # t BY <1>12, <3>1, <3>3
      <4>2. /\ my[u].on = p /\ my[u].on # None
            /\ my[u].op # "terminate" \/ pc[u] # "finished"
        BY <2>1, <2>3, <3>1, <4>1
      <4>3. queue[p].open BY <1>3, <4>2 DEF OpenInv
      <4> QED BY <1>6, <3>1, <3>2, <3>3, <4>3
    <3>4. CASE p = q
      <4>1. ~ends
        <5>1. SUFFICES ASSUME ends PROVE FALSE OBVIOUS
        <5>2. my'[t].op = "terminate" /\ my'[u].on = my'[t].on BY <1>1, <1>12, <3>1, <3>4, <5>1
        <5>3. u = t BY <2>2, <5>2
        <5> QED BY <1>6, <2>3, <5>2, <5>3
      <4> QED BY <1>7, <1>10, <3>1, <3>4, <4>1
    <3> QED BY <3>3, <3>4
  <2> QED BY <2>2, <2>3 DEF OpenInv
<1>17. OnQueue(t, q) BY <1>2, <1>6, <1>7, <1>9 DEF OnQueue, Busy
<1>18. OnLock(t, q) BY <1>2, <1>6 DEF OnLock, HoldsExec
<1>19. OnLocals(t) BY <1>3, <1>6, <1>12 DEF OnLocals
<1>20. At(t)' = "finished" BY <1>6, <1>12 DEF At
<1>21. Client(t)'
  <2>1. Shape(t)' BY <1>3, <1>6, <1>12, <1>20 DEF Shape
  <2>2. OwnCommand(t)' BY <1>2, <1>3, <1>12, <1>20 DEF OwnCommand
  <2>3. OwnMarker(t)' BY <1>12 DEF OwnMarker
  <2>4. DueOf(t)'
    <3>1. \A d \in my[t].due : Sent(d) /\ command[d].queue = q /\ Upto(d, h) BY <1>1, <1>3 DEF DueOf
    <3>2. \A d : Sent(d)' <=> Sent(d) BY <1>14, PacketsSame
    <3> QED BY <1>2, <1>5, <1>12, <1>20, <3>1, <3>2 DEF DueOf
  <2> QED BY <2>1, <2>2, <2>3, <2>4 DEF Client
<1>22. WalkInv(t)' BY <1>6 DEF WalkInv
<1>23. \A u \in Clients : execution[q] = u /\ pc[u] \in Busy => u # t /\ pc'[u] = pc[u] /\ my'[u] = my[u]
  BY <1>2, <1>6 DEF Busy, Threads
<1>24. BatchInv(q)' BY <1>2, <1>3, <1>7, <1>9, <1>15, <1>23, BatchStays DEF Busy
<1>25. LastInv(q)'
  <2>1. \A u \in Clients : execution'[q] = u /\ pc'[u] = "submit" => execution[q] = u /\ pc[u] = "submit"
    BY <1>2, <1>6 DEF Threads
  <2>2. CASE ~clears
    <3>1. \A d : InRing(q, d)' => InRing(q, d) BY <1>7, <1>9 DEF InRing
    <3>2. queue'[q].open = queue[q].open
      <4>1. ~ends /\ my[t].on # None /\ my[t].op # "terminate"
        BY <1>1, <1>3, <2>2, DirectDispatchAssumption
      <4>2. queue[q].open = TRUE BY <1>1, <1>3, <4>1 DEF OpenInv, Types, QueueObject
      <4> QED BY <1>7, <1>10, <4>1, <4>2
    <3> QED BY <1>2, <1>3, <1>7, <1>9, <1>15, <1>23, <2>1, <2>2, <3>1, <3>2, LastStays DEF Busy
  <2>3. CASE clears
    <3>1. n.last = None BY <1>9, <2>3
    <3>2. ASSUME n.open PROVE n.ring = <<>> /\ execution[q] = None
      <4>1. my[t].op = "finish" /\ o.last = h /\ execution[q] = None
        BY <1>1, <1>2, <1>7, <1>10, <2>3, <3>2
      <4>2. LastOk(q) BY <1>3, <4>1, DirectDispatchAssumption DEF IInv, LastInv
      <4>3. \A i \in DOMAIN o.ring : o.ring[i] \in ran BY <1>4, <1>5, <1>7, <4>1, <4>2 DEF LastOk
      <4>4. DOMAIN o.ring = {} BY <1>3, <1>7, <4>3 DEF RingInv
      <4>5. o.ring = <<>>
        <5>1. PICK r : r = o.ring OBVIOUS
        <5>2. r \in Seq(AllCommands) /\ DOMAIN r = {} BY <1>8, <4>4, <5>1 DEF QueueObject
        <5>3. Len(r) \in Nat /\ 1..Len(r) = {} BY <5>2
        <5>4. Len(r) = 0
          <6>1. \A k \in Nat : k # 0 => 1 \in 1..k OBVIOUS
          <6> QED BY <5>3, <6>1
        <5> QED BY <5>1, <5>2, <5>4, EmptySeq
      <4> QED BY <1>9, <4>1, <4>5
    <3>3. LastOk(q)' BY <1>7, <3>1, <3>2 DEF LastOk
    <3>4. SubmitOk(q)'
      <4> SUFFICES ASSUME NEW u \in Clients, execution'[q] = u, pc'[u] = "submit"
                   PROVE  /\ queue'[q].head # None /\ queue'[q].tail = Current(u)'
                          /\ queue'[q].last = Current(u)' \/ (queue'[q].last = None /\ ~queue'[q].open)
        BY DEF SubmitOk
      <4>1. u # t /\ execution[q] = u /\ pc[u] = "submit" BY <1>6, <2>1
      <4>2. Current(u)' = Current(u) BY <1>6, <4>1 DEF Current, Threads
      <4>3. o.head # None /\ o.tail = Current(u) BY <1>3, <1>7, <4>1 DEF IInv, LastInv, SubmitOk
      <4>4. ~n.open BY <3>2, <4>1, DirectDispatchAssumption
      <4> QED BY <1>7, <1>9, <3>1, <4>2, <4>3, <4>4
    <3> QED BY <3>3, <3>4 DEF LastInv
  <2> QED BY <2>2, <2>3
<1>26. pc'[Handler] \in {"idle", "complete", "advance"}
  BY <1>3, <1>6, DirectDispatchAssumption DEF IInv, Threads
<1> QED
  BY <1>2, <1>3, <1>13, <1>15, <1>16, <1>17, <1>18, <1>19, <1>21, <1>22, <1>24, <1>25, <1>26, WorkStep

(* The handler starts on the list of a marker that has run. *)
LEMMA SignalHandlerStep ==
  ASSUME IInv, NEW m, SignalHandler(m)
  PROVE  IInv'
<1>1. /\ pc[Handler] = "idle" /\ m \in armed /\ m \in ran
      /\ armed' = armed \ {m} /\ pc' = [pc EXCEPT ![Handler] = "complete"]
      /\ my' = [my EXCEPT ![Handler].cursor = command[m].batchHead]
      /\ created' = created /\ handles' = handles /\ command' = command /\ queue' = queue
      /\ ran' = ran /\ notifyLock' = notifyLock /\ execution' = execution
  BY DEF SignalHandler, Goto, locks
<1>2. /\ Types /\ RingInv /\ CommandInv /\ OpenInv /\ Handler \in Threads /\ Handler \notin Clients
      /\ my[Handler] \in Locals /\ m \in AllCommands /\ ArmedInv(m)
      /\ command[m].batchHead \in Optional
  BY <1>1, TypeFacts, DirectDispatchAssumption DEF IInv, Threads, Types
<1>3. PICK b : b = command[m].batchHead OBVIOUS
<1>4. PICK l : l = [my[Handler] EXCEPT !.cursor = b] OBVIOUS
<1>5. l \in Locals /\ l.cursor = b BY ONLY <1>2, <1>3, <1>4 DEF Locals, Optional
<1>6. /\ pc'[Handler] = "complete" /\ my'[Handler] = l
      /\ \A u \in Threads : u # Handler => pc'[u] = pc[u] /\ my'[u] = my[u]
  BY <1>1, <1>2, <1>3, <1>4 DEF Types
<1>7. Types'
  <2>1. my' \in [Threads -> Locals] /\ pc' \in [Threads -> Labels]
    BY <1>1, <1>2, <1>5, <1>6 DEF Types, Labels
  <2> QED BY <1>1, <1>2, <2>1 DEF Types
<1>8. SamePackets /\ Steady /\ RingInv' /\ LiveKept(None) /\ None \notin AllCommands /\ OnCommand(Handler, None)
  <2>1. SamePackets BY <1>1 DEF SamePackets
  <2> QED BY <1>1, <1>2, <2>1, StillFacts
<1>9. \A u \in Clients : pc'[u] = pc[u] /\ my'[u] = my[u] BY <1>2, <1>6 DEF Threads
<1>10. OpenInv' BY <1>1, <1>2, <1>9 DEF OpenInv
<1>11. OnQueue(Handler, None) /\ OnLock(Handler, None) /\ OnLocals(Handler)
  BY <1>1, <1>2, <1>6, DirectDispatchAssumption DEF OnQueue, OnLock, OnLocals
<1>12. WalkInv(Handler)'
  <2>1. PICK B \in SUBSET AllCommands : /\ b \in B /\ List(B, m)
                                        /\ \A d \in B : Upto(d, m)
    BY <1>2, <1>3 DEF ArmedInv
  <2>2. Closing(m) BY <1>2 DEF ArmedInv
  <2>3. \A d \in B : d \in ran /\ Live(d) BY <1>1, <1>2, <2>1, SentFacts
  <2>4. List(B, m)' /\ Closing(m)' BY <1>1, <2>1, <2>2 DEF List, Closing
  <2> QED BY <1>1, <1>2, <1>5, <1>6, <2>1, <2>3, <2>4 DEF WalkInv, Live
<1>13. None \notin Queues BY DirectDispatchAssumption
<1>14. \A a \in armed' : a \in armed BY <1>1
<1> QED BY <1>1, <1>2, <1>6, <1>7, <1>8, <1>10, <1>11, <1>12, <1>13, <1>14, WorkStep

(* The command a client submits, or whose list it walks, is in no other
   call. *)
LEMMA OnlyMine ==
  ASSUME IInv, NEW t \in Clients, Current(t) \in AllCommands
  PROVE  \A u \in Clients : u # t => my[u].cmd # Current(t) /\ my[u].marker # Current(t)
<1>1. LockInv /\ Types /\ None \notin AllCommands BY DirectDispatchAssumption DEF IInv, AllCommands
<1>2. SUFFICES ASSUME NEW u \in Clients, u # t, my[u].cmd = Current(t) \/ my[u].marker = Current(t)
               PROVE  FALSE
  OBVIOUS
<1>3. CASE my[t].marker = None
  <2>1. Current(t) = my[t].cmd /\ my[t].cmd # None BY <1>1, <1>3 DEF Current
  <2>2. Current(t) \in Commands BY <2>1, HolderFacts
  <2>3. my[u].marker = Current(t) BY <1>1, <1>2, <2>1 DEF LockInv
  <2> QED BY <1>1, <2>2, <2>3, HolderFacts
<1>4. CASE my[t].marker # None
  <2>1. Current(t) = my[t].marker BY <1>4 DEF Current
  <2>2. Current(t) \notin Commands /\ Current(t) # None BY <1>4, <2>1, HolderFacts
  <2>3. my[u].marker = Current(t) /\ my[u].marker # None BY <1>2, <2>2, HolderFacts
  <2>4. my[u].event = my[t].event BY <1>4, <2>1, <2>3, HolderFacts, MarkerFacts
  <2> QED BY <1>2, <1>4, <2>3, <2>4, HolderFacts
<1> QED BY <1>3, <1>4

(* The GPU runs the packet at the head of a ring. *)
LEMMA TailFacts ==
  ASSUME NEW S, NEW r \in Seq(S), r # <<>>
  PROVE  /\ 1 \in DOMAIN r /\ Head(r) = r[1] /\ r[1] \in S /\ Tail(r) \in Seq(S)
         /\ \A i \in DOMAIN Tail(r) : i + 1 \in DOMAIN r /\ Tail(r)[i] = r[i + 1] /\ i \in Nat
         /\ \A i \in DOMAIN r : i \in Nat /\ (i # 1 => i - 1 \in DOMAIN Tail(r) /\ Tail(r)[i - 1] = r[i])
<1>1. Len(r) \in Nat /\ Len(r) # 0 /\ DOMAIN r = 1..Len(r) BY EmptySeq
<1>2. Head(r) = r[1] /\ Tail(r) \in Seq(S) /\ DOMAIN Tail(r) = 1..(Len(r) - 1) BY HeadTailProperties
<1>3. \A i \in 1..(Len(r) - 1) : Tail(r)[i] = r[i + 1] BY HeadTailProperties
<1>4. PICK n : n = Len(r) OBVIOUS
<1>5. /\ 1 \in 1..n
      /\ \A i \in 1..(n - 1) : i + 1 \in 1..n /\ i \in Nat
      /\ \A i \in 1..n : i \in Nat /\ (i # 1 => i - 1 \in 1..(n - 1) /\ (i - 1) + 1 = i)
  BY <1>1, <1>4
<1>6. r[1] \in S BY <1>1
<1> QED BY <1>1, <1>2, <1>3, <1>4, <1>5, <1>6

LEMMA ExecuteStep ==
  ASSUME IInv, NEW q \in Queues, Execute(q)
  PROVE  IInv'
<1>1. PICK o, n, r, w : o = queue[q] /\ n = queue'[q] /\ r = o.ring /\ w = Head(r) OBVIOUS
<1>2. /\ r # <<>> /\ command[w].deps \subseteq ran /\ ran' = ran \cup {w}
      /\ queue' = [queue EXCEPT ![q].ring = Tail(r)]
      /\ created' = created /\ handles' = handles /\ command' = command /\ execution' = execution
      /\ armed' = armed /\ notifyLock' = notifyLock /\ pc' = pc /\ my' = my
  BY <1>1 DEF Execute, locks
<1>3. /\ Types /\ RingInv /\ CommandInv /\ OpenInv /\ Handler \in Threads /\ Handler \notin Clients
      /\ o \in QueueObject /\ r \in Seq(AllCommands) /\ None \notin AllCommands
  BY <1>1, TypeFacts, DirectDispatchAssumption DEF IInv, Threads
<1>4. /\ w = r[1] /\ w \in AllCommands /\ 1 \in DOMAIN r
      /\ \A i \in DOMAIN Tail(r) : i + 1 \in DOMAIN r /\ Tail(r)[i] = r[i + 1] /\ i \in Nat
      /\ \A i \in DOMAIN r : i \in Nat /\ (i # 1 => i - 1 \in DOMAIN Tail(r) /\ Tail(r)[i - 1] = r[i])
      /\ Tail(r) \in Seq(AllCommands)
  BY <1>1, <1>2, <1>3, TailFacts
<1>5. n = [o EXCEPT !.ring = Tail(r)] /\ \A p \in Queues : p # q => queue'[p] = queue[p]
  BY <1>1, <1>2, <1>3 DEF Types
<1>6. /\ n.head = o.head /\ n.tail = o.tail /\ n.ring = Tail(r) /\ n.last = o.last /\ n.open = o.open
  BY ONLY <1>3, <1>5 DEF QueueObject
<1>7. n \in QueueObject BY ONLY <1>3, <1>4, <1>5 DEF QueueObject, Optional
<1>8. Types'
  <2>1. queue' \in [Queues -> QueueObject]
    <3>1. \A p \in Queues : queue'[p] \in QueueObject BY <1>1, <1>3, <1>5, <1>7 DEF Types
    <3> QED BY <1>2, <1>3, <3>1 DEF Types
  <2> QED BY <1>2, <1>3, <1>4, <2>1 DEF Types
<1>9. InRing(q, w) /\ w \notin ran /\ Sent(w) /\ command[w].queue = q
  <2>1. InRing(q, w) BY <1>1, <1>4 DEF InRing
  <2> QED BY <1>3, <2>1, SentFacts
<1>10. \A c : InRing(q, c)' => InRing(q, c) /\ c # w
  <2>1. \A i \in DOMAIN Tail(r) : r[i + 1] # w BY <1>1, <1>3, <1>4 DEF RingInv
  <2> QED BY <1>1, <1>4, <1>6, <2>1 DEF InRing
<1>11. \A c : InRing(q, c) => c = w \/ InRing(q, c)'
  <2> SUFFICES ASSUME NEW c, InRing(q, c), c # w PROVE InRing(q, c)' OBVIOUS
  <2>1. PICK i \in DOMAIN r : r[i] = c BY <1>1 DEF InRing
  <2>2. PICK j : j = i - 1 OBVIOUS
  <2>3. j \in DOMAIN Tail(r) /\ Tail(r)[j] = c BY <1>4, <2>1, <2>2
  <2> QED BY <1>1, <1>6, <2>3 DEF InRing
<1>12. \A p \in Queues : \A c : p # q => (InRing(p, c)' <=> InRing(p, c)) BY <1>5 DEF InRing
<1>13. /\ \A c : Sent(c)' <=> Sent(c)
       /\ \A c : c # w => (c \in ran' <=> c \in ran)
  BY <1>2, <1>9, <1>10, <1>11, <1>12 DEF Sent
<1>14. ASSUME NEW d, NEW c, Upto(d, c) PROVE Upto(d, c)'
  <2>1. CASE d \in ran BY <1>2, <2>1 DEF Upto
  <2>2. ASSUME NEW p \in Queues, NEW i \in DOMAIN queue[p].ring, NEW j \in DOMAIN queue[p].ring,
               i <= j, queue[p].ring[i] = d, queue[p].ring[j] = c
        PROVE  Upto(d, c)'
    <3>1. CASE p # q BY <1>5, <2>2, <3>1 DEF Upto
    <3>2. CASE p = q /\ i = 1 BY <1>1, <1>2, <1>4, <2>2, <3>2 DEF Upto
    <3>3. CASE p = q /\ i # 1
      <4>1. i \in DOMAIN r /\ j \in DOMAIN r /\ r[i] = d /\ r[j] = c BY <1>1, <2>2, <3>3
      <4>2. i \in Nat /\ j \in Nat /\ j # 1 /\ i - 1 <= j - 1
        <5>1. i \in Nat /\ j \in Nat /\ i # 0 BY <1>3, <1>4, <4>1
        <5> QED BY ONLY <5>1, <3>3, <2>2
      <4>3. /\ i - 1 \in DOMAIN Tail(r) /\ Tail(r)[i - 1] = d
            /\ j - 1 \in DOMAIN Tail(r) /\ Tail(r)[j - 1] = c
        BY <1>4, <3>3, <4>1, <4>2
      <4>4. PICK a, b : a = i - 1 /\ b = j - 1 OBVIOUS
      <4>5. a \in DOMAIN queue'[q].ring /\ b \in DOMAIN queue'[q].ring /\ a <= b
            /\ queue'[q].ring[a] = d /\ queue'[q].ring[b] = c
        BY <1>1, <1>6, <4>2, <4>3, <4>4
      <4> QED BY <4>5 DEF Upto
    <3> QED BY <3>1, <3>2, <3>3
  <2> QED BY <1>14, <2>1, <2>2 DEF Upto
<1>15. Steady
  <2>1. \A c : HwEvent(c)' = HwEvent(c) BY <1>2 DEF HwEvent
  <2>2. \A c : Covered(c) => Covered(c)' BY <1>2, <1>14, <2>1 DEF Covered
  <2> QED BY <1>2, <1>13, <1>14, <2>2 DEF Steady, Settled, Complete
<1>16. RingInv'
  <2> SUFFICES ASSUME NEW p \in Queues
               PROVE  /\ \A i \in DOMAIN queue'[p].ring : /\ command'[queue'[p].ring[i]].queue = p
                                                          /\ queue'[p].ring[i] \notin ran'
                      /\ \A i, j \in DOMAIN queue'[p].ring : queue'[p].ring[i] = queue'[p].ring[j] => i = j
    BY DEF RingInv
  <2>1. CASE p # q
    <3>1. \A i \in DOMAIN queue[p].ring : queue[p].ring[i] # w BY <1>3, <1>9, <2>1 DEF RingInv
    <3> QED BY <1>2, <1>3, <1>5, <2>1, <3>1 DEF RingInv
  <2>2. CASE p = q
    <3>1. \A i \in DOMAIN Tail(r) : command[Tail(r)[i]].queue = q /\ Tail(r)[i] \notin ran'
      <4>1. \A i \in DOMAIN Tail(r) : InRing(q, Tail(r)[i])' BY <1>1, <1>6 DEF InRing
      <4> QED BY <1>2, <1>3, <1>10, <4>1, SentFacts
    <3>2. ASSUME NEW i \in DOMAIN Tail(r), NEW j \in DOMAIN Tail(r), Tail(r)[i] = Tail(r)[j]
          PROVE  i = j
      <4>1. r[i + 1] = r[j + 1] /\ i + 1 \in DOMAIN r /\ j + 1 \in DOMAIN r /\ i \in Nat /\ j \in Nat
        BY <1>4, <3>2
      <4>2. i + 1 = j + 1 BY <1>1, <1>3, <4>1 DEF RingInv
      <4> QED BY <4>1, <4>2
    <3>3. queue'[p].ring = Tail(r) BY <1>1, <1>6, <2>2
    <3>4. \A i \in DOMAIN Tail(r), j \in DOMAIN Tail(r) : Tail(r)[i] = Tail(r)[j] => i = j BY <3>2
    <3> QED BY <1>2, <2>2, <3>1, <3>3, <3>4
  <2> QED BY <2>1, <2>2
<1>17. OpenInv'
  <2>1. \A p \in Queues : queue'[p].open = queue[p].open BY <1>1, <1>5, <1>6
  <2>2. \A u \in Clients : my[u].on \in Queues \cup {None} BY <1>3 DEF Types, Locals, Threads
  <2> QED BY <1>2, <1>3, <2>1, <2>2 DEF OpenInv
<1>18. OnCommand(Handler, w)
  <2>1. Before(w) /\ After(w) BY <1>3, <1>4 DEF CommandInv
  <2>2. Before(w)' BY <1>2, <1>13, <2>1 DEF Before
  <2>3. \A e \in command[w].waits : e \in ran
    <3>1. \A e \in command[w].waits : e \in ran \/ \E s \in command[w].deps : Upto(e, s)
      BY <1>9, <2>1 DEF After
    <3> QED BY <1>2, <1>3, <3>1, SentFacts
  <2>4. command'[w].hwEvent <=> Sent(w)' /\ command'[w].kind # "work" BY <1>2, <1>13, <2>1 DEF After
  <2>5. After(w)'
    <3>1. /\ \A e \in command'[w].waits : Sent(e)' /\ e \in ran'
          /\ w \in ran'
      BY <1>2, <2>3, <1>13 DEF Sent
    <3>2. w \in handles' => Sent(w)' /\ command'[w].kind = "record" BY <1>2, <1>13, <2>1 DEF After
    <3> QED BY <2>4, <3>1, <3>2 DEF After
  <2>6. command[w].status # "new" BY <1>3, <1>9, SentFacts DEF Live
  <2>7. Settled(w) BY <1>9 DEF Settled
  <2> QED BY <1>2, <1>9, <1>13, <2>2, <2>5, <2>6, <2>7 DEF OnCommand
<1>19. OnQueue(Handler, q) BY <1>1, <1>2, <1>3, <1>5, <1>6 DEF OnQueue
<1>20. OnLock(Handler, q) /\ OnLocals(Handler) /\ LiveKept(None)
  BY <1>2, <1>3 DEF OnLock, OnLocals, LiveKept, Live
<1>21. WalkInv(Handler)'
  <2>1. \A p \in Queues : queue'[p].head = queue[p].head /\ queue'[p].tail = queue[p].tail
    BY <1>1, <1>5, <1>6
  <2> QED BY <1>2, <1>3, <1>15, <1>20, <2>1, WalkStays
<1>22. BatchInv(q)' /\ LastInv(q)'
  <2>1. /\ queue'[q].head = queue[q].head /\ queue'[q].tail = queue[q].tail
        /\ queue'[q].last = queue[q].last /\ queue'[q].open = queue[q].open
        /\ ~(queue[q].ring = <<>>)
    BY <1>1, <1>2, <1>6
  <2> QED BY <1>2, <1>10, <1>15, <1>20, <2>1, BatchStays, LastStays
<1>23. pc'[Handler] \in {"idle", "complete", "advance"} /\ \A m \in armed' : m \in armed BY <1>2 DEF IInv
<1> QED BY <1>2, <1>3, <1>8, <1>15, <1>16, <1>17, <1>18, <1>19, <1>20, <1>21, <1>22, <1>23, WorkStep

(* A thread that goes on with a list under execution() leaves the queue in
   order. *)
LEMMA HolderStays ==
  ASSUME IInv, Steady, LiveKept(None), SamePackets, NEW t \in Clients, NEW q, q = Here(t),
         pc[t] \in Busy, pc'[t] \in {"complete", "advance", "reset"},
         queue' = queue, execution' = execution,
         my'[t].cmd = my[t].cmd, my'[t].marker = my[t].marker,
         pc'[t] = "reset" /\ queue[q].last = Current(t) => LastOk(q)'
  PROVE  q \in Queues /\ BatchInv(q)' /\ LastInv(q)'
<1>1. /\ Types /\ RingInv /\ CommandInv /\ q \in Queues /\ execution[q] = t
      /\ Current(t) \in AllCommands /\ Live(Current(t)) /\ None \notin AllCommands
  BY CurrentFacts, DirectDispatchAssumption DEF IInv, Busy, AllCommands
<1>2. BatchInv(q) /\ LastInv(q) /\ Current(t)' = Current(t) BY <1>1 DEF IInv, Current
<1>3. PICK h, e : h = queue[q].head /\ e = queue[q].tail OBVIOUS
<1>4. BatchInv(q)'
  <2>1. SUFFICES ASSUME h # None PROVE BatchInv(q)' BY <1>3 DEF BatchInv
  <2>2. e \in AllCommands BY <1>2, <1>3, <2>1 DEF BatchInv
  <2>3. PICK B \in SUBSET AllCommands :
           /\ h \in B /\ List(B, e)
           /\ \A d \in B : command[d].queue = q /\ Live(d)
           /\ \A d \in B : d # e => Sent(d)
    BY <1>2, <1>3, <2>1 DEF BatchInv, Live
  <2>4. \A d \in B : /\ command'[d].queue = q /\ Live(d)' /\ command'[d].kind = command[d].kind
                     /\ command'[d].next = command[d].next /\ (Sent(d)' <=> Sent(d))
    BY <1>1, <2>3, PacketsSame DEF LiveKept
  <2>5. List(B, e)' BY <2>3, <2>4 DEF List
  <2>6. ASSUME Closing(e)' \/ ~Sent(e)' PROVE e = Current(t)
    <3>1. Closing(e) \/ ~Sent(e) BY <2>3, <2>4, <2>6 DEF Closing, List
    <3>2. PICK u \in Clients : execution[q] = u /\ e = Current(u) BY <1>2, <1>3, <2>1, <3>1 DEF BatchInv
    <3> QED BY <1>1, <3>2
  <2>7. execution'[q] = t /\ pc'[t] \in {"submit", "complete", "advance", "reset"} BY <1>1
  <2> QED BY <1>2, <1>3, <2>2, <2>3, <2>4, <2>5, <2>6, <2>7 DEF BatchInv, Live
<1>5. LastInv(q)'
  <2>1. SubmitOk(q)' BY <1>1 DEF SubmitOk
  <2>2. CASE LastOk(q)
    <3>1. \A c : InRing(q, c)' => InRing(q, c) BY DEF InRing
    <3>2. LastOk(q)' BY <1>1, <2>2, <3>1, LastOkStays
    <3> QED BY <2>1, <3>2 DEF LastInv
  <2>3. CASE ~LastOk(q)
    <3>1. queue[q].last = Current(t) BY <1>1, <1>2, <2>3 DEF LastInv
    <3>2. CASE pc'[t] = "reset" BY <2>1, <3>1, <3>2 DEF LastInv
    <3>3. CASE pc'[t] # "reset"
      <4>1. Here(t)' = q BY <1>1, <1>2 DEF Here, LiveKept
      <4> QED BY <1>1, <1>2, <2>1, <3>1, <3>3, <4>1 DEF LastInv
    <3> QED BY <3>2, <3>3
  <2> QED BY <2>2, <2>3
<1> QED BY <1>1, <1>4, <1>5

(* flush() has waited for the GPU, and the list is walked under execution(). *)
LEMMA SubmitCpuWaitStep ==
  ASSUME IInv, NEW t \in Clients, SubmitCpuWait(t)
  PROVE  IInv'
<1>1. PICK q, c, o : q = Here(t) /\ c = Current(t) /\ o = queue[q] OBVIOUS
<1>2. /\ pc[t] = "submit" /\ command[c].kind = "cpuWait" /\ o.ring = <<>>
      /\ command' = [command EXCEPT ![c].batchHead = o.head]
      /\ my' = [my EXCEPT ![t].cursor = o.head] /\ pc' = [pc EXCEPT ![t] = "complete"]
      /\ created' = created /\ handles' = handles /\ queue' = queue /\ execution' = execution
      /\ armed' = armed /\ ran' = ran /\ notifyLock' = notifyLock
  BY <1>1 DEF SubmitCpuWait, Goto, gpu, locks
<1>3. /\ Types /\ RingInv /\ CommandInv /\ LockInv /\ OpenInv /\ t \in Threads /\ t # Handler
      /\ Shape(t) /\ OwnCommand(t) /\ OwnMarker(t) /\ DueOf(t) /\ my[t] \in Locals
      /\ q \in Queues /\ c \in AllCommands /\ Live(c) /\ execution[q] = t
      /\ None \notin AllCommands
  BY <1>1, <1>2, ClientFacts, CurrentFacts, TypeFacts, DirectDispatchAssumption
<1>4. Before(c) /\ ~Sent(c) /\ c \notin Commands BY <1>2, <1>3 DEF CommandInv, Before
<1>5. /\ my[t].marker = c /\ my[t].event # None /\ my[t].then = "sleep" /\ At(t) = "sleep"
      /\ my[t].event \in Commands /\ Sent(my[t].event) /\ command[my[t].event].queue = q
  <2>1. my[t].marker = c
    <3>1. my[t].marker = None => c = my[t].cmd /\ c # None BY <1>1, <1>3, CurrentFacts
    <3> QED BY <1>1, <1>4, <3>1, CurrentFacts, HolderFacts
  <2>2. my[t].marker # None BY <1>3, <2>1
  <2>3. my[t].then = "sleep" /\ Sent(my[t].event) BY <1>2, <1>3, <2>1, <2>2 DEF OwnMarker
  <2>4. my[t].event \in Commands /\ command[my[t].event].queue = command[c].queue
    BY <2>1, <2>2, HolderFacts
  <2>5. my[t].event # None BY <1>3, <2>2 DEF Shape
  <2> QED BY <1>1, <2>1, <2>3, <2>4, <2>5 DEF At, Here
<1>6. \A d : Sent(d) /\ command[d].queue = q => d \in ran BY <1>1, <1>2, <1>3, SentFacts DEF InRing
<1>7. o \in QueueObject /\ o.head \in Optional /\ o.tail = c /\ o.head # None
  BY <1>1, <1>2, <1>3, TypeFacts DEF IInv, LastInv, SubmitOk
<1>8. /\ \A d \in AllCommands : d # c => command'[d] = command[d]
      /\ command'[c] = [command[c] EXCEPT !.batchHead = o.head]
      /\ command[c] \in CommandObject
  BY <1>2, <1>3 DEF Types
<1>9. /\ command'[c].kind = command[c].kind /\ command'[c].queue = command[c].queue
      /\ command'[c].waits = command[c].waits /\ command'[c].status = command[c].status
      /\ command'[c].notifyEvent = command[c].notifyEvent /\ command'[c].next = command[c].next
      /\ command'[c].deps = command[c].deps /\ command'[c] \in CommandObject
  BY <1>7, <1>8 DEF CommandObject, Optional
<1>10. command'[c].notified = command[c].notified /\ command'[c].hwEvent = command[c].hwEvent
  BY <1>8 DEF CommandObject
<1>11. \A d \in AllCommands :
         /\ command'[d].kind = command[d].kind /\ command'[d].queue = command[d].queue
         /\ command'[d].waits = command[d].waits /\ command'[d].status = command[d].status
         /\ command'[d].notifyEvent = command[d].notifyEvent /\ command'[d].next = command[d].next
         /\ command'[d].deps = command[d].deps /\ command'[d] \in CommandObject
         /\ command'[d].notified = command[d].notified /\ command'[d].hwEvent = command[d].hwEvent
  BY <1>3, <1>8, <1>9, <1>10 DEF Types
<1>12. PICK l : l = [my[t] EXCEPT !.cursor = o.head] OBVIOUS
<1>13. /\ l.op = my[t].op /\ l.on = my[t].on /\ l.due = my[t].due /\ l.cmd = my[t].cmd
       /\ l.marker = c /\ l.todo = my[t].todo /\ l.event = my[t].event /\ l.then = my[t].then
       /\ l.held = my[t].held /\ l.cursor = o.head /\ l \in Locals
  BY <1>3, <1>5, <1>7, <1>12 DEF Locals
<1>14. /\ pc'[t] = "complete" /\ my'[t] = l
       /\ \A u \in Threads : u # t => pc'[u] = pc[u] /\ my'[u] = my[u]
  BY <1>2, <1>3, <1>12 DEF Types
<1>15. Types'
  <2>1. my' \in [Threads -> Locals] /\ pc' \in [Threads -> Labels]
    BY <1>2, <1>3, <1>13, <1>14 DEF Types, Labels
  <2>2. command' \in [AllCommands -> CommandObject] BY <1>2, <1>3, <1>11 DEF Types
  <2> QED BY <1>2, <1>3, <2>1, <2>2 DEF Types
<1>16. SamePackets BY <1>2 DEF SamePackets
<1>17. Steady /\ RingInv' /\ \A d : Sent(d)' <=> Sent(d)
  BY <1>11, <1>16, SteadyStep, RingStays, PacketsSame DEF Complete
<1>18. LiveKept(None) BY <1>4, <1>8, <1>11 DEF LiveKept, Live
<1>19. OnCommand(t, None) BY <1>2, <1>3, <1>11, <1>17 DEF OnCommand
<1>20. \A u \in Clients : u # t => pc'[u] = pc[u] /\ my'[u] = my[u] BY <1>14 DEF Threads
<1>21. OpenInv'
  <2>1. PlaceKept(t) BY <1>2, <1>13, <1>14 DEF PlaceKept
  <2> QED BY <1>2, <1>20, <2>1, PlaceStays
<1>22. OnQueue(t, q) BY <1>1, <1>2, <1>3 DEF OnQueue
<1>23. OnLock(t, q)
  <2>1. HoldsExec(t) /\ HoldsExec(t)' BY <1>2, <1>14 DEF HoldsExec
  <2>2. Current(t)' = c BY <1>3, <1>13, <1>14 DEF Current
  <2>3. Here(t)' = Here(t) BY <1>1, <1>3, <1>11, <2>2 DEF Here
  <2> QED BY <1>2, <1>14, <2>1, <2>3 DEF OnLock
<1>24. OnLocals(t) BY <1>5, <1>13, <1>14 DEF OnLocals
<1>25. Client(t)'
  <2>1. At(t)' = At(t) BY <1>5, <1>13, <1>14 DEF At
  <2>2. Settled(my[t].event)' BY <1>5, <1>13, <1>14, <1>17 DEF Settled
  <2>3. Shape(t)' BY <1>2, <1>3, <1>5, <1>13, <1>14, <1>17, <2>1, <2>2 DEF Shape
  <2>4. OwnCommand(t)' /\ DueOf(t)'
    <3>1. PICK e, k : e = my[t].event /\ k = my[t].cmd OBVIOUS
    <3>2. k # None => k \in AllCommands /\ (Sent(k) => command[k].status # "new")
      BY <1>3, <3>1, HolderFacts, SentFacts DEF Live
    <3>3. k # None => /\ command'[k].kind = command[k].kind /\ command'[k].queue = command[k].queue
                      /\ command'[k].waits = command[k].waits
                      /\ ~Sent(k) => ~Sent(k)' /\ command'[k].status = command[k].status
                      /\ Sent(k) => command'[k].status # "new"
      BY <1>11, <1>17, <3>2
    <3>4. created' \in Nat /\ created <= created' BY <1>2, <1>3, DirectDispatchAssumption DEF Types
    <3> QED BY <1>13, <1>14, <1>17, <2>1, <3>1, <3>3, <3>4, OwnStays
  <2>5. OwnMarker(t)'
    <3>1. PICK e : e = my[t].event OBVIOUS
    <3>2. /\ e \in Commands /\ e \in AllCommands /\ c = NotifyMarker(e) /\ command[e].notified
          /\ notifyLock[e] = t /\ Sent(e)
      BY <1>3, <1>5, <3>1, MarkerFacts DEF OwnMarker
    <3>3. queue'[command'[c].queue].ring = <<>> BY <1>1, <1>2, <1>9 DEF Here
    <3>4. /\ Sent(e)' /\ command'[e].notified /\ notifyLock'[e] = t /\ e \in ran'
      BY <1>2, <1>5, <1>6, <1>11, <1>17, <3>1, <3>2
    <3>5. /\ my'[t].marker = c /\ my'[t].event = e /\ my'[t].then = "sleep" /\ pc'[t] = "complete"
          /\ command'[c].kind = "cpuWait"
      BY <1>2, <1>5, <1>9, <1>13, <1>14, <3>1
    <3> QED BY <3>2, <3>3, <3>4, <3>5 DEF OwnMarker
  <2> QED BY <2>3, <2>4, <2>5 DEF Client
<1>26. WalkInv(t)'
  <2>1. PICK B \in SUBSET AllCommands :
           /\ o.head \in B /\ List(B, c)
           /\ \A d \in B : command[d].queue = q /\ Live(d)
           /\ \A d \in B : d # c => Sent(d)
    BY <1>1, <1>3, <1>7 DEF IInv, BatchInv, Live
  <2>2. List(B, c)' /\ Closing(c)' BY <1>2, <1>3, <1>11, <2>1 DEF List, Closing
  <2>3. \A d \in B : d \in ran' \/ (d = c /\ command'[d].kind = "cpuWait") BY <1>2, <1>6, <1>9, <2>1
  <2>4. \A d \in B : Live(d)' BY <1>11, <2>1 DEF Live
  <2>5. Current(t)' = c /\ queue'[Here(t)'].tail = c /\ queue'[Here(t)'].head # None
    <3>1. Current(t)' = c BY <1>3, <1>13, <1>14 DEF Current
    <3>2. Here(t)' = q BY <1>1, <1>9, <3>1 DEF Here
    <3> QED BY <1>1, <1>2, <1>7, <3>1, <3>2
  <2> QED BY <1>3, <1>13, <1>14, <2>1, <2>2, <2>3, <2>4, <2>5 DEF WalkInv, Live
<1>27. BatchInv(q)' /\ LastInv(q)'
  BY <1>1, <1>2, <1>5, <1>13, <1>14, <1>16, <1>17, <1>18, HolderStays DEF Busy
<1>28. pc'[Handler] \in {"idle", "complete", "advance"}
  BY <1>3, <1>14, DirectDispatchAssumption DEF IInv, Threads
<1> QED
  BY <1>2, <1>3, <1>15, <1>17, <1>18, <1>19, <1>21, <1>22, <1>23, <1>24, <1>25, <1>26, <1>27, <1>28, WorkStep

(* The walker of a list, and its queue if it is a client. *)
LEMMA WalkerFacts ==
  ASSUME IInv, NEW t \in Clients, pc[t] \in {"complete", "advance"}
  PROVE  /\ my[t].marker # None /\ my[t].marker = Current(t) /\ my[t].event # None
         /\ my[t].then = "sleep" /\ At(t) = "sleep" /\ Here(t) \in Queues /\ execution[Here(t)] = t
         /\ my[t].event \in Commands /\ my[t].event \in ran /\ Sent(my[t].event)
         /\ command[Current(t)].kind = "cpuWait" /\ Current(t) \in AllCommands
         /\ Current(t) \notin Commands /\ ~Sent(Current(t)) /\ HoldsExec(t)
         /\ queue[Here(t)].ring = <<>>
         /\ Current(t) = NotifyMarker(my[t].event) /\ command[my[t].event].notified
         /\ notifyLock[my[t].event] = t
<1>1. /\ Types /\ RingInv /\ CommandInv /\ LockInv /\ Shape(t) /\ OwnMarker(t) BY ClientFacts
<1>2. my[t].marker # None /\ my[t].event # None /\ my[t].then = "sleep" /\ At(t) = "sleep"
  BY <1>1 DEF Shape, OwnMarker, At
<1>3. my[t].marker = Current(t) /\ Current(t) \in AllCommands /\ Current(t) \notin Commands
  BY <1>2, HolderFacts DEF Current
<1>4. /\ my[t].event \in Commands /\ my[t].event \in ran /\ Sent(my[t].event)
      /\ command[Current(t)].kind = "cpuWait" /\ queue[Here(t)].ring = <<>>
      /\ Current(t) = NotifyMarker(my[t].event) /\ command[my[t].event].notified
      /\ notifyLock[my[t].event] = t
  BY <1>1, <1>2, <1>3 DEF OwnMarker, Here
<1>5. ~Sent(Current(t)) BY <1>1, <1>3, <1>4 DEF CommandInv, Before
<1>6. HoldsExec(t) /\ Here(t) \in Queues /\ execution[Here(t)] = t BY <1>1 DEF HoldsExec, LockInv
<1> QED BY <1>2, <1>3, <1>4, <1>5, <1>6

(* A client that walks a list stays in the call it is in. *)
LEMMA WalkerStays ==
  ASSUME IInv, Steady, SamePackets, NEW t \in Clients, pc[t] \in {"complete", "advance"},
         pc'[t] \in {"complete", "advance", "reset"},
         my'[t].op = my[t].op, my'[t].on = my[t].on, my'[t].due = my[t].due,
         my'[t].cmd = my[t].cmd, my'[t].marker = my[t].marker, my'[t].todo = my[t].todo,
         my'[t].event = my[t].event, my'[t].then = my[t].then, my'[t].held = my[t].held,
         created' = created, notifyLock' = notifyLock,
         \A c \in AllCommands :
           /\ command'[c].kind = command[c].kind /\ command'[c].queue = command[c].queue
           /\ command'[c].waits = command[c].waits /\ command'[c].notified = command[c].notified
           /\ command'[c].status = command[c].status \/ (Complete(c)' /\ (c \in Commands => Sent(c))),
         pc'[t] = "reset" => Complete(my[t].marker)
  PROVE  Client(t)'
<1>1. /\ Types /\ RingInv /\ CommandInv /\ Shape(t) /\ OwnMarker(t) /\ t \in Threads BY ClientFacts
<1>2. PICK m, e, k, q : m = my[t].marker /\ e = my[t].event /\ k = my[t].cmd /\ q = command[m].queue
  OBVIOUS
<1>3. /\ m # None /\ e # None /\ my[t].then = "sleep" /\ At(t) = "sleep"
      /\ e \in Commands /\ e \in ran /\ Sent(e) /\ command[m].kind = "cpuWait" /\ m \in AllCommands
      /\ queue[q].ring = <<>> /\ q \in Queues /\ m = NotifyMarker(e) /\ command[e].notified
      /\ notifyLock[e] = t /\ e \in AllCommands
  BY <1>2, WalkerFacts, MarkerFacts DEF Here
<1>4. At(t)' = At(t) BY <1>2, <1>3 DEF At
<1>5. \A c : Sent(c)' <=> Sent(c) BY PacketsSame
<1>6. Shape(t)'
  <2>1. Settled(e)' /\ \A d \in my[t].todo : Sent(d)' BY <1>1, <1>3, <1>5 DEF Settled, Shape
  <2> QED BY <1>1, <1>2, <1>3, <1>4, <2>1 DEF Shape
<1>7. OwnCommand(t)' /\ DueOf(t)'
  <2>1. k # None => k \in Commands /\ k \in AllCommands /\ (Sent(k) => command[k].status # "new")
    BY <1>1, <1>2, HolderFacts, SentFacts DEF Live
  <2>2. k # None => /\ command'[k].kind = command[k].kind /\ command'[k].queue = command[k].queue
                    /\ command'[k].waits = command[k].waits
                    /\ ~Sent(k) => ~Sent(k)' /\ command'[k].status = command[k].status
                    /\ Sent(k) => command'[k].status # "new"
    BY <1>5, <2>1 DEF Complete
  <2>3. created' \in Nat /\ created <= created' BY <1>1, DirectDispatchAssumption DEF Types
  <2> QED BY <1>2, <1>4, <2>2, <2>3, OwnStays
<1>8. OwnMarker(t)'
  <2>1. /\ Sent(e)' /\ command'[e].notified /\ notifyLock'[e] = t /\ e \in ran'
        /\ command'[m].kind = "cpuWait" /\ queue'[command'[m].queue].ring = <<>>
    BY <1>2, <1>3, <1>5 DEF SamePackets
  <2>2. pc'[t] = "reset" => Settled(m)'
    <3>1. Complete(m) => Complete(m)' BY <1>3 DEF Steady
    <3> QED BY <1>2, <2>1, <3>1 DEF Settled
  <2> QED BY <1>2, <1>3, <2>1, <2>2 DEF OwnMarker
<1> QED BY <1>6, <1>7, <1>8 DEF Client

LEMMA SetCompleteStep ==
  ASSUME IInv, NEW t \in Threads, SetComplete(t)
  PROVE  IInv'
<1>1. PICK c : c = my[t].cursor OBVIOUS
<1>2. /\ pc[t] = "complete" /\ command' = [command EXCEPT ![c].status = "complete"]
      /\ pc' = [pc EXCEPT ![t] = "advance"] /\ my' = my /\ queue' = queue /\ execution' = execution
      /\ created' = created /\ handles' = handles
      /\ armed' = armed /\ ran' = ran /\ notifyLock' = notifyLock
  BY <1>1 DEF SetComplete, Goto, gpu, locks
<1>3. /\ Types /\ RingInv /\ CommandInv /\ OpenInv /\ Threads = Clients \cup {Handler}
      /\ Handler \notin Clients /\ None \notin AllCommands /\ None \notin Queues
  BY DirectDispatchAssumption DEF IInv, Threads, AllCommands
<1>4. PICK B \in SUBSET AllCommands, end \in AllCommands :
         /\ c \in B /\ List(B, end) /\ Closing(end)
         /\ t \in Clients => end = Current(t) /\ queue[Here(t)].tail = end /\ queue[Here(t)].head # None
         /\ \A d \in B : d \in ran \/ (t \in Clients /\ d = end /\ command[d].kind = "cpuWait")
         /\ \A d \in B : Live(d)
  BY <1>1, <1>2 DEF IInv, WalkInv, Live
<1>5. c \in AllCommands /\ Live(c) /\ Before(c) /\ After(c) /\ command[c] \in CommandObject
  BY <1>3, <1>4 DEF CommandInv, Types
<1>6. c \in ran \/ (t \in Clients /\ c = Current(t) /\ command[c].kind = "cpuWait" /\ c \notin Commands)
  BY <1>4, <1>5 DEF Before
<1>7. PICK n : n = command'[c] OBVIOUS
<1>8. /\ \A d \in AllCommands : d # c => command'[d] = command[d]
      /\ n = [command[c] EXCEPT !.status = "complete"]
  BY <1>2, <1>3, <1>5, <1>7 DEF Types
<1>9. /\ n.kind = command[c].kind /\ n.queue = command[c].queue /\ n.waits = command[c].waits
      /\ n.status = "complete" /\ n.notifyEvent = command[c].notifyEvent /\ n.next = command[c].next
      /\ n.deps = command[c].deps /\ n.batchHead = command[c].batchHead /\ n \in CommandObject
  BY ONLY <1>5, <1>8 DEF CommandObject
<1>10. n.notified = command[c].notified /\ n.hwEvent = command[c].hwEvent
  BY ONLY <1>5, <1>8 DEF CommandObject
<1>11. \A d \in AllCommands :
         /\ command'[d].kind = command[d].kind /\ command'[d].queue = command[d].queue
         /\ command'[d].waits = command[d].waits /\ (d # c => command'[d].status = command[d].status)
         /\ command'[d].notifyEvent = command[d].notifyEvent /\ command'[d].next = command[d].next
         /\ command'[d].deps = command[d].deps /\ command'[d].batchHead = command[d].batchHead
         /\ command'[d].notified = command[d].notified /\ command'[d].hwEvent = command[d].hwEvent
         /\ command'[d] \in CommandObject
  BY <1>3, <1>5, <1>7, <1>8, <1>9, <1>10 DEF Types
<1>12. Complete(c)' /\ \A d \in AllCommands : d = c \/ command'[d].status = command[d].status
  BY <1>7, <1>9, <1>11 DEF Complete
<1>13. /\ pc'[t] = "advance" /\ \A u \in Threads : u # t => pc'[u] = pc[u] BY <1>2, <1>3 DEF Types
<1>14. Types'
  <2>1. command' \in [AllCommands -> CommandObject] /\ pc' \in [Threads -> Labels]
    BY <1>2, <1>3, <1>11, <1>13 DEF Types, Labels
  <2> QED BY <1>2, <1>3, <2>1 DEF Types
<1>15. SamePackets BY <1>2 DEF SamePackets
<1>16. Steady /\ RingInv' /\ \A d : Sent(d)' <=> Sent(d)
  BY <1>11, <1>12, <1>15, SteadyStep, RingStays, PacketsSame DEF Complete
<1>17. LiveKept(None) BY <1>11, <1>12 DEF LiveKept, Live, Complete
<1>18. c \in ran => Sent(c) BY <1>3, SentFacts
<1>19. OnCommand(t, c)
  <2>1. Before(c)' /\ After(c)'
    <3>1. Before(c)' BY <1>2, <1>5, <1>7, <1>9, <1>16 DEF Before, Live
    <3>2. (command'[c].hwEvent <=> Sent(c)' /\ command'[c].kind # "work") BY <1>5, <1>11, <1>16 DEF After
    <3>3. /\ \A e \in command[c].waits : Sent(e) => Sent(e)'
          /\ \A e \in command[c].waits, s \in command[c].deps : Upto(e, s) => Upto(e, s)'
      BY <1>15, PacketsSame
    <3>4. command[c].kind # "cpuWait" => c \in ran BY <1>6
    <3> QED BY <1>2, <1>5, <1>11, <1>16, <3>1, <3>2, <3>3, <3>4 DEF After
  <2>2. \A u \in Clients : u # t => /\ my[u].cmd = c => Sent(c)
                                    /\ my[u].marker = c => Settled(c)
    BY <1>5, <1>6, <1>18, OnlyMine DEF Settled
  <2>3. command[c].status # "new" /\ command'[c].status # "new" BY <1>5, <1>7, <1>9 DEF Live
  <2> QED BY <1>2, <1>11, <1>12, <1>16, <2>1, <2>2, <2>3 DEF OnCommand
<1>20. PICK q : q = IF t \in Clients THEN Here(t) ELSE None OBVIOUS
<1>21. t \in Clients => q = Here(t) /\ q \in Queues /\ execution[q] = t BY <1>2, <1>20, WalkerFacts
<1>22. OnQueue(t, q) BY <1>2, <1>3, <1>20, <1>21 DEF OnQueue
<1>23. OnLock(t, q)
  <2>1. ASSUME t \in Clients PROVE (HoldsExec(t)' <=> HoldsExec(t)) /\ Here(t)' = Here(t)
    <3>1. HoldsExec(t)' <=> HoldsExec(t) BY <1>2, <1>13 DEF HoldsExec
    <3>2. Current(t)' = Current(t) /\ Current(t) \in AllCommands BY <1>2, <2>1, WalkerFacts DEF Current
    <3>3. Here(t)' = Here(t) BY <1>11, <3>2 DEF Here
    <3> QED BY <3>1, <3>3
  <2> QED BY <1>2, <1>13, <2>1 DEF OnLock
<1>24. OnLocals(t) BY <1>2, <1>13 DEF OnLocals
<1>25. OpenInv'
  <2>1. \A u \in Clients : pc'[u] = "finished" <=> pc[u] = "finished" BY <1>2, <1>3, <1>13
  <2> QED BY <1>2, <1>3, <2>1 DEF OpenInv
<1>26. t \in Clients => Client(t)'
  <2> SUFFICES ASSUME t \in Clients PROVE Client(t)' OBVIOUS
  <2>1. \A d \in AllCommands :
             /\ command'[d].kind = command[d].kind /\ command'[d].queue = command[d].queue
             /\ command'[d].waits = command[d].waits /\ command'[d].notified = command[d].notified
             /\ command'[d].status = command[d].status \/ (Complete(d)' /\ (d \in Commands => Sent(d)))
    BY <1>6, <1>11, <1>12, <1>18
  <2> QED BY <1>2, <1>13, <1>15, <1>16, <2>1, WalkerStays
<1>27. WalkInv(t)'
  <2>1. List(B, end)' /\ Closing(end)' /\ \A d \in B : Live(d)'
    BY <1>4, <1>11, <1>17 DEF List, Closing, LiveKept
  <2>2. \A d \in B : d \in ran' \/ (t \in Clients /\ d = end /\ command'[d].kind = "cpuWait")
    BY <1>2, <1>4, <1>11
  <2>3. t \in Clients => end = Current(t)' /\ queue'[Here(t)'].tail = end /\ queue'[Here(t)'].head # None
    <3> SUFFICES ASSUME t \in Clients
                 PROVE  end = Current(t)' /\ queue'[Here(t)'].tail = end /\ queue'[Here(t)'].head # None
      OBVIOUS
    <3>1. Current(t)' = end BY <1>2, <1>4 DEF Current
    <3>2. Here(t)' = Here(t) BY <1>4, <1>11, <3>1 DEF Here
    <3> QED BY <1>2, <1>4, <3>1, <3>2
  <2> QED BY <1>1, <1>2, <1>4, <1>12, <1>13, <2>1, <2>2, <2>3 DEF WalkInv, Live
<1>28. q \in Queues => BatchInv(q)' /\ LastInv(q)'
  <2> SUFFICES ASSUME q \in Queues PROVE BatchInv(q)' /\ LastInv(q)' OBVIOUS
  <2>1. t \in Clients /\ q = Here(t) BY <1>3, <1>20
  <2> QED BY <1>2, <1>13, <1>15, <1>16, <1>17, <2>1, HolderStays DEF Busy
<1>29. pc'[Handler] \in {"idle", "complete", "advance"} BY <1>3, <1>13 DEF IInv
<1> QED
  BY <1>2, <1>3, <1>14, <1>16, <1>17, <1>19, <1>22, <1>23, <1>24, <1>25, <1>26, <1>27, <1>28, <1>29, WorkStep

LEMMA AdvanceStep ==
  ASSUME IInv, NEW t \in Threads, Advance(t)
  PROVE  IInv'
<1>1. PICK c, n : c = my[t].cursor /\ n = command[c].next OBVIOUS
<1>2. /\ pc[t] = "advance" /\ my' = [my EXCEPT ![t].cursor = n]
      /\ pc' = [pc EXCEPT ![t] = IF n # None THEN "complete" ELSE IF t = Handler THEN "idle" ELSE "reset"]
      /\ command' = command /\ queue' = queue /\ execution' = execution
      /\ created' = created /\ handles' = handles
      /\ armed' = armed /\ ran' = ran /\ notifyLock' = notifyLock
  BY <1>1 DEF Advance, Goto, gpu, locks
<1>3. /\ Types /\ RingInv /\ CommandInv /\ OpenInv /\ Threads = Clients \cup {Handler}
      /\ Handler \notin Clients /\ None \notin AllCommands /\ None \notin Queues
      /\ my[t] \in Locals
  BY TypeFacts, DirectDispatchAssumption DEF IInv, Threads, AllCommands
<1>4. PICK B \in SUBSET AllCommands, end \in AllCommands :
         /\ c \in B /\ List(B, end) /\ Closing(end)
         /\ t \in Clients => end = Current(t) /\ queue[Here(t)].tail = end /\ queue[Here(t)].head # None
         /\ \A d \in B : d \in ran \/ (t \in Clients /\ d = end /\ command[d].kind = "cpuWait")
         /\ \A d \in B : Live(d)
         /\ Complete(c)
  BY <1>1, <1>2 DEF IInv, WalkInv, Live
<1>5. /\ n # None => n \in B
      /\ n = None => c = end
      /\ n \in Optional
  <2>1. c # end => n \in B /\ n # None BY <1>1, <1>3, <1>4 DEF List
  <2>2. c = end => n = None BY <1>1, <1>4 DEF List
  <2> QED BY <1>4, <2>1, <2>2 DEF Optional
<1>6. PICK l : l = [my[t] EXCEPT !.cursor = n] OBVIOUS
<1>7. /\ l.op = my[t].op /\ l.on = my[t].on /\ l.due = my[t].due /\ l.cmd = my[t].cmd
      /\ l.marker = my[t].marker /\ l.todo = my[t].todo /\ l.event = my[t].event
      /\ l.then = my[t].then /\ l.held = my[t].held /\ l.cursor = n /\ l \in Locals
  BY <1>3, <1>5, <1>6 DEF Locals
<1>8. /\ pc'[t] = (IF n # None THEN "complete" ELSE IF t = Handler THEN "idle" ELSE "reset")
      /\ my'[t] = l
      /\ \A u \in Threads : u # t => pc'[u] = pc[u] /\ my'[u] = my[u]
  BY <1>2, <1>3, <1>6 DEF Types
<1>9. Types'
  <2>1. my' \in [Threads -> Locals] /\ pc' \in [Threads -> Labels]
    BY <1>2, <1>3, <1>7, <1>8 DEF Types, Labels
  <2> QED BY <1>2, <1>3, <2>1 DEF Types
<1>10. SamePackets /\ Steady /\ RingInv' /\ LiveKept(None) /\ OnCommand(t, None)
  <2>1. SamePackets BY <1>2 DEF SamePackets
  <2> QED BY <1>2, <2>1, StillFacts
<1>11. PICK q : q = IF t \in Clients THEN Here(t) ELSE None OBVIOUS
<1>12. t \in Clients => q = Here(t) /\ q \in Queues /\ execution[q] = t BY <1>2, <1>11, WalkerFacts
<1>13. OnQueue(t, q) BY <1>2, <1>3, <1>11, <1>12 DEF OnQueue
<1>14. OnLock(t, q)
  <2>1. ASSUME t \in Clients PROVE (HoldsExec(t)' <=> HoldsExec(t)) /\ Here(t)' = Here(t)
    <3>1. HoldsExec(t)' <=> HoldsExec(t) BY <1>2, <1>3, <1>8, <2>1 DEF HoldsExec
    <3>2. Current(t)' = Current(t) BY <1>7, <1>8 DEF Current
    <3>3. Here(t)' = Here(t) BY <1>2, <3>2 DEF Here
    <3> QED BY <3>1, <3>3
  <2> QED BY <1>2, <1>8, <2>1 DEF OnLock
<1>15. OnLocals(t) BY <1>7, <1>8 DEF OnLocals
<1>16. OpenInv'
  <2>1. \A u \in Clients : /\ pc'[u] = "finished" <=> pc[u] = "finished"
                           /\ my'[u].on = my[u].on /\ my'[u].op = my[u].op
    BY <1>2, <1>3, <1>7, <1>8
  <2> QED BY <1>2, <1>3, <2>1 DEF OpenInv
<1>17. t \in Clients => Client(t)'
  <2> SUFFICES ASSUME t \in Clients PROVE Client(t)' OBVIOUS
  <2>1. pc'[t] = "reset" => Complete(my[t].marker) BY <1>2, <1>4, <1>5, <1>8, WalkerFacts
  <2>2. pc'[t] \in {"complete", "advance", "reset"} BY <1>3, <1>8
  <2> QED BY <1>2, <1>7, <1>8, <1>10, <2>1, <2>2, WalkerStays
<1>18. WalkInv(t)'
  <2> SUFFICES ASSUME n # None PROVE WalkInv(t)' BY <1>8 DEF WalkInv
  <2>1. List(B, end)' /\ Closing(end)' /\ \A d \in B : Live(d)' BY <1>2, <1>4 DEF List, Closing, Live
  <2>2. \A d \in B : d \in ran' \/ (t \in Clients /\ d = end /\ command'[d].kind = "cpuWait")
    BY <1>2, <1>4
  <2>3. Current(t)' = Current(t) /\ Here(t)' = Here(t) BY <1>2, <1>7, <1>8 DEF Current, Here
  <2>4. t \in Clients => end = Current(t)' /\ queue'[Here(t)'].tail = end /\ queue'[Here(t)'].head # None
    BY <1>2, <1>4, <2>3
  <2>5. pc'[t] = "complete" /\ my'[t].cursor \in B BY <1>5, <1>7, <1>8
  <2> QED BY <2>1, <2>2, <2>4, <2>5 DEF WalkInv, Live
<1>19. q \in Queues => BatchInv(q)' /\ LastInv(q)'
  <2> SUFFICES ASSUME q \in Queues PROVE BatchInv(q)' /\ LastInv(q)' OBVIOUS
  <2>1. t \in Clients /\ q = Here(t) BY <1>3, <1>11
  <2>2. pc'[t] \in {"complete", "advance", "reset"} BY <1>3, <1>8, <2>1
  <2>3. ASSUME pc'[t] = "reset", queue[q].last = Current(t) PROVE LastOk(q)'
    <3>1. PICK e, m : e = queue[q].last /\ m = Current(t) OBVIOUS
    <3>2. e = m /\ command[m].kind = "cpuWait" /\ queue[q].ring = <<>> /\ command[m].queue = q
      BY <1>2, <2>1, <2>3, <3>1, WalkerFacts DEF Here
    <3>3. Complete(m) BY <1>4, <1>5, <1>8, <2>1, <2>3, <3>1
    <3>4. Settled(m)' /\ command'[m].queue = q /\ queue'[q].last = m /\ queue'[q].ring = <<>>
      BY <1>2, <3>1, <3>2, <3>3 DEF Settled, Complete
    <3>5. DOMAIN <<>> = {} OBVIOUS
    <3>6. \A i \in DOMAIN queue'[q].ring : FALSE BY <3>4, <3>5
    <3> QED BY <3>4, <3>6 DEF LastOk
  <2> QED BY <1>2, <1>7, <1>8, <1>10, <2>1, <2>2, <2>3, HolderStays DEF Busy
<1>20. pc'[Handler] \in {"idle", "complete", "advance"} BY <1>3, <1>8 DEF IInv
<1> QED BY <1>2, <1>3, <1>9, <1>10, <1>13, <1>14, <1>15, <1>16, <1>17, <1>18, <1>19, <1>20, WorkStep

----------------------------------------
(* Steps that submit. *)
LEMMA FormFacts ==
  ASSUME IInv, NEW t \in Clients, pc[t] = "form" \/ (pc[t] = "waitList" /\ my[t].todo = {})
  PROVE  /\ Current(t) \in AllCommands /\ command[Current(t)].status = "queued"
         /\ Here(t) \in Queues /\ ~Sent(Current(t)) /\ command[Current(t)].next = None
         /\ my[t].marker # None => /\ pc[t] = "form" /\ At(t) = my[t].then /\ my[t].event # None
                                   /\ my[t].marker = Current(t) /\ Current(t) \notin Commands
         /\ my[t].marker = None => /\ pc[t] = "waitList" /\ At(t) = "waitList" /\ my[t].event = None
                                   /\ my[t].cmd = Current(t) /\ Current(t) \in Commands
         /\ my[t].on \in Queues /\ my[t].op # "none"
         /\ HoldsExec(t) => execution[Here(t)] = t
         /\ \A p \in Queues : execution[p] = t => p = Here(t)
<1>1. /\ Types /\ RingInv /\ CommandInv /\ LockInv /\ Shape(t) /\ OwnCommand(t) /\ OwnMarker(t)
      /\ None \notin AllCommands
  BY ClientFacts, DirectDispatchAssumption DEF AllCommands
<1>2. my[t].marker # None => /\ pc[t] = "form" /\ At(t) = my[t].then /\ my[t].event # None
                             /\ my[t].marker = Current(t) /\ Current(t) \notin Commands
                             /\ Current(t) \in AllCommands /\ command[Current(t)].status = "queued"
  BY <1>1, HolderFacts DEF Shape, At, Current, OwnMarker
<1>3. my[t].marker = None => /\ pc[t] = "waitList" /\ At(t) = "waitList" /\ my[t].event = None
                             /\ my[t].cmd = Current(t)
  BY <1>1 DEF Shape, At, Current
<1>4. my[t].marker = None => /\ Current(t) \in Commands /\ Current(t) \in AllCommands
                             /\ command[Current(t)].status = "queued"
  BY <1>1, <1>3, MarkerFacts DEF OwnCommand
<1>5. Before(Current(t)) /\ Current(t) \in AllCommands /\ command[Current(t)].status = "queued"
  BY <1>1, <1>2, <1>4 DEF CommandInv
<1>6. Here(t) \in Queues /\ ~Sent(Current(t)) /\ command[Current(t)].next = None BY <1>5 DEF Before, Here
<1>7. my[t].on \in Queues /\ my[t].op # "none" BY <1>1 DEF Shape
<1> QED BY <1>1, <1>2, <1>3, <1>4, <1>5, <1>6, <1>7 DEF LockInv

LEMMA FormStep ==
  ASSUME IInv, NEW t \in Clients, Form(t)
  PROVE  IInv'
<1>1. PICK q, c, o, e, x :
         /\ q = Here(t) /\ c = Current(t) /\ o = queue[q] /\ e = o.tail
         /\ x = IF o.head # None THEN e ELSE None
  OBVIOUS
<1>2. /\ pc[t] = "form" \/ (pc[t] = "waitList" /\ my[t].todo = {})
      /\ execution[q] \in {None, t} /\ execution' = [execution EXCEPT ![q] = t]
      /\ queue' = [queue EXCEPT ![q].head = IF @ = None THEN c ELSE @, ![q].tail = c,
                                ![q].size = @ + 1, ![q].last = c]
      /\ command' = [d \in AllCommands |->
           IF d = c THEN [command[d] EXCEPT !.status = "submitted"]
           ELSE IF d = e /\ o.head # None THEN [command[d] EXCEPT !.next = c]
           ELSE command[d]]
      /\ pc' = [pc EXCEPT ![t] = "submit"] /\ my' = my
      /\ created' = created /\ handles' = handles
      /\ armed' = armed /\ ran' = ran /\ notifyLock' = notifyLock
  BY <1>1 DEF Form, Goto, gpu
<1>3. /\ Types /\ RingInv /\ CommandInv /\ LockInv /\ OpenInv /\ t \in Threads /\ t # Handler
      /\ Shape(t) /\ OwnCommand(t) /\ OwnMarker(t) /\ DueOf(t) /\ o \in QueueObject
      /\ None \notin AllCommands /\ created \in Nat /\ t # None /\ q \in Queues
  BY <1>1, <1>2, ClientFacts, FormFacts, TypeFacts, DirectDispatchAssumption
<1>4. /\ c \in AllCommands /\ command[c].status = "queued" /\ ~Live(c) /\ ~Sent(c) /\ c # None
      /\ command[c].next = None /\ command[c].queue = q /\ command[c] \in CommandObject
  BY <1>1, <1>2, <1>3, FormFacts DEF Live, Here, Types
<1>5. pc[t] \notin Busy /\ \A u \in Clients : execution[q] = u => pc[u] \notin Busy
  BY <1>2, DirectDispatchAssumption DEF Busy
<1>6. /\ queue'[q] = [o EXCEPT !.head = IF o.head = None THEN c ELSE o.head, !.tail = c,
                               !.size = o.size + 1, !.last = c]
      /\ \A p \in Queues : p # q => queue'[p] = queue[p] /\ execution'[p] = execution[p]
      /\ execution'[q] = t /\ pc'[t] = "submit"
      /\ \A u \in Threads : u # t => pc'[u] = pc[u] /\ my'[u] = my[u]
  BY <1>1, <1>2, <1>3 DEF Types
<1>7. PICK n : n = queue'[q] OBVIOUS
<1>8. n = [o EXCEPT !.head = IF o.head = None THEN c ELSE o.head, !.tail = c,
                    !.size = o.size + 1, !.last = c]
  BY <1>6, <1>7
<1>9. /\ n.head = (IF o.head = None THEN c ELSE o.head) /\ n.tail = c /\ n.last = c
      /\ n.ring = o.ring
  BY ONLY <1>3, <1>8 DEF QueueObject
<1>10. n.open = o.open BY ONLY <1>3, <1>8 DEF QueueObject
<1>11. n \in QueueObject
  <2>1. PICK h, k : h = (IF o.head = None THEN c ELSE o.head) /\ k = o.size + 1 OBVIOUS
  <2>2. h \in Optional /\ c \in Optional /\ k \in Nat BY <1>3, <1>4, <2>1 DEF QueueObject, Optional
  <2>3. n = [o EXCEPT !.head = h, !.tail = c, !.size = k, !.last = c] BY <1>8, <2>1
  <2> QED BY ONLY <1>3, <2>2, <2>3 DEF QueueObject
<1>12. /\ x \in AllCommands => /\ command[x].queue = q /\ command[x].next = None /\ ~Closing(x)
                               /\ Sent(x) /\ Live(x) /\ o.head # None /\ x = e
       /\ o.head # None => x \in AllCommands /\ x = e
       /\ x # c
  <2>1. CASE o.head = None BY <1>1, <1>3, <1>4, <2>1
  <2>2. CASE o.head # None
    <3>1. BatchInv(q) BY <1>3 DEF IInv
    <3>2. e \in AllCommands /\ Sent(e) /\ ~Closing(e) BY <1>1, <1>5, <2>2, <3>1 DEF BatchInv, Busy
    <3>3. command[e].queue = q /\ command[e].next = None BY <1>1, <2>2, <3>1 DEF BatchInv, List
    <3> QED BY <1>1, <1>3, <1>4, <2>2, <3>2, <3>3, SentFacts
  <2> QED BY <2>1, <2>2
<1>13. /\ \A d \in AllCommands : d # c /\ d # x => command'[d] = command[d]
       /\ command'[c] = [command[c] EXCEPT !.status = "submitted"]
       /\ x \in AllCommands => command'[x] = [command[x] EXCEPT !.next = c]
  <2>1. \A d \in AllCommands : d # c /\ d # x => ~(d = e /\ o.head # None) BY <1>12
  <2> QED BY <1>2, <1>4, <1>12, <2>1
<1>14. PICK g : g = command'[c] OBVIOUS
<1>15. /\ g.kind = command[c].kind /\ g.queue = q /\ g.waits = command[c].waits
       /\ g.status = "submitted" /\ g.notifyEvent = command[c].notifyEvent /\ g.next = None
       /\ g.deps = command[c].deps /\ g.batchHead = command[c].batchHead /\ g \in CommandObject
       /\ g.notified = command[c].notified /\ g.hwEvent = command[c].hwEvent
  BY <1>4, <1>13, <1>14 DEF CommandObject
<1>16. \A d \in AllCommands : d # c =>
         /\ command'[d].kind = command[d].kind /\ command'[d].queue = command[d].queue
         /\ command'[d].waits = command[d].waits /\ command'[d].status = command[d].status
         /\ command'[d].notifyEvent = command[d].notifyEvent
         /\ (d # x => command'[d].next = command[d].next)
         /\ command'[d].deps = command[d].deps /\ command'[d].batchHead = command[d].batchHead
         /\ command'[d].notified = command[d].notified /\ command'[d].hwEvent = command[d].hwEvent
         /\ command'[d] \in CommandObject
  <2> SUFFICES ASSUME NEW d \in AllCommands, d # c
               PROVE  /\ command'[d].kind = command[d].kind /\ command'[d].queue = command[d].queue
                      /\ command'[d].waits = command[d].waits /\ command'[d].status = command[d].status
                      /\ command'[d].notifyEvent = command[d].notifyEvent
                      /\ (d # x => command'[d].next = command[d].next)
                      /\ command'[d].deps = command[d].deps /\ command'[d].batchHead = command[d].batchHead
                      /\ command'[d].notified = command[d].notified /\ command'[d].hwEvent = command[d].hwEvent
                      /\ command'[d] \in CommandObject
    OBVIOUS
  <2>1. command[d] \in CommandObject BY <1>3 DEF Types
  <2>2. CASE d # x BY <1>13, <2>1, <2>2
  <2>3. CASE d = x
    <3>1. command'[d] = [command[d] EXCEPT !.next = c] BY <1>13, <2>3
    <3> QED BY <1>4, <2>1, <2>3, <3>1 DEF CommandObject, Optional
  <2> QED BY <2>2, <2>3
<1>17. x \in AllCommands => command'[x].next = c
  <2> SUFFICES ASSUME x \in AllCommands PROVE command'[x].next = c OBVIOUS
  <2>1. command[x] \in CommandObject /\ command'[x] = [command[x] EXCEPT !.next = c]
    BY <1>3, <1>13 DEF Types
  <2> QED BY <2>1 DEF CommandObject
<1>18. Types'
  <2>1. command' \in [AllCommands -> CommandObject]
    <3>1. \A d \in AllCommands : command'[d] \in CommandObject BY <1>14, <1>15, <1>16
    <3> QED BY <1>2, <3>1
  <2>2. queue' \in [Queues -> QueueObject]
    <3>1. \A p \in Queues : queue'[p] \in QueueObject BY <1>3, <1>6, <1>7, <1>11 DEF Types
    <3> QED BY <1>2, <1>3, <3>1 DEF Types
  <2>3. execution' \in [Queues -> Clients \cup {None}] /\ pc' \in [Threads -> Labels]
    BY <1>2, <1>3 DEF Types, Labels
  <2> QED BY <1>2, <1>3, <2>1, <2>2, <2>3 DEF Types
<1>19. SamePackets BY <1>1, <1>2, <1>6, <1>7, <1>9 DEF SamePackets
<1>20. Steady /\ RingInv' /\ \A d : Sent(d)' <=> Sent(d)
  <2>1. \A d \in AllCommands :
             /\ Live(d) => command'[d].kind = command[d].kind /\ command'[d].queue = command[d].queue
             /\ Complete(d) => Complete(d)'
             /\ command'[d].hwEvent = command[d].hwEvent
             /\ command'[d].notifyEvent = command[d].notifyEvent
    BY <1>4, <1>14, <1>15, <1>16 DEF Complete
  <2> QED BY <1>19, <2>1, SteadyStep, RingStays, PacketsSame
<1>21. LiveKept(x) BY <1>4, <1>16 DEF LiveKept, Live
<1>22. OnCommand(t, c)
  <2>1. Before(c) /\ After(c) BY <1>3, <1>4 DEF CommandInv
  <2>2. Before(c)' BY <1>2, <1>4, <1>3, <1>14, <1>15, <1>20, <2>1 DEF Before
  <2>3. After(c)'
    <3>1. ~Sent(c)' /\ c \notin ran' /\ ~Complete(c)' BY <1>4, <1>14, <1>15, <1>20 DEF Sent, Complete
    <3>2. ~command'[c].hwEvent BY <1>4, <1>14, <1>15, <2>1 DEF After
    <3>3. \A d \in command'[c].waits : Sent(d)' BY <1>14, <1>15, <1>20, <2>1 DEF After
    <3>4. c \notin handles' BY <1>2, <1>4, <2>1 DEF After
    <3> QED BY <3>1, <3>2, <3>3, <3>4 DEF After
  <2>4. \A u \in Clients : u # t => my[u].cmd # c /\ my[u].marker # c BY <1>1, <1>4, OnlyMine
  <2>5. \A d \in AllCommands : d # c => command'[d].next = command[d].next \/ Live(d) BY <1>12, <1>16
  <2>6. \A d \in AllCommands : /\ command'[d].notified = command[d].notified
                               /\ command'[d].notifyEvent = command[d].notifyEvent
    BY <1>14, <1>15, <1>16
  <2> QED BY <1>2, <1>4, <1>14, <1>15, <1>16, <1>20, <2>2, <2>3, <2>4, <2>5, <2>6 DEF OnCommand
<1>23. Current(t)' = c /\ Here(t)' = q BY <1>1, <1>2, <1>14, <1>15 DEF Current, Here
<1>24. OnQueue(t, q)
  <2>1. \A u \in Clients : u # t => execution[q] # u BY <1>2, DirectDispatchAssumption
  <2> QED BY <1>3, <1>5, <1>6, <2>1 DEF OnQueue
<1>25. OnLock(t, q)
  <2>1. HoldsExec(t)' BY <1>6 DEF HoldsExec
  <2> QED BY <1>1, <1>2, <1>3, <1>6, <1>23, <2>1 DEF OnLock
<1>26. OnLocals(t) BY <1>2, <1>6 DEF OnLocals
<1>27. OpenInv'
  <2>1. PlaceKept(t) BY <1>2 DEF PlaceKept
  <2>2. \A p \in Queues : queue'[p].open = queue[p].open BY <1>1, <1>6, <1>7, <1>10
  <2>3. \A u \in Clients : u # t => pc'[u] = pc[u] /\ my'[u] = my[u] BY <1>6 DEF Threads
  <2> QED BY <2>1, <2>2, <2>3, PlaceStays
<1>28. Client(t)'
  <2>1. CASE my[t].marker # None
    <3>1. /\ At(t)' = At(t) /\ my[t].event # None /\ my[t].marker = c /\ pc[t] = "form"
          /\ c \notin Commands
      BY <1>1, <1>2, <2>1, FormFacts DEF At
    <3>2. Settled(my[t].event)'
      <4>1. my[t].event \in AllCommands /\ Settled(my[t].event) BY <1>3, <3>1, TypeFacts DEF Shape
      <4> QED BY <1>2, <1>20, <4>1 DEF Steady
    <3>3. Shape(t)' BY <1>2, <1>3, <1>6, <1>20, <2>1, <3>1, <3>2 DEF Shape
    <3>4. OwnCommand(t)' /\ DueOf(t)'
      <4>1. PICK f, k : f = my[t].event /\ k = my[t].cmd OBVIOUS
      <4>2. k # None => k \in AllCommands /\ k # c /\ (Sent(k) => command[k].status # "new")
        BY <1>3, <3>1, <4>1, HolderFacts, SentFacts DEF Live
      <4>3. k # None => /\ command'[k].kind = command[k].kind /\ command'[k].queue = command[k].queue
                        /\ command'[k].waits = command[k].waits
                        /\ ~Sent(k) => ~Sent(k)' /\ command'[k].status = command[k].status
                        /\ Sent(k) => command'[k].status # "new"
        BY <1>16, <1>20, <4>2
      <4>4. created' \in Nat /\ created <= created' BY <1>2, <1>3
      <4> QED BY <1>2, <1>20, <3>1, <4>1, <4>3, <4>4, OwnStays
    <3>5. OwnMarker(t)'
      <4>1. PICK f : f = my[t].event OBVIOUS
      <4>2. /\ f \in Commands /\ f \in AllCommands /\ c = NotifyMarker(f) /\ command[f].notified
            /\ notifyLock[f] = t /\ Sent(f) /\ f # c
            /\ command[c].kind = IF my[t].then = "sleep" THEN "cpuWait" ELSE "marker"
        BY <1>3, <2>1, <3>1, <4>1, MarkerFacts DEF OwnMarker
      <4>3. /\ Sent(f)' /\ command'[f].notified /\ notifyLock'[f] = t /\ ~Sent(c)'
            /\ command'[c].kind = command[c].kind /\ command'[c].status = "submitted"
        BY <1>2, <1>4, <1>14, <1>15, <1>16, <1>20, <4>2
      <4>4. my'[t].marker = c /\ my'[t].event = f /\ my'[t].then = my[t].then /\ pc'[t] = "submit"
        BY <1>2, <1>6, <3>1, <4>1
      <4> QED BY <4>2, <4>3, <4>4 DEF OwnMarker
    <3> QED BY <3>3, <3>4, <3>5 DEF Client
  <2>2. CASE my[t].marker = None
    <3>1. /\ pc[t] = "waitList" /\ At(t) = "waitList" /\ my[t].event = None /\ my[t].todo = {}
          /\ my[t].cmd = c /\ At(t)' = "submit"
      BY <1>1, <1>2, <1>6, <2>2, FormFacts DEF At
    <3>2. Shape(t)' BY <1>2, <1>3, <1>6, <2>2, <3>1 DEF Shape
    <3>3. OwnCommand(t)'
      <4>1. /\ c \in Commands /\ c <= created /\ command[c].queue = my[t].on
            /\ (my[t].op = "record" => command[c].kind = "record")
            /\ \A d \in command[c].waits : d \in my[t].todo \/ d = my[t].event \/ Covered(d)
        BY <1>3, <1>4, <3>1 DEF OwnCommand
      <4>2. \A d \in command[c].waits : d \in AllCommands BY <1>4 DEF CommandObject
      <4>3. \A d \in command'[c].waits : Covered(d)'
        BY <1>3, <1>14, <1>15, <1>20, <3>1, <4>1, <4>2 DEF Steady
      <4>4. /\ my'[t].cmd = c /\ my'[t].op = my[t].op /\ my'[t].on = my[t].on /\ ~Sent(c)'
            /\ command'[c].queue = my[t].on /\ command'[c].status = "submitted"
            /\ command'[c].kind = command[c].kind /\ c <= created'
        BY <1>2, <1>4, <1>14, <1>15, <1>20, <3>1, <4>1
      <4> HIDE DEF Covered
      <4> QED BY <1>4, <3>1, <4>1, <4>3, <4>4 DEF OwnCommand
    <3>4. OwnMarker(t)' BY <1>2, <2>2 DEF OwnMarker
    <3>5. DueOf(t)'
      <4>1. my[t].due \subseteq AllCommands BY <1>3, TypeFacts
      <4> QED BY <1>2, <1>3, <1>20, <3>1, <4>1 DEF DueOf, Steady
    <3> QED BY <3>2, <3>3, <3>4, <3>5 DEF Client
  <2> QED BY <2>1, <2>2
<1>29. WalkInv(t)' BY <1>6 DEF WalkInv
<1>30. BatchInv(q)'
  <2>1. n.head # None /\ n.tail = c BY <1>3, <1>4, <1>9
  <2>2. PICK D \in SUBSET AllCommands :
           /\ n.head \in D /\ List(D, c)'
           /\ \A d \in D : command'[d].queue = q /\ Live(d)'
           /\ \A d \in D : d # c => Sent(d)'
    <3>1. CASE o.head = None
      <4>1. List({c}, c)' /\ Live(c)' BY <1>14, <1>15 DEF List, Live
      <4>2. n.head \in {c} /\ {c} \in SUBSET AllCommands /\ command'[c].queue = q
        BY <1>4, <1>9, <1>14, <1>15, <3>1
      <4> QED BY <4>1, <4>2
    <3>2. CASE o.head # None
      <4>1. PICK B \in SUBSET AllCommands :
               /\ o.head \in B /\ List(B, e)
               /\ \A d \in B : command[d].queue = q /\ Live(d)
               /\ \A d \in B : d # e => Sent(d)
        BY <1>1, <1>3, <3>2 DEF IInv, BatchInv, Live
      <4>2. x = e /\ x \in AllCommands /\ Sent(x) BY <1>12, <3>2
      <4>3. c \notin B BY <1>4, <4>1
      <4>4. PICK D : D = B \cup {c} OBVIOUS
      <4>5. \A d \in B : /\ command'[d].queue = q /\ Live(d)' /\ Sent(d)'
                         /\ command'[d].next \in D
        <5>1. \A d \in B : d # c /\ d \in AllCommands BY <4>3
        <5>2. \A d \in B : command'[d].queue = q /\ Live(d)' /\ Sent(d)'
          BY <1>16, <1>20, <4>1, <4>2, <5>1 DEF Live
        <5>3. \A d \in B : d # x => command'[d].next \in B BY <1>16, <4>1, <4>2, <5>1 DEF List
        <5> QED BY <1>17, <4>2, <4>4, <5>2, <5>3
      <4>6. List(D, c)' BY <1>14, <1>15, <4>4, <4>5 DEF List
      <4>7. command'[c].queue = q /\ Live(c)' /\ n.head \in D /\ D \in SUBSET AllCommands
        BY <1>4, <1>9, <1>14, <1>15, <3>2, <4>1, <4>4 DEF Live
      <4> QED BY <4>4, <4>5, <4>6, <4>7
    <3> QED BY <3>1, <3>2
  <2>3. execution'[q] = t /\ c = Current(t)' /\ pc'[t] \in {"submit", "complete", "advance", "reset"}
    BY <1>6, <1>23
  <2> QED BY <1>4, <1>7, <2>1, <2>2, <2>3 DEF BatchInv, Live
<1>31. LastInv(q)'
  <2>1. SubmitOk(q)' BY <1>3, <1>4, <1>6, <1>7, <1>9, <1>23 DEF SubmitOk
  <2> QED BY <1>6, <1>7, <1>9, <1>23, <2>1 DEF LastInv
<1>32. pc'[Handler] \in {"idle", "complete", "advance"}
  BY <1>3, <1>6, DirectDispatchAssumption DEF IInv, Threads
<1>33. x \in AllCommands => q \in Queues /\ command[x].queue = q /\ command[x].next = None /\ ~Closing(x)
  BY <1>3, <1>12
<1> QED BY <1>2, <1>3, <1>18, <1>20, <1>21, <1>22, <1>24, <1>25, <1>26, <1>27, <1>28, <1>29, <1>30, <1>31,
     <1>32, <1>33, WorkStep

LEMMA AppendFacts ==
  ASSUME NEW S, NEW r \in Seq(S), NEW c \in S
  PROVE  LET n == Len(r) + 1 IN
         /\ n \in Nat /\ n \in DOMAIN Append(r, c) /\ Append(r, c)[n] = c /\ Append(r, c) \in Seq(S)
         /\ \A i \in DOMAIN r : /\ i \in Nat /\ i \in DOMAIN Append(r, c) /\ Append(r, c)[i] = r[i]
                                /\ i <= n /\ i # n
         /\ \A i \in DOMAIN Append(r, c) : i \in Nat /\ (i # n => i \in DOMAIN r)
<1>1. /\ Len(r) \in Nat /\ DOMAIN r = 1..Len(r) /\ Append(r, c) \in Seq(S)
      /\ DOMAIN Append(r, c) = 1..(Len(r) + 1) /\ Append(r, c)[Len(r) + 1] = c
      /\ \A i \in 1..Len(r) : Append(r, c)[i] = r[i]
  BY AppendProperties
<1>2. PICK k : k = Len(r) OBVIOUS
<1>3. /\ k + 1 \in Nat /\ k + 1 \in 1..(k + 1)
      /\ \A i \in 1..k : i \in Nat /\ i \in 1..(k + 1) /\ i <= k + 1 /\ i # k + 1
      /\ \A i \in 1..(k + 1) : i \in Nat /\ (i # k + 1 => i \in 1..k)
  BY <1>1, <1>2
<1> QED BY <1>1, <1>2, <1>3

(* The packet of a command is appended to the ring of queue q. *)
Appends(q, c) ==
  /\ q \in Queues /\ c \in AllCommands /\ ~Sent(c) /\ command[c].queue = q
  /\ ran' = ran /\ queue'[q].ring = Append(queue[q].ring, c)
  /\ \A p \in Queues : p # q => queue'[p] = queue[p]

LEMMA RingGrows ==
  ASSUME IInv, NEW q, NEW c, Appends(q, c),
         \A d \in AllCommands : Live(d) \/ d = c => command'[d].queue = command[d].queue
  PROVE  /\ RingInv'
         /\ \A d : Sent(d)' <=> Sent(d) \/ d = c
         /\ \A d, b : Upto(d, b) => Upto(d, b)'
         /\ \A d : Sent(d) /\ command[d].queue = q => Upto(d, c)'
         /\ Upto(c, c)'
         /\ \A d : InRing(q, d)' => Upto(d, c)'
<1>1. /\ Types /\ RingInv /\ CommandInv /\ q \in Queues /\ c \in AllCommands
      /\ queue[q].ring \in Seq(AllCommands)
  BY DEF IInv, Appends, Types, QueueObject
<1>2. PICK r, s, n : r = queue[q].ring /\ s = queue'[q].ring /\ n = Len(r) + 1 OBVIOUS
<1>3. /\ n \in DOMAIN s /\ s[n] = c /\ n \in Nat
      /\ \A i \in DOMAIN r : i \in Nat /\ i \in DOMAIN s /\ s[i] = r[i] /\ i <= n /\ i # n
      /\ \A i \in DOMAIN s : i \in Nat /\ (i # n => i \in DOMAIN r)
  BY <1>1, <1>2, AppendFacts DEF Appends
<1>4. \A d : InRing(q, d)' <=> InRing(q, d) \/ d = c
  <2>1. \A d : InRing(q, d) <=> \E i \in DOMAIN r : r[i] = d BY <1>2 DEF InRing
  <2>2. \A d : InRing(q, d)' <=> \E i \in DOMAIN s : s[i] = d BY <1>2 DEF InRing
  <2> QED BY <1>3, <2>1, <2>2
<1>5. \A p \in Queues : \A d : p # q => (InRing(p, d)' <=> InRing(p, d)) BY DEF InRing, Appends
<1>6. \A d : Sent(d)' <=> Sent(d) \/ d = c BY <1>1, <1>4, <1>5 DEF Sent, Appends
<1>7. ASSUME NEW d, NEW b, Upto(d, b) PROVE Upto(d, b)'
  <2>1. CASE d \in ran BY <2>1 DEF Upto, Appends
  <2>2. ASSUME NEW p \in Queues, NEW i \in DOMAIN queue[p].ring, NEW j \in DOMAIN queue[p].ring,
               i <= j, queue[p].ring[i] = d, queue[p].ring[j] = b
        PROVE  Upto(d, b)'
    <3>1. CASE p # q BY <2>2, <3>1 DEF Upto, Appends
    <3>2. CASE p = q
      <4>1. i \in DOMAIN s /\ j \in DOMAIN s /\ s[i] = d /\ s[j] = b BY <1>2, <1>3, <2>2, <3>2
      <4> QED BY <1>1, <1>2, <2>2, <4>1 DEF Upto
    <3> QED BY <3>1, <3>2
  <2> QED BY <1>7, <2>1, <2>2 DEF Upto
<1>8. ASSUME NEW i \in DOMAIN s PROVE Upto(s[i], c)'
  <2>1. i <= n BY <1>3
  <2> QED BY <1>1, <1>2, <1>3, <2>1 DEF Upto
<1>9. ASSUME NEW d, Sent(d), command[d].queue = q PROVE Upto(d, c)'
  <2>1. CASE d \in ran BY <2>1 DEF Upto, Appends
  <2>2. CASE InRing(q, d)
    <3>1. PICK i \in DOMAIN r : r[i] = d BY <1>2, <2>2 DEF InRing
    <3>2. i \in DOMAIN s /\ s[i] = d BY <1>3, <3>1
    <3> QED BY <1>8, <3>2
  <2> QED BY <1>1, <1>9, <2>1, <2>2, SentFacts
<1>10. Upto(c, c)' BY <1>3, <1>8
<1>11. RingInv'
  <2> SUFFICES ASSUME NEW p \in Queues
               PROVE  /\ \A i \in DOMAIN queue'[p].ring : /\ command'[queue'[p].ring[i]].queue = p
                                                          /\ queue'[p].ring[i] \notin ran'
                      /\ \A i, j \in DOMAIN queue'[p].ring : queue'[p].ring[i] = queue'[p].ring[j] => i = j
    BY DEF RingInv
  <2>1. \A d : InRing(p, d) => command'[d].queue = p /\ d \notin ran' /\ d # c
    <3> SUFFICES ASSUME NEW d, InRing(p, d) PROVE command'[d].queue = p /\ d \notin ran' /\ d # c OBVIOUS
    <3>1. command[d].queue = p /\ d \notin ran /\ Sent(d) BY <1>1, SentFacts
    <3>2. d \in AllCommands /\ Live(d) BY <1>1, <3>1, SentFacts
    <3> QED BY <3>1, <3>2 DEF Appends
  <2>2. CASE p # q
    <3>1. queue'[p] = queue[p] /\ \A i \in DOMAIN queue[p].ring : InRing(p, queue[p].ring[i])
      BY <2>2 DEF Appends, InRing
    <3> QED BY <1>1, <2>1, <3>1 DEF RingInv
  <2>3. CASE p = q
    <3>1. \A i \in DOMAIN r : InRing(q, r[i]) BY <1>2 DEF InRing
    <3>2. command'[c].queue = q /\ c \notin ran' BY <1>1 DEF Appends, Sent
    <3>3. \A i \in DOMAIN s : command'[s[i]].queue = q /\ s[i] \notin ran' BY <1>3, <2>1, <2>3, <3>1, <3>2
    <3>4. \A i \in DOMAIN r : s[i] # c BY <1>3, <2>1, <2>3, <3>1
    <3>5. \A i \in DOMAIN r, j \in DOMAIN r : s[i] = s[j] => i = j BY <1>1, <1>2, <1>3 DEF RingInv
    <3>6. \A i \in DOMAIN s, j \in DOMAIN s : s[i] = s[j] => i = j BY <1>3, <3>4, <3>5
    <3> QED BY <1>2, <2>3, <3>3, <3>6
  <2> QED BY <2>2, <2>3
<1>12. \A d : InRing(q, d)' => Upto(d, c)' BY <1>2, <1>8 DEF InRing
<1> QED BY <1>6, <1>7, <1>9, <1>10, <1>11, <1>12

LEMMA SubmitFacts ==
  ASSUME IInv, NEW t \in Clients, pc[t] = "submit", command[Current(t)].kind # "cpuWait"
  PROVE  LET c == Current(t)
             q == Here(t)
         IN /\ c \in AllCommands /\ q \in Queues /\ execution[q] = t /\ HoldsExec(t)
            /\ command[c].status = "submitted" /\ ~Sent(c) /\ ~command[c].hwEvent
            /\ \A e \in command[c].waits : e \in AllCommands /\ Covered(e)
            /\ queue[q].head # None /\ queue[q].tail = c
            /\ queue[q].last = c \/ (queue[q].last = None /\ ~queue[q].open)
            /\ my[t].on \in Queues /\ my[t].op # "none"
            /\ my[t].marker # None =>
                 /\ my[t].marker = c /\ c \notin Commands /\ command[c].kind = "marker"
                 /\ my[t].event # None /\ At(t) = my[t].then /\ my[t].then # "sleep"
                 /\ command[my[t].event].queue = q
            /\ my[t].marker = None =>
                 /\ my[t].cmd = c /\ c \in Commands /\ c <= created /\ At(t) = "submit"
                 /\ my[t].event = None /\ my[t].todo = {} /\ q = my[t].on
                 /\ my[t].op = "record" => command[c].kind = "record"
<1>1. /\ Types /\ RingInv /\ CommandInv /\ LockInv /\ Shape(t) /\ OwnCommand(t) /\ OwnMarker(t)
      /\ None \notin AllCommands
  BY ClientFacts, DirectDispatchAssumption DEF AllCommands
<1>2. PICK c, q : c = Current(t) /\ q = Here(t) OBVIOUS
<1>3. c \in AllCommands /\ q \in Queues /\ execution[q] = t /\ HoldsExec(t)
  BY <1>2, CurrentFacts DEF HoldsExec
<1>4. my[t].on \in Queues /\ my[t].op # "none" BY <1>1 DEF Shape
<1>5. /\ queue[q].head # None /\ queue[q].tail = c
      /\ queue[q].last = c \/ (queue[q].last = None /\ ~queue[q].open)
  BY <1>2, <1>3 DEF IInv, LastInv, SubmitOk
<1>6. ASSUME my[t].marker # None
      PROVE  /\ my[t].marker = c /\ c \notin Commands /\ command[c].kind = "marker"
             /\ my[t].event # None /\ At(t) = my[t].then /\ my[t].then # "sleep"
             /\ command[my[t].event].queue = q /\ command[c].status = "submitted" /\ ~Sent(c)
             /\ command[c].waits = {}
  <2>1. my[t].marker = c /\ c \notin Commands /\ command[my[t].event].queue = q
    BY <1>2, <1>6, HolderFacts, CurrentFacts DEF Here
  <2>2. command[c].kind = "marker" /\ my[t].then # "sleep" /\ command[c].status = "submitted" /\ ~Sent(c)
    BY <1>1, <1>2, <1>6, <2>1 DEF OwnMarker
  <2>3. my[t].event # None /\ At(t) = my[t].then BY <1>1, <1>6 DEF Shape, At
  <2>4. command[c].waits = {} BY <1>1, <1>3, <2>1 DEF CommandInv, Before
  <2> QED BY <2>1, <2>2, <2>3, <2>4
<1>7. ASSUME my[t].marker = None
      PROVE  /\ my[t].cmd = c /\ c \in Commands /\ c <= created /\ At(t) = "submit"
             /\ my[t].event = None /\ my[t].todo = {} /\ q = my[t].on
             /\ my[t].op = "record" => command[c].kind = "record"
             /\ command[c].status = "submitted" /\ ~Sent(c)
             /\ \A e \in command[c].waits : e \in AllCommands /\ Covered(e)
  <2>1. my[t].cmd = c /\ my[t].event = None /\ At(t) = "submit" /\ my[t].todo = {}
    BY <1>1, <1>2, <1>7 DEF Shape, At, Current
  <2>2. \A e \in command[c].waits : e \in AllCommands BY <1>1, <1>3, TypeFacts DEF Types, CommandObject
  <2>3. \A e \in command[c].waits : e \in my[t].todo \/ e = my[t].event \/ Covered(e)
    BY <1>1, <2>1 DEF OwnCommand
  <2>4. \A e \in command[c].waits : e \in AllCommands /\ Covered(e) BY <1>1, <2>1, <2>2, <2>3
  <2>5. /\ c \in Commands /\ c <= created /\ command[c].queue = my[t].on
        /\ my[t].op = "record" => command[c].kind = "record"
        /\ command[c].status = "submitted" /\ ~Sent(c)
    BY <1>1, <1>3, <2>1 DEF OwnCommand
  <2> QED BY <1>2, <2>1, <2>4, <2>5 DEF Here
<1>8. ~Sent(c) /\ After(c) BY <1>1, <1>3, <1>6, <1>7 DEF CommandInv
<1>9. ~command[c].hwEvent BY <1>8 DEF After
<1>10. \A e \in command[c].waits : e \in AllCommands /\ Covered(e) BY <1>6, <1>7
<1> HIDE DEF Covered
<1> QED BY <1>2, <1>3, <1>4, <1>5, <1>6, <1>7, <1>8, <1>9, <1>10

LEMMA SubmitPacketStep ==
  ASSUME IInv, NEW t \in Clients, SubmitPacket(t)
  PROVE  IInv'
<1>1. PICK q, c, o, k, b, w :
         /\ q = Here(t) /\ c = Current(t) /\ o = queue[q] /\ k = command[c].kind
         /\ b = (IF k = "marker" THEN o.head ELSE None) /\ w = Deps(c)
  OBVIOUS
<1>2. /\ pc[t] = "submit" /\ k # "cpuWait"
      /\ queue' = [queue EXCEPT ![q].ring = Append(@, c)]
      /\ command' = [command EXCEPT ![c].deps = w, ![c].hwEvent = k # "work", ![c].batchHead = b]
      /\ armed' = IF k = "marker" THEN armed \cup {c} ELSE armed
      /\ created' = created /\ handles' = handles /\ ran' = ran /\ notifyLock' = notifyLock
  BY <1>1 DEF SubmitPacket
<1>3. \/ /\ k = "marker" /\ pc' = [pc EXCEPT ![t] = "reset"]
         /\ execution' = execution /\ my' = my
      \/ /\ k # "marker" /\ pc' = [pc EXCEPT ![t] = "enqueued"]
         /\ execution' = [execution EXCEPT ![q] = None] /\ my' = my
      \/ /\ k # "marker" /\ pc' = [pc EXCEPT ![t] = "notify"]
         /\ execution' = execution /\ my' = [my EXCEPT ![t].event = c, ![t].then = "unlock"]
  BY <1>1 DEF SubmitPacket, Goto
<1>4. /\ Types /\ RingInv /\ CommandInv /\ LockInv /\ OpenInv /\ t \in Threads /\ t # Handler
      /\ Shape(t) /\ OwnCommand(t) /\ OwnMarker(t) /\ DueOf(t) /\ my[t] \in Locals
      /\ None \notin AllCommands /\ created \in Nat /\ t # None
  BY ClientFacts, TypeFacts, DirectDispatchAssumption
<1>5. /\ c \in AllCommands /\ q \in Queues /\ execution[q] = t /\ HoldsExec(t)
      /\ command[c].status = "submitted" /\ ~Sent(c) /\ ~command[c].hwEvent
      /\ \A e \in command[c].waits : e \in AllCommands /\ Covered(e)
      /\ o.head # None /\ o.tail = c
      /\ o.last = c \/ (o.last = None /\ ~o.open)
      /\ my[t].on \in Queues /\ my[t].op # "none"
      /\ my[t].marker # None =>
           /\ my[t].marker = c /\ c \notin Commands /\ k = "marker"
           /\ my[t].event # None /\ At(t) = my[t].then /\ my[t].then # "sleep"
           /\ command[my[t].event].queue = q
      /\ my[t].marker = None =>
           /\ my[t].cmd = c /\ c \in Commands /\ c <= created /\ At(t) = "submit"
           /\ my[t].event = None /\ my[t].todo = {} /\ q = my[t].on
           /\ my[t].op = "record" => k = "record"
  <2> HIDE DEF Covered
  <2> QED BY <1>1, <1>2, SubmitFacts
<1>6. command[c].queue = q /\ Live(c) /\ command[c] \in CommandObject /\ o \in QueueObject
  BY <1>1, <1>4, <1>5 DEF Here, Live, Types
<1>7. b \in Optional /\ w \subseteq AllCommands
  <2>1. \A e \in AllCommands : HwEvent(e) \in AllCommands \cup {None} BY <1>4, TypeFacts DEF HwEvent
  <2> QED BY <1>1, <1>5, <1>6, <2>1 DEF Deps, QueueObject, Optional
<1>8. PICK g : g = command'[c] OBVIOUS
<1>9. /\ g = [command[c] EXCEPT !.deps = w, !.hwEvent = k # "work", !.batchHead = b]
      /\ \A d \in AllCommands : d # c => command'[d] = command[d]
  BY <1>2, <1>4, <1>5, <1>8 DEF Types
<1>10. /\ g.kind = k /\ g.queue = q /\ g.waits = command[c].waits
       /\ g.status = "submitted" /\ g.notifyEvent = command[c].notifyEvent /\ g.next = command[c].next
       /\ g.deps = w /\ g.batchHead = b /\ g.notified = command[c].notified
  BY <1>1, <1>5, <1>6, <1>9 DEF CommandObject
<1>11. (g.hwEvent <=> k # "work") /\ g \in CommandObject
  <2>1. PICK y \in BOOLEAN : y = (k # "work") OBVIOUS
  <2>2. g = [command[c] EXCEPT !.deps = w, !.hwEvent = y, !.batchHead = b] BY <1>9, <2>1
  <2>3. g.hwEvent = y BY ONLY <1>6, <2>2 DEF CommandObject
  <2>4. g \in CommandObject BY ONLY <1>6, <1>7, <2>2 DEF CommandObject
  <2> QED BY <2>1, <2>3, <2>4
<1>12. \A d \in AllCommands :
         /\ command'[d].kind = command[d].kind /\ command'[d].queue = command[d].queue
         /\ command'[d].waits = command[d].waits /\ command'[d].status = command[d].status
         /\ command'[d].notifyEvent = command[d].notifyEvent /\ command'[d].next = command[d].next
         /\ command'[d].notified = command[d].notified /\ command'[d] \in CommandObject
  <2>1. \A d \in AllCommands : d # c => command'[d] = command[d] /\ command[d] \in CommandObject
    BY <1>4, <1>9 DEF Types
  <2>2. /\ g.kind = command[c].kind /\ g.queue = command[c].queue /\ g.status = command[c].status
        /\ g \in CommandObject
    BY <1>1, <1>5, <1>6, <1>10, <1>11
  <2> QED BY <1>8, <1>10, <2>1, <2>2
<1>13. /\ queue'[q] = [o EXCEPT !.ring = Append(o.ring, c)]
       /\ \A p \in Queues : p # q => queue'[p] = queue[p] /\ execution'[p] = execution[p]
  BY <1>1, <1>2, <1>3, <1>4, <1>5 DEF Types
<1>14. PICK n, r : n = queue'[q] /\ r = Append(o.ring, c) OBVIOUS
<1>15. /\ n = [o EXCEPT !.ring = r] /\ r \in Seq(AllCommands)
  <2>1. o.ring \in Seq(AllCommands) BY <1>6 DEF QueueObject
  <2> QED BY <1>5, <1>13, <1>14, <2>1
<1>16. /\ n.head = o.head /\ n.tail = o.tail /\ n.last = o.last /\ n.ring = r /\ n.open = o.open
  BY ONLY <1>6, <1>15 DEF QueueObject
<1>17. n \in QueueObject BY ONLY <1>6, <1>15 DEF QueueObject
<1>18. Appends(q, c) /\ \A d \in AllCommands : Live(d) \/ d = c => command'[d].queue = command[d].queue
  BY <1>1, <1>2, <1>5, <1>6, <1>12, <1>13, <1>14, <1>16 DEF Appends
<1>19. /\ RingInv'
       /\ \A d : Sent(d)' <=> Sent(d) \/ d = c
       /\ \A d, a : Upto(d, a) => Upto(d, a)'
       /\ \A d : Sent(d) /\ command[d].queue = q => Upto(d, c)'
       /\ Upto(c, c)'
       /\ \A d : InRing(q, d)' => Upto(d, c)'
  BY <1>18, RingGrows
<1>20. PICK l, f, s : l = my'[t] /\ f = (IF pc'[t] = "notify" THEN c ELSE my[t].event)
                      /\ s = (IF pc'[t] = "notify" THEN "unlock" ELSE my[t].then)
  OBVIOUS
<1>21. /\ l.op = my[t].op /\ l.on = my[t].on /\ l.due = my[t].due /\ l.cmd = my[t].cmd
       /\ l.marker = my[t].marker /\ l.todo = my[t].todo /\ l.held = my[t].held
       /\ l.event = f /\ l.then = s /\ l \in Locals
  <2>1. CASE pc'[t] # "notify"
    <3>1. my' = my BY <1>3, <1>4, <2>1 DEF Types
    <3> QED BY <1>4, <1>20, <2>1, <3>1
  <2>2. CASE pc'[t] = "notify"
    <3>1. l = [my[t] EXCEPT !.event = c, !.then = "unlock"] BY <1>3, <1>4, <1>20, <2>2 DEF Types
    <3>2. c \in Optional /\ "unlock" \in Labels BY <1>5 DEF Optional, Labels
    <3> QED BY <1>4, <1>20, <2>2, <3>1, <3>2 DEF Locals
  <2> QED BY <2>1, <2>2
<1>22. /\ \A u \in Threads : u # t => pc'[u] = pc[u] /\ my'[u] = my[u]
       /\ execution'[q] = IF pc'[t] = "enqueued" THEN None ELSE t
       /\ pc'[t] \in {"reset", "enqueued", "notify"}
       /\ pc'[t] = "reset" <=> k = "marker"
  BY <1>3, <1>4, <1>5 DEF Types
<1>23. Types'
  <2>1. command' \in [AllCommands -> CommandObject] BY <1>2, <1>4, <1>12 DEF Types
  <2>2. queue' \in [Queues -> QueueObject]
    <3>1. \A p \in Queues : queue'[p] \in QueueObject BY <1>4, <1>13, <1>14, <1>17 DEF Types
    <3> QED BY <1>2, <1>4, <3>1 DEF Types
  <2>3. execution' \in [Queues -> Clients \cup {None}] /\ pc' \in [Threads -> Labels]
    BY <1>3, <1>4 DEF Types, Labels
  <2>4. my' \in [Threads -> Locals]
    <3>1. \A u \in Threads : my'[u] \in Locals BY <1>4, <1>20, <1>21, <1>22 DEF Types
    <3>2. DOMAIN my' = Threads /\ my' = [u \in Threads |-> my'[u]] BY <1>3, <1>4 DEF Types
    <3> QED BY <3>1, <3>2
  <2> QED BY <1>2, <1>4, <1>5, <2>1, <2>2, <2>3, <2>4 DEF Types
<1>24. Steady
  <2>1. ASSUME NEW d \in AllCommands, Covered(d) PROVE Covered(d)'
    <3>1. CASE d \in ran BY <1>2, <3>1 DEF Covered
    <3>2. PICK a, h : a = command[d].notifyEvent /\ h = HwEvent(d) OBVIOUS
    <3>3. CASE h # None /\ Upto(d, h)
      <4>1. a \in AllCommands \cup {None} /\ command'[d].notifyEvent = a BY <1>4, <1>12, <3>2, TypeFacts
      <4>2. h = (IF a # None THEN a ELSE d) /\ command[h].hwEvent /\ h \in AllCommands
        BY <3>2, <3>3, <4>1 DEF HwEvent
      <4>3. h # c BY <1>5, <4>2
      <4>4. command'[h].hwEvent BY <1>9, <4>2, <4>3
      <4>5. HwEvent(d)' = h BY <4>1, <4>2, <4>4 DEF HwEvent
      <4>6. Upto(d, h)' BY <1>19, <3>3
      <4> QED BY <3>3, <4>5, <4>6 DEF Covered
    <3> QED BY <2>1, <3>1, <3>2, <3>3 DEF Covered
  <2>2. \A d \in AllCommands : /\ Complete(d)' <=> Complete(d)
                               /\ Settled(d) => Settled(d)'
                               /\ command'[d].queue = command[d].queue
    BY <1>12, <1>19 DEF Complete, Settled
  <2> QED BY <1>2, <1>19, <2>1, <2>2 DEF Steady
<1>25. LiveKept(None) BY <1>5, <1>9, <1>12 DEF LiveKept, Live
<1>26. OnCommand(t, c)
  <2>1. Before(c) /\ After(c) BY <1>4, <1>5 DEF CommandInv
  <2>2. Before(c)' BY <1>1, <1>2, <1>5, <1>6, <1>8, <1>10, <2>1 DEF Before
  <2>3. After(c)'
    <3>1. command'[c].hwEvent <=> Sent(c)' /\ command'[c].kind # "work" BY <1>8, <1>10, <1>11, <1>19
    <3>2. ~Complete(c)' /\ c \notin ran' BY <1>2, <1>5, <1>8, <1>10 DEF Complete, Sent
    <3>3. ASSUME NEW e \in command[c].waits
          PROVE  Sent(e)' /\ (e \in ran' \/ \E a \in w : Upto(e, a)')
      <4>1. CASE e \in ran BY <1>2, <4>1 DEF Sent
      <4>2. CASE HwEvent(e) # None /\ Upto(e, HwEvent(e))
        <5>1. PICK a : a = HwEvent(e) OBVIOUS
        <5>2. a \in w /\ Upto(e, a) /\ Upto(e, a)' BY <1>1, <1>19, <4>2, <5>1 DEF Deps
        <5>3. Sent(e)' BY <1>4, <1>19, <5>2, SentFacts
        <5> QED BY <5>2, <5>3
      <4> QED BY <1>5, <4>1, <4>2 DEF Covered
    <3>4. c \notin handles' BY <1>2, <1>5, <2>1 DEF After
    <3>5. command'[c].waits = command[c].waits /\ command'[c].deps = w BY <1>8, <1>10
    <3> QED BY <3>1, <3>2, <3>3, <3>4, <3>5 DEF After
  <2>4. \A u \in Clients : u # t => my[u].cmd # c /\ my[u].marker # c BY <1>1, <1>5, OnlyMine
  <2>5. \A d \in AllCommands : d # c => command'[d] = command[d] /\ (Sent(d)' <=> Sent(d)) BY <1>9, <1>19
  <2>6. \A e \in Commands : NotifyMarker(e) = c => Upto(e, c)'
    <3> SUFFICES ASSUME NEW e \in Commands, NotifyMarker(e) = c PROVE Upto(e, c)' OBVIOUS
    <3>1. my[t].marker = c /\ my[t].marker # None BY <1>4, <1>5, MarkerFacts
    <3>2. my[t].event = e BY <3>1, HolderFacts, MarkerFacts
    <3>3. Sent(e) /\ command[e].queue = q BY <1>4, <1>5, <3>1, <3>2 DEF OwnMarker
    <3> QED BY <1>19, <3>3
  <2>7. command[c].status # "new" /\ command'[c].status # "new" BY <1>5, <1>12
  <2> QED BY <1>2, <1>5, <1>12, <2>2, <2>3, <2>4, <2>5, <2>6, <2>7 DEF OnCommand
<1>27. Current(t)' = c /\ Here(t)' = q
  <2>1. Current(t)' = c BY <1>1, <1>20, <1>21 DEF Current
  <2> QED BY <1>6, <1>12, <1>5, <2>1 DEF Here
<1>28. OnQueue(t, q) BY <1>1, <1>5, <1>13 DEF OnQueue
<1>29. OnLock(t, q)
  <2>1. HoldsExec(t)' <=> pc'[t] # "enqueued" BY <1>20, <1>21, <1>22 DEF HoldsExec
  <2> QED BY <1>1, <1>4, <1>5, <1>22, <1>27, <2>1 DEF OnLock
<1>30. OnLocals(t)
  <2>1. my[t].marker # None => f = my[t].event BY <1>5, <1>20, <1>22
  <2> QED BY <1>20, <1>21, <1>22, <2>1 DEF OnLocals
<1>31. OpenInv'
  <2>1. PlaceKept(t) BY <1>2, <1>20, <1>21 DEF PlaceKept
  <2>2. \A p \in Queues : queue'[p].open = queue[p].open BY <1>1, <1>13, <1>14, <1>16
  <2>3. \A u \in Clients : u # t => pc'[u] = pc[u] /\ my'[u] = my[u] BY <1>22 DEF Threads
  <2> QED BY <2>1, <2>2, <2>3, PlaceStays
<1>32. Client(t)'
  <2>1. CASE my[t].marker # None
    <3>1. /\ pc'[t] = "reset" /\ f = my[t].event /\ s = my[t].then /\ f # None
          /\ At(t)' = At(t) /\ k = "marker" /\ my[t].marker = c /\ c \notin Commands
      BY <1>5, <1>20, <1>21, <1>22, <2>1 DEF At
    <3>2. Settled(f)'
      <4>1. f \in AllCommands /\ Settled(f) BY <1>4, <3>1, TypeFacts DEF Shape
      <4> QED BY <1>24, <4>1 DEF Steady
    <3>3. Shape(t)' BY <1>2, <1>4, <1>19, <1>20, <1>21, <2>1, <3>1, <3>2 DEF Shape
    <3>4. OwnCommand(t)' /\ DueOf(t)'
      <4>1. PICK a : a = my[t].cmd OBVIOUS
      <4>2. a # None => a \in AllCommands /\ a # c /\ (Sent(a) => command[a].status # "new")
        BY <1>4, <3>1, <4>1, HolderFacts, SentFacts DEF Live
      <4>3. a # None => /\ command'[a].kind = command[a].kind /\ command'[a].queue = command[a].queue
                        /\ command'[a].waits = command[a].waits
                        /\ ~Sent(a) => ~Sent(a)' /\ command'[a].status = command[a].status
                        /\ Sent(a) => command'[a].status # "new"
        BY <1>12, <1>19, <4>2
      <4>4. created' \in Nat /\ created <= created' BY <1>2, <1>4
      <4> QED BY <1>20, <1>21, <1>24, <3>1, <4>1, <4>3, <4>4, OwnStays
    <3>5. OwnMarker(t)'
      <4>1. /\ f \in Commands /\ f \in AllCommands /\ c = NotifyMarker(f) /\ command[f].notified
            /\ notifyLock[f] = t /\ Sent(f) /\ s # "sleep" /\ k = "marker"
        BY <1>4, <1>5, <2>1, <3>1, MarkerFacts DEF OwnMarker
      <4>2. /\ Sent(f)' /\ command'[f].notified /\ notifyLock'[f] = t /\ Settled(c)'
            /\ command'[c].kind = "marker"
        <5>1. Sent(f)' /\ Sent(c)' BY <1>19, <4>1
        <5>2. Settled(c)' BY ONLY <5>1 DEF Settled
        <5>3. notifyLock'[f] = t BY <1>2, <4>1
        <5>4. command'[f].notified /\ command'[c].kind = "marker" BY <1>1, <1>5, <1>12, <4>1
        <5> QED BY <5>1, <5>2, <5>3, <5>4
      <4>3. my'[t].marker = c /\ my'[t].event = f /\ my'[t].then = s BY <1>20, <1>21, <3>1
      <4> QED BY <3>1, <4>1, <4>2, <4>3 DEF OwnMarker
    <3> QED BY <3>3, <3>4, <3>5 DEF Client
  <2>2. CASE my[t].marker = None
    <3>1. /\ At(t) = "submit" /\ my[t].event = None /\ my[t].todo = {} /\ my[t].cmd = c
          /\ At(t)' \in {"reset", "enqueued", "unlock"} /\ (At(t)' = "reset" => k = "marker")
          /\ f \in {None, c} /\ (f = c <=> pc'[t] = "notify") /\ (f = c => s = "unlock")
          /\ c # None /\ q = my[t].on
      BY <1>4, <1>5, <1>20, <1>21, <1>22, <2>2 DEF At
    <3>2. Sent(c)' /\ Settled(c)' BY <1>19 DEF Settled
    <3>3. Shape(t)' BY <1>2, <1>4, <1>5, <1>20, <1>21, <1>22, <2>2, <3>1, <3>2 DEF Shape
    <3>4. OwnCommand(t)'
      <4>1. /\ c \in Commands /\ c <= created' /\ command'[c].queue = my[t].on
            /\ (my[t].op = "record" => command'[c].kind = "record")
            /\ command'[c].status = "submitted" /\ command'[c].kind = k
        BY <1>1, <1>2, <1>5, <1>6, <1>12, <2>2, <3>1
      <4>2. /\ my'[t].cmd = c /\ my'[t].op = my[t].op /\ my'[t].on = my[t].on
            /\ my'[t].event \in {None, c}
        BY <1>20, <1>21, <3>1
      <4> QED BY <3>1, <3>2, <4>1, <4>2 DEF OwnCommand
    <3>5. OwnMarker(t)' BY <1>20, <1>21, <2>2 DEF OwnMarker
    <3>6. DueOf(t)'
      <4>1. \A d \in my[t].due : /\ Sent(d) /\ command[d].queue = my[t].on
                                 /\ d \in AllCommands
        BY <1>4, TypeFacts DEF DueOf
      <4>2. \A d \in my[t].due : Sent(d)' /\ command'[d].queue = my[t].on /\ Upto(d, c)'
        BY <1>12, <1>19, <3>1, <4>1
      <4>3. my'[t].due = my[t].due /\ my'[t].on = my[t].on /\ my'[t].cmd = c BY <1>20, <1>21, <3>1
      <4> QED BY <3>1, <4>2, <4>3 DEF DueOf
    <3> QED BY <3>3, <3>4, <3>5, <3>6 DEF Client
  <2> QED BY <2>1, <2>2
<1>33. WalkInv(t)' BY <1>22 DEF WalkInv
<1>34. PICK B \in SUBSET AllCommands :
         /\ o.head \in B /\ List(B, c) /\ List(B, c)'
         /\ \A d \in B : command[d].queue = q /\ Live(d)
         /\ \A d \in B : d # c => Sent(d)
  <2>1. PICK B \in SUBSET AllCommands :
           /\ o.head \in B /\ List(B, c)
           /\ \A d \in B : command[d].queue = q /\ Live(d)
           /\ \A d \in B : d # c => Sent(d)
    BY <1>1, <1>5 DEF IInv, BatchInv, Live
  <2>2. List(B, c)' BY <1>5, <1>12, <2>1 DEF List
  <2> QED BY <2>1, <2>2
<1>35. BatchInv(q)'
  <2>1. n.head = o.head /\ n.tail = c BY <1>5, <1>16
  <2>2. \A d \in B : command'[d].queue = q /\ Live(d)' /\ (d # c => Sent(d)')
    BY <1>12, <1>19, <1>34 DEF Live
  <2>3. Closing(c)' \/ ~Sent(c)' => execution'[q] = t /\ pc'[t] = "reset" /\ c = Current(t)'
    BY <1>1, <1>5, <1>8, <1>10, <1>2, <1>19, <1>22, <1>27 DEF Closing
  <2> QED BY <1>5, <1>14, <1>34, <2>1, <2>2, <2>3 DEF BatchInv, Live
<1>36. LastInv(q)'
  <2>1. SubmitOk(q)'
    <3> SUFFICES ASSUME NEW u \in Clients, execution'[q] = u, pc'[u] = "submit" PROVE FALSE
      BY DEF SubmitOk
    <3>1. u = t BY <1>22, DirectDispatchAssumption
    <3> QED BY <1>22, <3>1
  <2>2. LastOk(q)'
    <3>1. CASE o.last = c
      <4>1. PICK a : a = n.ring OBVIOUS
      <4>2. \A i \in DOMAIN a : InRing(q, a[i])' BY <1>14, <4>1 DEF InRing
      <4>3. \A i \in DOMAIN a : Upto(a[i], c)' BY <1>19, <4>2
      <4>4. command'[c].queue = q /\ Settled(c)' /\ n.last = c
        BY <1>5, <1>6, <1>12, <1>16, <1>19, <3>1 DEF Settled
      <4> QED BY <1>4, <1>5, <1>14, <4>1, <4>3, <4>4 DEF LastOk
    <3>2. CASE o.last = None /\ ~o.open BY <1>14, <1>16, <3>2 DEF LastOk
    <3> QED BY <1>5, <3>1, <3>2
  <2> QED BY <2>1, <2>2 DEF LastInv
<1>37. \A m \in armed' : m \in armed \/ ArmedInv(m)'
  <2> SUFFICES ASSUME k = "marker" PROVE ArmedInv(c)' BY <1>2
  <2>1. Sent(c)' /\ Closing(c)' /\ command'[c].batchHead = o.head BY <1>1, <1>8, <1>10, <1>19 DEF Closing
  <2>2. \A d \in B : Upto(d, c)' BY <1>19, <1>34
  <2> QED BY <1>5, <1>34, <2>1, <2>2 DEF ArmedInv
<1>38. pc'[Handler] \in {"idle", "complete", "advance"}
  BY <1>4, <1>22, DirectDispatchAssumption DEF IInv, Threads
<1> QED BY <1>2, <1>4, <1>5, <1>19, <1>23, <1>24, <1>25, <1>26, <1>28, <1>29, <1>30, <1>31, <1>32, <1>33,
     <1>35, <1>36, <1>37, <1>38, WorkStep

----------------------------------------
(* The first state: nothing is called, sent or waited for. *)
LEMMA InitTypes == ASSUME Init PROVE Types
<1>1. PICK o : o = [kind |-> "work", queue |-> None, waits |-> {}, status |-> "new",
                    notified |-> FALSE, hwEvent |-> FALSE, notifyEvent |-> None, next |-> None,
                    batchHead |-> None, deps |-> {}]
  OBVIOUS
<1>2. PICK n : n = [last |-> None, head |-> None, tail |-> None, size |-> 0, ring |-> <<>>,
                    open |-> TRUE]
  OBVIOUS
<1>3. o \in CommandObject BY ONLY <1>1 DEF CommandObject, Kinds, Optional
<1>4. n \in QueueObject
  <2>1. <<>> \in Seq(AllCommands) /\ 0 \in Nat OBVIOUS
  <2> QED BY ONLY <1>2, <2>1 DEF QueueObject, Optional
<1>5. AtHome \in Locals /\ "idle" \in Labels BY DEF AtHome, Locals, Labels, Optional
<1>6. command = [c \in AllCommands |-> o] /\ queue = [q \in Queues |-> n] BY <1>1, <1>2 DEF Init
<1>7. command \in [AllCommands -> CommandObject] /\ queue \in [Queues -> QueueObject] BY <1>3, <1>4, <1>6
<1>8. created \in 0..MaxCommands /\ handles \subseteq Commands BY DirectDispatchAssumption DEF Init
<1>9. /\ execution \in [Queues -> Clients \cup {None}]
      /\ notifyLock \in [AllCommands -> Clients \cup {None}]
      /\ armed \subseteq AllCommands /\ ran \subseteq AllCommands
  BY DEF Init
<1>10. pc \in [Threads -> Labels] /\ my \in [Threads -> Locals] BY <1>5 DEF Init
<1> QED BY <1>7, <1>8, <1>9, <1>10 DEF Types

LEMMA InitInv == Init => IInv
<1> SUFFICES ASSUME Init PROVE IInv OBVIOUS
<1>1. Types BY InitTypes
<1>2. /\ \A t \in Threads : pc[t] = "idle" /\ my[t] = AtHome
      /\ \A c \in AllCommands :
           /\ command[c].kind = "work" /\ command[c].status = "new" /\ command[c].waits = {}
           /\ command[c].notified = FALSE /\ command[c].hwEvent = FALSE
           /\ command[c].notifyEvent = None /\ command[c].next = None /\ notifyLock[c] = None
      /\ \A q \in Queues : /\ queue[q].last = None /\ queue[q].head = None /\ queue[q].ring = <<>>
                           /\ queue[q].open = TRUE /\ execution[q] = None
      /\ armed = {} /\ ran = {} /\ handles = {} /\ created = 0
  BY DEF Init
<1>3. /\ AtHome.op = "none" /\ AtHome.on = None /\ AtHome.due = {} /\ AtHome.cmd = None
      /\ AtHome.marker = None /\ AtHome.todo = {} /\ AtHome.event = None /\ AtHome.then = "idle"
      /\ AtHome.held = None /\ AtHome.cursor = None
  BY DEF AtHome
<1>4. Handler \in Threads /\ \A t \in Clients : t \in Threads /\ t # None
  BY DirectDispatchAssumption DEF Threads
<1>5. \A c : ~Sent(c) BY <1>2 DEF Sent, InRing
<1>6. RingInv BY <1>2 DEF RingInv
<1>7. \A c \in AllCommands : Before(c) BY <1>2, <1>5 DEF Before
<1>8. \A c \in AllCommands : After(c) BY <1>2, <1>5 DEF After, Complete
<1>9. \A e \in Commands : Pairing(e) BY <1>2, <1>5, MarkerFacts DEF Pairing
<1>10. LockInv BY <1>2, <1>3, <1>4 DEF LockInv, HoldsExec
<1>11. OpenInv BY <1>2, <1>3, <1>4 DEF OpenInv
<1>12. \A t \in Clients : Shape(t) /\ OwnCommand(t) /\ OwnMarker(t) /\ DueOf(t)
  BY <1>2, <1>3, <1>4 DEF Shape, OwnCommand, OwnMarker, DueOf, At
<1>13. \A q \in Queues : BatchInv(q) /\ LastInv(q) BY <1>2, <1>4 DEF BatchInv, LastInv, LastOk, SubmitOk
<1>14. \A t \in Threads : WalkInv(t) BY <1>2 DEF WalkInv
<1> QED
  BY <1>1, <1>2, <1>4, <1>6, <1>7, <1>8, <1>9, <1>10, <1>11, <1>12, <1>13, <1>14
     DEF IInv, CommandInv

LEMMA StutterStep == ASSUME IInv, UNCHANGED vars PROVE IInv'
<1>1. /\ created' = created /\ command' = command /\ handles' = handles /\ queue' = queue
      /\ execution' = execution /\ notifyLock' = notifyLock /\ armed' = armed /\ ran' = ran
      /\ pc' = pc /\ my' = my
  BY DEF vars, locks, gpu
<1>2. /\ \A c : Sent(c)' <=> Sent(c)
      /\ \A c : Settled(c)' <=> Settled(c)
      /\ \A c : Complete(c)' <=> Complete(c)
      /\ \A c : Covered(c)' <=> Covered(c)
      /\ \A d, c : Upto(d, c)' <=> Upto(d, c)
  BY <1>1, SameFacts
<1>3. \A t : At(t)' = At(t) /\ Current(t)' = Current(t) /\ Here(t)' = Here(t)
  BY <1>1 DEF At, Current, Here
<1>4. Types' /\ RingInv' BY <1>1 DEF IInv, Types, RingInv
<1>5. CommandInv'
  <2>1. \A c \in AllCommands : Before(c)' /\ After(c)' BY <1>1, <1>2 DEF IInv, CommandInv, Before, After
  <2>2. \A e \in Commands : Pairing(e)' BY <1>1, <1>2 DEF IInv, CommandInv, Pairing
  <2> QED BY <2>1, <2>2 DEF CommandInv
<1>6. LockInv' /\ OpenInv' BY <1>1, <1>3 DEF IInv, LockInv, OpenInv, HoldsExec
<1>7. \A t \in Clients : Shape(t)' /\ OwnCommand(t)' /\ OwnMarker(t)' /\ DueOf(t)'
  BY <1>1, <1>2, <1>3 DEF IInv, Shape, OwnCommand, OwnMarker, DueOf
<1>8. \A q \in Queues : BatchInv(q)' /\ LastInv(q)'
  <2>1. \A q \in Queues : BatchInv(q)' BY <1>1, <1>2, <1>3 DEF IInv, BatchInv, List, Closing
  <2>2. \A q \in Queues : LastInv(q)' BY <1>1, <1>2, <1>3 DEF IInv, LastInv, LastOk, SubmitOk
  <2> QED BY <2>1, <2>2
<1>9. (\A m \in armed : ArmedInv(m))' BY <1>1, <1>2 DEF IInv, ArmedInv, List, Closing
<1>10. \A t \in Threads : WalkInv(t)' BY <1>1, <1>2, <1>3 DEF IInv, WalkInv, List, Closing
<1> QED BY <1>1, <1>4, <1>5, <1>6, <1>7, <1>8, <1>9, <1>10 DEF IInv

----------------------------------------
(* Every step preserves the invariant. *)
LEMMA ApplicationStep ==
  ASSUME IInv, NEW t \in Clients, Application(t)
  PROVE  IInv'
<1>1. Streams[t] \subseteq Queues BY DirectDispatchAssumption
<1>2. CASE \E e \in handles : ReleaseHandle(t, e) BY <1>2, ReleaseHandleStep
<1>3. ASSUME NEW q \in Queues, NEW what \in {"launch", "copy", "record"}, Launch(t, what, q)
      PROVE  IInv'
  BY <1>3, LaunchStep
<1>4. ASSUME NEW q \in Queues, NEW e \in handles, StreamWait(t, q, e) PROVE IInv' BY <1>4, StreamWaitStep
<1>5. ASSUME NEW q \in Queues, NEW p \in Queues, WaitStream(t, q, p) PROVE IInv' BY <1>5, WaitStreamStep
<1>6. ASSUME NEW q \in Queues, Finish(t, q) PROVE IInv' BY <1>6, FinishStep
<1>7. ASSUME NEW q \in Queues, FinishIdle(t, q) PROVE IInv' BY <1>7, FinishIdleStep
<1>8. ASSUME NEW q \in Queues, Terminate(t, q) PROVE IInv' BY <1>8, TerminateIdleStep, TerminateMarkerStep
<1> QED BY <1>1, <1>2, <1>3, <1>4, <1>5, <1>6, <1>7, <1>8 DEF Application

LEMMA InCallStep ==
  ASSUME IInv, NEW t \in Clients, InCall(t)
  PROVE  IInv'
<1>1. ASSUME WaitMarker(t) \/ Fence(t) \/ SignalFalls(t) \/ WaitList(t) PROVE IInv'
  BY <1>1, WaitMarkerStep, FenceStep, SignalFallsStep, WaitListStep
<1>2. ASSUME Notify(t) PROVE IInv' BY <1>2, NotifyIdleStep, NotifyMarkerStep
<1>3. ASSUME Form(t) \/ SubmitPacket(t) \/ SubmitCpuWait(t) \/ Reset(t) PROVE IInv'
  BY <1>3, FormStep, SubmitPacketStep, SubmitCpuWaitStep, ResetStep
<1>4. ASSUME Notified(t) \/ Unlock(t) \/ Enqueued(t) PROVE IInv'
  BY <1>4, NotifiedStep, UnlockStep, EnqueuedStep
<1>5. ASSUME Await(t) \/ WakeUp(t) \/ Clear(t) \/ Return(t) PROVE IInv'
  BY <1>5, AwaitStep, WakeUpStep, ClearStep, ReturnStep
<1>6. ASSUME Update(t) PROVE IInv' BY <1>6, SetCompleteStep, AdvanceStep DEF Update, Threads
<1> QED BY <1>1, <1>2, <1>3, <1>4, <1>5, <1>6 DEF InCall

LEMMA NextInv == IInv /\ [Next]_vars => IInv'
<1> SUFFICES ASSUME IInv, [Next]_vars PROVE IInv' OBVIOUS
<1>1. CASE UNCHANGED vars BY <1>1, StutterStep
<1>2. ASSUME NEW t \in Clients, Application(t) \/ InCall(t) PROVE IInv'
  BY <1>2, ApplicationStep, InCallStep
<1>3. CASE HandlerStep
  BY <1>3, SetCompleteStep, AdvanceStep, SignalHandlerStep DEF HandlerStep, Update, Threads
<1>4. ASSUME NEW q \in Queues, Execute(q) PROVE IInv' BY <1>4, ExecuteStep
<1> QED BY <1>1, <1>2, <1>3, <1>4 DEF Next

LEMMA Invariance == Spec => []IInv
BY InitInv, NextInv, PTL DEF Spec

----------------------------------------
(* What each thread holds, and what each command and queue records, keeps
   its type through every call and every handler. *)
THEOREM TypeCorrectness == Spec => []Types
<1>1. IInv => Types BY DEF IInv
<1> QED BY <1>1, Invariance, PTL

(* finish() and terminate() return only when the GPU has run every packet
   that was on its way in the queue when they took the last command: through
   the marker that closes an open batch, the signal of the last command, or
   the wait on the CPU (HostQueue::finish() and terminate()). *)
THEOREM FinishWaits == Spec => []FinishMeansExecuted
<1>1. ASSUME IInv, NEW t \in Clients, pc[t] = "finished" PROVE my[t].due \subseteq ran
  <2>1. Shape(t) /\ DueOf(t) BY <1>1 DEF IInv
  <2>2. my[t].event = None BY <1>1, <2>1 DEF Shape
  <2> QED BY <1>1, <2>1, <2>2 DEF DueOf, At
<1>2. IInv => FinishMeansExecuted BY <1>1 DEF FinishMeansExecuted
<1> QED BY <1>2, Invariance, PTL

(* A packet runs after the events its command waits for, on whatever queue
   and whichever signal stands for them, and a status is complete only when
   the packet has run (Command::enqueue(), notifyCmdQueue(),
   profilingBegin(), updateCommandsState()). *)
THEOREM OrderIsKept == Spec => []ExecutionOrder
<1>1. ASSUME IInv PROVE ExecutionOrder
  <2>1. \A c \in AllCommands : After(c) BY <1>1 DEF IInv, CommandInv
  <2>2. ran \subseteq AllCommands BY <1>1 DEF IInv, Types
  <2>3. WaitsRespected BY <2>1, <2>2 DEF After, WaitsRespected
  <2>4. CompleteMeansExecuted BY <2>1 DEF After, CompleteMeansExecuted
  <2> QED BY <2>3, <2>4 DEF ExecutionOrder
<1> QED BY <1>1, Invariance, PTL

----------------------------------------
(* The commands from h on, as n leads from one to the next: what every set
   with h that n does not leave has. *)
Stays(n, B)  == \A d \in B : n[d] # None => n[d] \in B
Walk(n, h)   == {c \in AllCommands : h # None /\ \A B \in SUBSET AllCommands : h \in B /\ Stays(n, B) => c \in B}

NextOf    == [c \in AllCommands |-> command[c].next]
Submitted == {c \in AllCommands : command[c].status = "submitted"}

(* Where a batch may be, and where it begins. *)
Places == {<<"open", q>> : q \in Queues} \cup {<<"closed", m>> : m \in AllCommands}
          \cup {<<"walked", t>> : t \in Threads}
HeadAt(k) == CASE k[1] = "open"   -> IF Resetting(k[2]) THEN None ELSE queue[k[2]].head
               [] k[1] = "closed" -> IF k[2] \in armed THEN command[k[2]].batchHead ELSE None
               [] k[1] = "walked" -> my[k[2]].cursor
Heads     == [k \in Places |-> HeadAt(k)]

(* What a walk has completed and not left yet. *)
DoneAt(k) == {c \in AllCommands : k[1] = "walked" /\ pc[k[2]] = "advance" /\ my[k[2]].cursor = c}
Done      == [k \in Places |-> DoneAt(k)]

(* Lists do not meet, and each submitted command is in one: n leads from one
   command to the next, H says where the lists begin, S are the submitted
   commands, and D what the lists have besides. *)
Apart(n, H, S, D) ==
  /\ n \in [AllCommands -> Optional] /\ H \in [Places -> Optional]
  /\ \A c, d \in AllCommands : n[c] # None /\ n[c] = n[d] => c = d
  /\ \A c \in AllCommands : \E e \in Walk(n, c) : n[e] = None
  /\ \A k \in Places : \A d \in S : H[k] # None => n[d] # H[k]
  /\ \A k \in Places : Walk(n, H[k]) \subseteq S \cup D[k]
  /\ \A k, l \in Places : k # l => Walk(n, H[k]) \cap Walk(n, H[l]) = {}
  /\ \A c \in S : \E k \in Places : c \in Walk(n, H[k])

OneInv ==
  /\ Apart(NextOf, Heads, Submitted, Done)
  /\ \A c \in AllCommands : NextOf[c] # None => Live(NextOf[c])
  /\ \A t \in Threads : pc[t] \in {"complete", "advance"} <=> my[t].cursor # None
  /\ \A t \in Threads : pc[t] = "advance" => Complete(my[t].cursor)

LEMMA WalkFacts ==
  ASSUME NEW n \in [AllCommands -> Optional]
  PROVE  /\ Walk(n, None) = {} /\ None \notin AllCommands
         /\ \A h \in AllCommands : h \in Walk(n, h) /\ n[h] \in Optional
         /\ \A h \in Optional : Stays(n, Walk(n, h)) /\ Walk(n, h) \subseteq AllCommands
         /\ \A h \in Optional : \A B \in SUBSET AllCommands :
              h \in B /\ Stays(n, B) => Walk(n, h) \subseteq B
         /\ \A h \in AllCommands : Walk(n, h) = {h} \cup Walk(n, n[h])
<1>1. Walk(n, None) = {} /\ None \notin AllCommands BY DirectDispatchAssumption DEF Walk, AllCommands
<1>2. \A h \in AllCommands : h \in Walk(n, h) /\ n[h] \in Optional /\ h # None BY <1>1 DEF Walk
<1>3. \A h \in Optional : Walk(n, h) \subseteq AllCommands BY DEF Walk
<1>4. \A h \in Optional : \A B \in SUBSET AllCommands :
        h \in B /\ Stays(n, B) => Walk(n, h) \subseteq B
  BY DEF Walk
<1>5. ASSUME NEW h \in Optional PROVE Stays(n, Walk(n, h))
  <2> SUFFICES ASSUME NEW d \in Walk(n, h), n[d] # None PROVE n[d] \in Walk(n, h) BY DEF Stays
  <2>1. d \in AllCommands /\ h # None /\ n[d] \in AllCommands BY <1>2, <1>3 DEF Walk, Optional
  <2>2. ASSUME NEW B \in SUBSET AllCommands, h \in B, Stays(n, B) PROVE n[d] \in B BY <2>2, <1>4 DEF Stays
  <2> QED BY <2>1, <2>2 DEF Walk
<1>6. ASSUME NEW h \in AllCommands PROVE Walk(n, h) = {h} \cup Walk(n, n[h])
  <2>1. PICK W, V : W = Walk(n, h) /\ V = Walk(n, n[h]) OBVIOUS
  <2>2. h \in W /\ W \subseteq AllCommands /\ V \subseteq AllCommands /\ Stays(n, W) /\ Stays(n, V)
        /\ n[h] \in Optional
    BY <1>2, <1>3, <1>5, <2>1 DEF Optional
  <2>3. n[h] # None => n[h] \in V /\ n[h] \in W BY <1>2, <2>1, <2>2 DEF Optional, Stays
  <2>4. Stays(n, {h} \cup V) BY <2>2, <2>3 DEF Stays
  <2>5. W \subseteq {h} \cup V BY <1>4, <2>1, <2>2, <2>4 DEF Optional
  <2>6. V \subseteq W BY <1>1, <1>4, <2>1, <2>2, <2>3
  <2> QED BY <2>1, <2>2, <2>5, <2>6
<1> QED BY <1>1, <1>2, <1>3, <1>4, <1>5, <1>6

(* Batch() in DirectDispatch follows the list, and is this set. *)
LEMMA BatchIsWalk ==
  ASSUME Types, \A c \in AllCommands : \E e \in Walk(NextOf, c) : NextOf[e] = None,
         NEW h \in Optional
  PROVE  Batch(h) = Walk(NextOf, h)
<1>1. PICK n : n = NextOf OBVIOUS
<1>2. n \in [AllCommands -> Optional] /\ \A c \in AllCommands : n[c] = command[c].next
  BY <1>1 DEF NextOf, Types, CommandObject
<1>3. PICK g : g = [c \in AllCommands |-> Walk(n, c)] OBVIOUS
<1>4. ASSUME NEW c \in AllCommands
      PROVE  g[c] = {c} \cup (IF command[c].next = None THEN {} ELSE g[command[c].next])
  <2>1. g[c] = {c} \cup Walk(n, n[c]) BY <1>2, <1>3, WalkFacts
  <2>2. n[c] # None => g[n[c]] = Walk(n, n[c]) BY <1>2, <1>3 DEF Optional
  <2>3. n[c] = None => Walk(n, n[c]) = {} BY <1>2, WalkFacts
  <2> QED BY <1>2, <2>1, <2>2, <2>3
<1>5. g = [c \in AllCommands |-> {c} \cup (IF command[c].next = None THEN {} ELSE g[command[c].next])]
  BY <1>3, <1>4
<1>6. PICK f : f = CHOOSE b : b = [c \in AllCommands |->
                   {c} \cup (IF command[c].next = None THEN {} ELSE b[command[c].next])]
  OBVIOUS
<1>7. f = [c \in AllCommands |-> {c} \cup (IF command[c].next = None THEN {} ELSE f[command[c].next])]
  BY <1>5, <1>6
<1>8. Batch(h) = IF h = None THEN {} ELSE f[h] BY <1>6 DEF Batch
<1>9. \A c \in AllCommands : f[c] = Walk(n, c)
  <2>1. PICK B : B = {c \in AllCommands : f[c] # Walk(n, c)} OBVIOUS
  <2>2. ASSUME NEW c \in AllCommands
        PROVE  f[c] = {c} \cup (IF n[c] = None THEN {} ELSE f[n[c]])
    BY <1>2, <1>7
  <2>3. Stays(n, B)
    <3> SUFFICES ASSUME NEW c \in B, n[c] # None PROVE n[c] \in B BY DEF Stays
    <3>1. c \in AllCommands /\ n[c] \in AllCommands /\ f[c] # Walk(n, c) BY <1>2, <2>1 DEF Optional
    <3>2. f[c] = {c} \cup f[n[c]] /\ Walk(n, c) = {c} \cup Walk(n, n[c]) BY <1>2, <2>2, <3>1, WalkFacts
    <3> QED BY <2>1, <3>1, <3>2
  <2>4. ASSUME NEW c \in B PROVE FALSE
    <3>1. c \in AllCommands /\ Walk(n, c) \subseteq B /\ B \in SUBSET AllCommands
      BY <1>2, <2>1, <2>3, WalkFacts DEF Optional
    <3>2. PICK e \in Walk(n, c) : n[e] = None BY <1>1, <3>1
    <3>3. e \in AllCommands /\ f[e] # Walk(n, e) BY <2>1, <3>1, <3>2
    <3>4. f[e] = {e} /\ Walk(n, e) = {e} BY <1>2, <2>2, <3>2, <3>3, WalkFacts
    <3> QED BY <3>3, <3>4
  <2> QED BY <2>1, <2>4
<1>10. h = None => Walk(n, h) = {} BY <1>2, WalkFacts
<1> QED BY <1>1, <1>8, <1>9, <1>10 DEF Optional

(* How the lists change: one moves to another place, ... *)
LEMMA MoveLists ==
  ASSUME NEW n, NEW H, NEW S, NEW D, Apart(n, H, S, D),
         NEW k \in Places, NEW l \in Places, k # l, H[l] = None, D[k] = {}, D[l] = {},
         NEW J, J = [H EXCEPT ![k] = None, ![l] = H[k]]
  PROVE  Apart(n, J, S, D)
<1>1. n \in [AllCommands -> Optional] /\ H \in [Places -> Optional] BY DEF Apart
<1>2. J \in [Places -> Optional] /\ J[k] = None /\ J[l] = H[k]
      /\ \A p \in Places : p # k /\ p # l => J[p] = H[p]
  BY <1>1 DEF Optional
<1>3. Walk(n, None) = {} BY <1>1, WalkFacts
<1>4. \A p \in Places : \A d \in S : J[p] # None => n[d] # J[p] BY <1>2 DEF Apart
<1>5. \A p \in Places : Walk(n, J[p]) \subseteq S \cup D[p] BY <1>2, <1>3 DEF Apart
<1>6. \A p, r \in Places : p # r => Walk(n, J[p]) \cap Walk(n, J[r]) = {} BY <1>2, <1>3 DEF Apart
<1>7. \A c \in S : \E p \in Places : c \in Walk(n, J[p]) BY <1>2, <1>3 DEF Apart
<1> QED BY <1>1, <1>2, <1>4, <1>5, <1>6, <1>7 DEF Apart

(* ... one begins, with a command that is in none, ... *)
LEMMA StartList ==
  ASSUME NEW n, NEW H, NEW S, NEW D, Apart(n, H, S, D),
         NEW k \in Places, NEW c \in AllCommands, H[k] = None, n[c] = None,
         \A p \in Places : c \notin Walk(n, H[p]),
         \A d \in AllCommands : n[d] # c,
         NEW J, J = [H EXCEPT ![k] = c]
  PROVE  Apart(n, J, S \cup {c}, D)
<1>1. n \in [AllCommands -> Optional] /\ H \in [Places -> Optional] BY DEF Apart
<1>2. J \in [Places -> Optional] /\ J[k] = c /\ c # None
      /\ \A p \in Places : p # k => J[p] = H[p]
  BY <1>1, WalkFacts DEF Optional
<1>3. Walk(n, c) = {c} /\ Walk(n, None) = {} BY <1>1, WalkFacts
<1>4. \A p \in Places : \A d \in S \cup {c} : J[p] # None => n[d] # J[p]
  <2> SUFFICES ASSUME NEW p \in Places, NEW d \in S \cup {c}, J[p] # None PROVE n[d] # J[p] OBVIOUS
  <2>1. CASE d = c BY <2>1
  <2>2. CASE d \in S /\ p # k BY <1>2, <2>2 DEF Apart
  <2>3. CASE d \in S /\ p = k
    <3>1. PICK r \in Places : d \in Walk(n, H[r]) BY <2>3 DEF Apart
    <3>2. d \in AllCommands BY <3>1 DEF Walk
    <3> QED BY <1>2, <2>3, <3>2
  <2> QED BY <2>1, <2>2, <2>3
<1>5. \A p \in Places : Walk(n, J[p]) \subseteq (S \cup {c}) \cup D[p] BY <1>2, <1>3 DEF Apart
<1>6. \A p, r \in Places : p # r => Walk(n, J[p]) \cap Walk(n, J[r]) = {} BY <1>2, <1>3 DEF Apart
<1>7. \A d \in S \cup {c} : \E p \in Places : d \in Walk(n, J[p])
  <2>1. ASSUME NEW d \in S PROVE \E p \in Places : d \in Walk(n, J[p])
    <3>1. PICK p \in Places : d \in Walk(n, H[p]) BY DEF Apart
    <3> QED BY <1>2, <1>3, <3>1
  <2> QED BY <1>2, <1>3, <2>1
<1> QED BY <1>1, <1>2, <1>4, <1>5, <1>6, <1>7 DEF Apart

(* ... one grows at its end e, ... *)
LEMMA GrowList ==
  ASSUME NEW n, NEW H, NEW S, NEW D, Apart(n, H, S, D),
         NEW k \in Places, NEW c \in AllCommands, NEW e \in AllCommands, c # e,
         e \in Walk(n, H[k]), n[e] = None, n[c] = None,
         \A p \in Places : c \notin Walk(n, H[p]),
         \A d \in AllCommands : n[d] # c,
         NEW m, m = [n EXCEPT ![e] = c]
  PROVE  Apart(m, H, S \cup {c}, D)
<1>1. n \in [AllCommands -> Optional] /\ H \in [Places -> Optional] BY DEF Apart
<1>2. m \in [AllCommands -> Optional] /\ m[e] = c /\ m[c] = None /\ c # None
      /\ \A d \in AllCommands : d # e => m[d] = n[d]
  BY <1>1, WalkFacts DEF Optional
<1>3. ASSUME NEW h \in Optional
      PROVE  Walk(m, h) = Walk(n, h) \cup (IF e \in Walk(n, h) THEN {c} ELSE {})
  <2>1. PICK V, W : V = Walk(n, h) /\ W = Walk(m, h) OBVIOUS
  <2>2. V \subseteq AllCommands /\ W \subseteq AllCommands /\ Stays(n, V) /\ Stays(m, W)
    BY <1>1, <1>2, <2>1, WalkFacts
  <2>3. CASE h = None BY <1>1, <1>2, <2>3, WalkFacts
  <2>4. CASE h \in AllCommands
    <3>1. h \in V /\ h \in W BY <1>1, <1>2, <2>1, <2>4, WalkFacts
    <3>2. Stays(n, W) BY <1>2, <2>2 DEF Stays
    <3>3. V \subseteq W BY <1>1, <2>1, <2>2, <3>1, <3>2, WalkFacts
    <3>4. PICK U : U = V \cup (IF e \in V THEN {c} ELSE {}) OBVIOUS
    <3>5. Stays(m, U) BY <1>2, <2>2, <3>4 DEF Stays
    <3>6. h \in U /\ U \in SUBSET AllCommands BY <2>2, <3>1, <3>4
    <3>7. W \subseteq U BY <1>2, <2>1, <3>5, <3>6, WalkFacts
    <3>8. e \in V => c \in W BY <1>2, <2>2, <3>3 DEF Stays
    <3> QED BY <2>1, <3>3, <3>4, <3>7, <3>8
  <2> QED BY <2>3, <2>4 DEF Optional
<1>4. \A x \in AllCommands : \E z \in Walk(m, x) : m[z] = None
  <2> TAKE x \in AllCommands
  <2>1. PICK z \in Walk(n, x) : n[z] = None BY DEF Apart
  <2>2. Walk(m, x) = Walk(n, x) \cup (IF e \in Walk(n, x) THEN {c} ELSE {}) BY <1>3 DEF Optional
  <2>3. z \in AllCommands BY <2>1 DEF Walk
  <2>4. CASE z = e BY <1>2, <2>1, <2>2, <2>4
  <2>5. CASE z # e BY <1>2, <2>1, <2>2, <2>3, <2>5
  <2> QED BY <2>4, <2>5
<1>5. \A p \in Places : /\ H[p] \in Optional
                        /\ Walk(m, H[p]) = Walk(n, H[p]) \cup (IF e \in Walk(n, H[p]) THEN {c} ELSE {})
  BY <1>1, <1>3
<1>7. \A x, y \in AllCommands : m[x] # None /\ m[x] = m[y] => x = y BY <1>2 DEF Apart
<1>8. \A p \in Places : \A d \in S \cup {c} : H[p] # None => m[d] # H[p]
  <2> SUFFICES ASSUME NEW p \in Places, NEW d \in S \cup {c}, H[p] # None, m[d] = H[p] PROVE FALSE OBVIOUS
  <2>1. H[p] \in AllCommands /\ H[p] \in Walk(n, H[p]) BY <1>1, <1>5, WalkFacts DEF Optional
  <2>2. d # c /\ H[p] # c BY <1>2, <2>1
  <2>3. d # e BY <1>2, <2>2
  <2>4. d \in S BY <2>2
  <2>5. PICK r \in Places : d \in Walk(n, H[r]) BY <2>4 DEF Apart
  <2>6. d \in AllCommands BY <2>5 DEF Walk
  <2> QED BY <1>2, <2>3, <2>4, <2>6 DEF Apart
<1>9. \A p \in Places : Walk(m, H[p]) \subseteq (S \cup {c}) \cup D[p]
  <2> TAKE p \in Places
  <2>1. Walk(n, H[p]) \subseteq S \cup D[p] BY DEF Apart
  <2>2. Walk(m, H[p]) \subseteq Walk(n, H[p]) \cup {c} BY <1>5
  <2> QED BY <2>1, <2>2
<1>10. \A p, r \in Places : p # r => Walk(m, H[p]) \cap Walk(m, H[r]) = {}
  <2> SUFFICES ASSUME NEW p \in Places, NEW r \in Places, p # r
               PROVE  Walk(m, H[p]) \cap Walk(m, H[r]) = {}
    OBVIOUS
  <2>1. Walk(n, H[p]) \cap Walk(n, H[r]) = {} /\ c \notin Walk(n, H[p]) /\ c \notin Walk(n, H[r])
    BY DEF Apart
  <2>2. ~(e \in Walk(n, H[p]) /\ e \in Walk(n, H[r])) BY <2>1
  <2>3. /\ Walk(m, H[p]) = Walk(n, H[p]) \cup (IF e \in Walk(n, H[p]) THEN {c} ELSE {})
        /\ Walk(m, H[r]) = Walk(n, H[r]) \cup (IF e \in Walk(n, H[r]) THEN {c} ELSE {})
    BY <1>5
  <2>4. CASE e \in Walk(n, H[p]) BY ONLY <2>1, <2>2, <2>3, <2>4
  <2>5. CASE e \notin Walk(n, H[p]) BY ONLY <2>1, <2>3, <2>5
  <2> QED BY <2>4, <2>5
<1>11. \A d \in S \cup {c} : \E p \in Places : d \in Walk(m, H[p])
  <2>1. ASSUME NEW d \in S PROVE \E p \in Places : d \in Walk(m, H[p])
    <3>1. PICK p \in Places : d \in Walk(n, H[p]) BY DEF Apart
    <3>2. d \in Walk(m, H[p]) BY <1>5, <3>1
    <3> QED BY <3>2
  <2>2. c \in Walk(m, H[k]) BY <1>5
  <2> QED BY <2>1, <2>2
<1> QED BY <1>1, <1>2, <1>4, <1>7, <1>8, <1>9, <1>10, <1>11 DEF Apart

(* ... a walk completes its first command, ... *)
LEMMA CompleteList ==
  ASSUME NEW n, NEW H, NEW S, NEW D, Apart(n, H, S, D),
         NEW k \in Places, H[k] # None, D \in [Places -> SUBSET AllCommands],
         NEW E, E = [D EXCEPT ![k] = {H[k]}], D[k] = {}
  PROVE  Apart(n, H, S \ {H[k]}, E)
<1>1. n \in [AllCommands -> Optional] /\ H \in [Places -> Optional] BY DEF Apart
<1>2. E[k] = {H[k]} /\ \A p \in Places : p # k => E[p] = D[p] OBVIOUS
<1>3. H[k] \in AllCommands /\ H[k] \in Walk(n, H[k]) BY <1>1, WalkFacts DEF Optional
<1>4. \A p \in Places : Walk(n, H[p]) \subseteq (S \ {H[k]}) \cup E[p]
  <2> SUFFICES ASSUME NEW p \in Places PROVE Walk(n, H[p]) \subseteq (S \ {H[k]}) \cup E[p] OBVIOUS
  <2>1. Walk(n, H[p]) \subseteq S \cup D[p] BY DEF Apart
  <2>2. p # k => H[k] \notin Walk(n, H[p]) BY <1>3 DEF Apart
  <2> QED BY <1>2, <2>1, <2>2
<1> QED BY <1>1, <1>4 DEF Apart

(* ... and goes on to the next. *)
LEMMA AdvanceList ==
  ASSUME NEW n, NEW H, NEW S, NEW D, Apart(n, H, S, D),
         NEW k \in Places, NEW c \in AllCommands, H[k] = c, c \notin S, D[k] = {c},
         D \in [Places -> SUBSET AllCommands],
         NEW J, J = [H EXCEPT ![k] = n[c]],
         NEW E, E = [D EXCEPT ![k] = {}]
  PROVE  Apart(n, J, S, E)
<1>1. n \in [AllCommands -> Optional] /\ H \in [Places -> Optional] /\ c # None /\ n[c] \in Optional
  BY WalkFacts DEF Apart
<1>2. J[k] = n[c] /\ \A p \in Places : p # k => J[p] = H[p] BY <1>1
<1>3. J \in [Places -> Optional] BY <1>1
<1>4. E[k] = {} /\ \A p \in Places : p # k => E[p] = D[p] OBVIOUS
<1>5. PICK V, W : V = Walk(n, c) /\ W = Walk(n, n[c]) OBVIOUS
<1>6. V = {c} \cup W /\ V \subseteq AllCommands /\ Stays(n, V) BY <1>1, <1>5, WalkFacts DEF Optional
<1>7. V \subseteq S \cup {c} BY <1>5 DEF Apart
<1>8. n[c] # c
  <2> SUFFICES ASSUME n[c] = c PROVE FALSE OBVIOUS
  <2>1. Stays(n, {c}) BY DEF Stays
  <2>2. V \subseteq {c} BY <1>1, <1>5, <2>1, WalkFacts DEF Optional
  <2>3. PICK e \in V : n[e] = None BY <1>5 DEF Apart
  <2> QED BY <1>1, <2>2, <2>3
<1>9. \A d \in V : n[d] # c BY <1>1, <1>7, <1>8 DEF Apart
<1>10. c \notin W
  <2>1. Stays(n, V \ {c}) BY <1>6, <1>9 DEF Stays
  <2>2. CASE n[c] = None BY <1>1, <1>5, <2>2, WalkFacts
  <2>3. CASE n[c] # None
    <3>1. c \in V /\ n[c] \in V \ {c} /\ V \ {c} \in SUBSET AllCommands BY <1>6, <1>8, <2>3 DEF Stays
    <3>2. W \subseteq V \ {c} BY <1>1, <1>5, <2>1, <3>1, WalkFacts
    <3> QED BY <3>2
  <2> QED BY <2>2, <2>3
<1>11. \A p \in Places : \A d \in S : J[p] # None => n[d] # J[p]
  <2> SUFFICES ASSUME NEW p \in Places, NEW d \in S, J[p] # None, n[d] = J[p] PROVE FALSE OBVIOUS
  <2>1. p = k BY <1>2 DEF Apart
  <2>2. PICK r \in Places : d \in Walk(n, H[r]) BY DEF Apart
  <2>3. d \in AllCommands BY <2>2 DEF Walk
  <2> QED BY <1>2, <2>1, <2>3 DEF Apart
<1>12. \A p \in Places : Walk(n, J[p]) \subseteq S \cup E[p]
  <2> SUFFICES ASSUME NEW p \in Places PROVE Walk(n, J[p]) \subseteq S \cup E[p] OBVIOUS
  <2>1. CASE p = k BY <1>2, <1>5, <1>6, <1>7, <1>10, <2>1
  <2>2. CASE p # k BY <1>2, <1>4, <2>2 DEF Apart
  <2> QED BY <2>1, <2>2
<1>13. \A p \in Places : Walk(n, J[p]) \subseteq Walk(n, H[p]) BY <1>2, <1>5, <1>6
<1>14. \A p, r \in Places : p # r => Walk(n, J[p]) \cap Walk(n, J[r]) = {} BY <1>13 DEF Apart
<1>15. \A d \in S : \E p \in Places : d \in Walk(n, J[p])
  <2> TAKE d \in S
  <2>1. PICK p \in Places : d \in Walk(n, H[p]) BY DEF Apart
  <2>2. d # c OBVIOUS
  <2> QED BY <1>2, <1>5, <1>6, <2>1, <2>2
<1> QED BY <1>1, <1>3, <1>11, <1>12, <1>14, <1>15 DEF Apart

----------------------------------------
(* The places, and what is there. *)
HeadsOk ==
  /\ \A q \in Queues : Heads[<<"open", q>>] = (IF Resetting(q) THEN None ELSE queue[q].head)
  /\ \A m \in AllCommands : Heads[<<"closed", m>>] = (IF m \in armed THEN command[m].batchHead ELSE None)
  /\ \A t \in Threads : Heads[<<"walked", t>>] = my[t].cursor
  /\ \A q \in Queues : Done[<<"open", q>>] = {}
  /\ \A m \in AllCommands : Done[<<"closed", m>>] = {}
  /\ \A t \in Threads : Done[<<"walked", t>>] =
       {c \in AllCommands : pc[t] = "advance" /\ my[t].cursor = c}
  /\ DOMAIN Heads = Places /\ Done \in [Places -> SUBSET AllCommands]
  /\ Heads = [k \in Places |-> Heads[k]] /\ Done = [k \in Places |-> Done[k]]

LEMMA PlaceFacts ==
  /\ \A q \in Queues : <<"open", q>> \in Places
  /\ \A m \in AllCommands : <<"closed", m>> \in Places
  /\ \A t \in Threads : <<"walked", t>> \in Places
  /\ \A k \in Places : \/ \E q \in Queues : k = <<"open", q>>
                       \/ \E m \in AllCommands : k = <<"closed", m>>
                       \/ \E t \in Threads : k = <<"walked", t>>
  /\ \A x, y : /\ <<"open", x>> # <<"closed", y>> /\ <<"open", x>> # <<"walked", y>>
               /\ <<"closed", x>> # <<"walked", y>>
               /\ (<<"open", x>> = <<"open", y>> => x = y)
               /\ (<<"closed", x>> = <<"closed", y>> => x = y)
               /\ (<<"walked", x>> = <<"walked", y>> => x = y)
BY DEF Places

LEMMA HeadsAre == HeadsOk /\ HeadsOk'
<1>1. \A q \in Queues : /\ Heads[<<"open", q>>] = (IF Resetting(q) THEN None ELSE queue[q].head)
                         /\ Done[<<"open", q>>] = {}
  <2> TAKE q \in Queues
  <2>1. <<"open", q>> \in Places /\ <<"open", q>>[1] = "open" /\ <<"open", q>>[2] = q BY PlaceFacts
  <2> QED BY <2>1 DEF Heads, HeadAt, Done, DoneAt
<1>2. \A m \in AllCommands : /\ Heads[<<"closed", m>>] = (IF m \in armed THEN command[m].batchHead ELSE None)
                         /\ Done[<<"closed", m>>] = {}
  <2> TAKE m \in AllCommands
  <2>1. <<"closed", m>> \in Places /\ <<"closed", m>>[1] = "closed" /\ <<"closed", m>>[2] = m
    BY PlaceFacts
  <2> QED BY <2>1 DEF Heads, HeadAt, Done, DoneAt
<1>3. \A t \in Threads : /\ Heads[<<"walked", t>>] = my[t].cursor
                         /\ Done[<<"walked", t>>] = {c \in AllCommands : pc[t] = "advance" /\ my[t].cursor = c}
  <2> TAKE t \in Threads
  <2>1. <<"walked", t>> \in Places /\ <<"walked", t>>[1] = "walked" /\ <<"walked", t>>[2] = t
    BY PlaceFacts
  <2> QED BY <2>1 DEF Heads, HeadAt, Done, DoneAt
<1>4. (/\ DOMAIN Heads = Places /\ Done \in [Places -> SUBSET AllCommands]
      /\ Heads = [k \in Places |-> Heads[k]] /\ Done = [k \in Places |-> Done[k]])
  BY DEF Heads, Done, DoneAt
<1>5. \A q \in Queues : /\ Heads'[<<"open", q>>] = (IF Resetting(q) THEN None ELSE queue[q].head)'
                         /\ Done'[<<"open", q>>] = {}
  <2> TAKE q \in Queues
  <2>1. <<"open", q>> \in Places /\ <<"open", q>>[1] = "open" /\ <<"open", q>>[2] = q BY PlaceFacts
  <2> QED BY <2>1 DEF Heads, HeadAt, Done, DoneAt
<1>6. \A m \in AllCommands : /\ Heads'[<<"closed", m>>] = (IF m \in armed THEN command[m].batchHead ELSE None)'
                         /\ Done'[<<"closed", m>>] = {}
  <2> TAKE m \in AllCommands
  <2>1. <<"closed", m>> \in Places /\ <<"closed", m>>[1] = "closed" /\ <<"closed", m>>[2] = m
    BY PlaceFacts
  <2> QED BY <2>1 DEF Heads, HeadAt, Done, DoneAt
<1>7. \A t \in Threads : /\ Heads'[<<"walked", t>>] = (my[t].cursor)'
                         /\ Done'[<<"walked", t>>] = {c \in AllCommands : pc[t] = "advance" /\ my[t].cursor = c}'
  <2> TAKE t \in Threads
  <2>1. <<"walked", t>> \in Places /\ <<"walked", t>>[1] = "walked" /\ <<"walked", t>>[2] = t
    BY PlaceFacts
  <2> QED BY <2>1 DEF Heads, HeadAt, Done, DoneAt
<1>8. (/\ DOMAIN Heads = Places /\ Done \in [Places -> SUBSET AllCommands]
      /\ Heads = [k \in Places |-> Heads[k]] /\ Done = [k \in Places |-> Done[k]])'
  BY DEF Heads, Done, DoneAt
<1> QED BY <1>1, <1>2, <1>3, <1>4, <1>5, <1>6, <1>7, <1>8 DEF HeadsOk

(* How a list is read off two states: only the places of X may differ. *)
LEMMA HeadsExcept ==
  ASSUME NEW X \in SUBSET Places,
         \A q \in Queues : <<"open", q>> \in X \/
           (IF Resetting(q) THEN None ELSE queue[q].head)' = (IF Resetting(q) THEN None ELSE queue[q].head),
         \A m \in AllCommands : <<"closed", m>> \in X \/
           (IF m \in armed THEN command[m].batchHead ELSE None)' = (IF m \in armed THEN command[m].batchHead ELSE None),
         \A t \in Threads : <<"walked", t>> \in X \/ my'[t].cursor = my[t].cursor
  PROVE  \A k \in Places : k \notin X => Heads'[k] = Heads[k]
<1> TAKE k \in Places
<1>1. HeadsOk /\ HeadsOk' BY HeadsAre
<1>2. ASSUME NEW q \in Queues, k = <<"open", q>>, k \notin X PROVE Heads'[k] = Heads[k]
  BY <1>1, <1>2 DEF HeadsOk
<1>3. ASSUME NEW m \in AllCommands, k = <<"closed", m>>, k \notin X PROVE Heads'[k] = Heads[k]
  BY <1>1, <1>3 DEF HeadsOk
<1>4. ASSUME NEW t \in Threads, k = <<"walked", t>>, k \notin X PROVE Heads'[k] = Heads[k]
  BY <1>1, <1>4 DEF HeadsOk
<1> QED BY <1>2, <1>3, <1>4, PlaceFacts

LEMMA DoneExcept ==
  ASSUME NEW X \in SUBSET Places,
         \A t \in Threads : <<"walked", t>> \in X \/
           \/ pc[t] # "advance" /\ pc'[t] # "advance"
           \/ pc'[t] = pc[t] /\ my'[t].cursor = my[t].cursor
  PROVE  \A k \in Places : k \notin X => Done'[k] = Done[k]
<1> TAKE k \in Places
<1>1. HeadsOk /\ HeadsOk' BY HeadsAre
<1>2. ASSUME NEW q \in Queues, k = <<"open", q>> PROVE Done'[k] = Done[k] BY <1>1, <1>2 DEF HeadsOk
<1>3. ASSUME NEW m \in AllCommands, k = <<"closed", m>> PROVE Done'[k] = Done[k] BY <1>1, <1>3 DEF HeadsOk
<1>4. ASSUME NEW t \in Threads, k = <<"walked", t>>, k \notin X PROVE Done'[k] = Done[k]
  <2>1. Done[k] = {c \in AllCommands : pc[t] = "advance" /\ my[t].cursor = c} BY <1>1, <1>4 DEF HeadsOk
  <2>2. Done'[k] = {c \in AllCommands : pc'[t] = "advance" /\ my'[t].cursor = c} BY <1>1, <1>4 DEF HeadsOk
  <2> QED BY <1>4, <2>1, <2>2
<1> QED BY <1>2, <1>3, <1>4, PlaceFacts

----------------------------------------
(* A step that leaves all lists alone. *)
Resets == {"reset", "complete", "advance"}

CommandsKept ==
  \A c \in AllCommands :
    /\ command'[c].next = command[c].next
    /\ command'[c].status = "submitted" <=> command[c].status = "submitted"
    /\ Live(c) => Live(c)'
    /\ Complete(c) => Complete(c)'
    /\ c \in armed => command'[c].batchHead = command[c].batchHead

LEMMA SameLists ==
  ASSUME OneInv, Types, CommandsKept, armed' = armed,
         \A t \in Threads : /\ my'[t].cursor = my[t].cursor
                            /\ pc'[t] = "advance" <=> pc[t] = "advance"
                            /\ pc'[t] = "complete" <=> pc[t] = "complete",
         \A q \in Queues : queue'[q].head = queue[q].head /\ (Resetting(q)' <=> Resetting(q))
  PROVE  OneInv'
<1>0. /\ Apart(NextOf, Heads, Submitted, Done)
      /\ \A c \in AllCommands : NextOf[c] # None => Live(NextOf[c])
      /\ \A t \in Threads : pc[t] \in {"complete", "advance"} <=> my[t].cursor # None
      /\ \A t \in Threads : pc[t] = "advance" => Complete(my[t].cursor)
  BY DEF OneInv
<1>1. NextOf' = NextOf /\ Submitted' = Submitted BY DEF NextOf, Submitted, CommandsKept
<1>2. \A k \in Places : Heads'[k] = Heads[k] /\ Done'[k] = Done[k]
  <2>7. PICK X : X = {} OBVIOUS
  <2>0. X = {} /\ X \in SUBSET Places BY <2>7
  <2>1. \A q \in Queues : <<"open", q>> \in X \/
             (IF Resetting(q) THEN None ELSE queue[q].head)' = (IF Resetting(q) THEN None ELSE queue[q].head)
    OBVIOUS
  <2>2. \A m \in AllCommands : <<"closed", m>> \in X \/
             (IF m \in armed THEN command[m].batchHead ELSE None)' = (IF m \in armed THEN command[m].batchHead ELSE None)
    BY DEF CommandsKept
  <2>3. \A t \in Threads : <<"walked", t>> \in X \/ my'[t].cursor = my[t].cursor OBVIOUS
  <2>4. \A t \in Threads : <<"walked", t>> \in X \/
             \/ pc[t] # "advance" /\ pc'[t] # "advance"
             \/ pc'[t] = pc[t] /\ my'[t].cursor = my[t].cursor
    OBVIOUS
  <2>5. \A k \in Places : k \notin X => Heads'[k] = Heads[k] BY ONLY <2>0, <2>1, <2>2, <2>3, HeadsExcept
  <2>6. \A k \in Places : k \notin X => Done'[k] = Done[k] BY ONLY <2>0, <2>4, DoneExcept
  <2> QED BY <2>0, <2>5, <2>6
<1>3. Heads' = Heads /\ Done' = Done
  <2>1. Heads = [k \in Places |-> Heads[k]] /\ Done = [k \in Places |-> Done[k]]
        /\ Heads' = [k \in Places |-> Heads'[k]] /\ Done' = [k \in Places |-> Done'[k]]
    BY HeadsAre DEF HeadsOk
  <2> QED BY ONLY <1>2, <2>1
<1>4. Apart(NextOf, Heads, Submitted, Done)' BY ONLY <1>0, <1>1, <1>3
<1>5. (\A c \in AllCommands : NextOf[c] # None => Live(NextOf[c]))'
  <2>1. \A c \in AllCommands : NextOf[c] \in Optional /\ NextOf[c] = command[c].next
    BY DEF NextOf, Types, CommandObject
  <2> QED BY <1>0, <1>1, <2>1 DEF CommandsKept, Optional
<1>6. \A t \in Threads : pc'[t] \in {"complete", "advance"} <=> my'[t].cursor # None BY <1>0
<1>7. (\A t \in Threads : pc[t] = "advance" => Complete(my[t].cursor))'
  <2>1. \A t \in Threads : my[t].cursor \in Optional BY DEF Types, Locals
  <2> QED BY <1>0, <2>1 DEF CommandsKept, Optional
<1> QED BY <1>4, <1>5, <1>6, <1>7 DEF OneInv

LEMMA QuietStep ==
  ASSUME OneInv, Types, NEW t \in Clients, pc[t] \notin Resets, pc'[t] \notin Resets,
         \A u \in Threads : u # t => pc'[u] = pc[u] /\ my'[u] = my[u],
         my'[t].cursor \in {None, my[t].cursor},
         CommandsKept, armed' = armed, \A q \in Queues : queue'[q].head = queue[q].head,
         \A q \in Queues : \A u \in Clients : u # t => (execution'[q] = u <=> execution[q] = u)
  PROVE  OneInv'
<1>1. t \in Threads /\ my[t].cursor = None BY DEF OneInv, Resets, Threads
<1>2. \A u \in Threads : /\ my'[u].cursor = my[u].cursor
                         /\ pc'[u] = "advance" <=> pc[u] = "advance"
                         /\ pc'[u] = "complete" <=> pc[u] = "complete"
  BY <1>1 DEF Resets
<1>3. \A q \in Queues : Resetting(q)' <=> Resetting(q) BY DEF Resetting, Resets, Threads
<1> QED BY <1>2, <1>3, SameLists

(* Commands that are created, ... *)
LEMMA CreatedKept ==
  ASSUME Types, NEW x \in AllCommands, command[x].status = "new", NEW q, NEW W, NEW kind,
         command' = Created(x, kind, q, W)
  PROVE  CommandsKept
<1>1. /\ \A c \in AllCommands : c # x => command'[c] = command[c]
      /\ command'[x] = [command[x] EXCEPT !.kind = kind, !.queue = q, !.waits = W, !.status = "queued"]
  BY DEF Types, Created
<1>2. command[x] \in CommandObject BY DEF Types
<1>3. /\ command'[x].next = command[x].next /\ command'[x].status = "queued"
      /\ command'[x].batchHead = command[x].batchHead
  BY <1>1, <1>2 DEF CommandObject
<1> QED BY <1>1, <1>3 DEF CommandsKept, Live, Complete

(* ... and left alone. *)
LEMMA AloneKept == ASSUME command' = command PROVE CommandsKept
BY DEF CommandsKept, Live, Complete

(* A step of client t that only changes where it is and its locals. *)
LEMMA LocalQuiet ==
  ASSUME OneInv, Types, NEW t \in Clients, NEW label, NEW l, pc[t] \notin Resets, label \notin Resets,
         pc' = [pc EXCEPT ![t] = label], my' = [my EXCEPT ![t] = l],
         l.cursor \in {None, my[t].cursor}, CommandsKept, armed' = armed, execution' = execution,
         \A q \in Queues : queue'[q].head = queue[q].head
  PROVE  OneInv'
<1>1. t \in Threads /\ pc \in [Threads -> Labels] /\ my \in [Threads -> Locals] BY DEF Types, Threads
<1>2. /\ pc'[t] = label /\ my'[t] = l
      /\ \A u \in Threads : u # t => pc'[u] = pc[u] /\ my'[u] = my[u]
  BY <1>1
<1> QED BY <1>2, QuietStep

----------------------------------------
(* The steps of a call that leave the lists alone. *)
LEMMA ApplicationQuiet ==
  ASSUME IInv, OneInv, NEW t \in Clients, Application(t)
  PROVE  OneInv'
<1>1. Types /\ t \in Threads /\ AtHome.cursor = None BY ClientFacts DEF AtHome
<1>2. ASSUME NEW e \in handles, ReleaseHandle(t, e) PROVE OneInv'
  <2>1. /\ command' = command /\ queue' = queue /\ armed' = armed /\ execution' = execution
        /\ pc' = pc /\ my' = my /\ pc[t] = "idle"
    BY <1>2 DEF ReleaseHandle, locks, gpu
  <2>2. CommandsKept BY <2>1, AloneKept
  <2> QED BY <1>1, <2>1, <2>2, QuietStep DEF Resets
<1>3. ASSUME NEW what, NEW q, Call(t, what, q)
      PROVE  /\ pc[t] = "idle" /\ Locally(t, what, q).cursor = None
             /\ created + 1 \in AllCommands /\ command[created + 1].status = "new"
  BY <1>3, FreshFacts DEF Call, Locally, AtHome
<1>4. ASSUME NEW q, NEW what, Launch(t, what, q) PROVE OneInv'
  <2>1. PICK l, kind : l = Locally(t, what, q) /\ kind = IF what = "record" THEN "record" ELSE "work"
    OBVIOUS
  <2>2. /\ pc' = [pc EXCEPT ![t] = "waitList"] /\ my' = [my EXCEPT ![t] = l]
        /\ command' = Created(created + 1, kind, q, {}) /\ Call(t, what, q)
        /\ armed' = armed /\ execution' = execution /\ queue' = queue
    BY <1>4, <2>1 DEF Launch, Goto, locks, gpu
  <2>3. CommandsKept BY <1>1, <1>3, <2>2, CreatedKept
  <2> QED BY <1>1, <1>3, <2>1, <2>2, <2>3, LocalQuiet DEF Resets
<1>5. ASSUME NEW q, NEW e, StreamWait(t, q, e) PROVE OneInv'
  <2>1. PICK l : l = [Locally(t, "streamWait", q) EXCEPT !.todo = {e}] OBVIOUS
  <2>2. /\ pc' = [pc EXCEPT ![t] = "waitList"] /\ my' = [my EXCEPT ![t] = l]
        /\ command' = Created(created + 1, "marker", q, {e}) /\ Call(t, "streamWait", q)
        /\ armed' = armed /\ execution' = execution /\ queue' = queue
    BY <1>5, <2>1 DEF StreamWait, Goto, locks, gpu
  <2>3. CommandsKept BY <1>1, <1>3, <2>2, CreatedKept
  <2>4. l.cursor = None BY <2>1 DEF Locally, AtHome
  <2> QED BY <1>1, <1>3, <2>2, <2>3, <2>4, LocalQuiet DEF Resets
<1>6. ASSUME NEW q, NEW p, WaitStream(t, q, p) PROVE OneInv'
  <2>1. PICK l : l = [Locally(t, "waitStream", q) EXCEPT !.held = queue[p].last, !.event = queue[p].last,
                                                         !.then = "waitMarker"]
    OBVIOUS
  <2>2. /\ pc' = [pc EXCEPT ![t] = "notify"] /\ my' = [my EXCEPT ![t] = l]
        /\ command' = command /\ Call(t, "waitStream", q)
        /\ armed' = armed /\ execution' = execution /\ queue' = queue
    BY <1>6, <2>1 DEF WaitStream, Goto, locks, gpu
  <2>3. CommandsKept BY <2>2, AloneKept
  <2>4. l.cursor = None BY <2>1 DEF Locally, AtHome
  <2> QED BY <1>1, <1>3, <2>2, <2>3, <2>4, LocalQuiet DEF Resets
<1>7. ASSUME NEW q, Finish(t, q) PROVE OneInv'
  <2>1. PICK l : l = [Locally(t, "finish", q) EXCEPT !.held = queue[q].last, !.due = Pending(q)] OBVIOUS
  <2>2. /\ pc' = [pc EXCEPT ![t] = "fence"] /\ my' = [my EXCEPT ![t] = l]
        /\ command' = command /\ Call(t, "finish", q)
        /\ armed' = armed /\ execution' = execution /\ queue' = queue
    BY <1>7, <2>1 DEF Finish, Goto, locks, gpu
  <2>3. CommandsKept BY <2>2, AloneKept
  <2>4. l.cursor = None BY <2>1 DEF Locally, AtHome
  <2> QED BY <1>1, <1>3, <2>2, <2>3, <2>4, LocalQuiet DEF Resets
<1>8. ASSUME NEW q, FinishIdle(t, q) PROVE OneInv'
  <2>1. PICK l : l = [AtHome EXCEPT !.op = "finish", !.on = q, !.due = Pending(q)] OBVIOUS
  <2>2. /\ pc' = [pc EXCEPT ![t] = "finished"] /\ my' = [my EXCEPT ![t] = l]
        /\ command' = command /\ pc[t] = "idle"
        /\ armed' = armed /\ execution' = execution /\ queue' = queue
    BY <1>8, <2>1 DEF FinishIdle, Goto, locks, gpu
  <2>3. CommandsKept BY <2>2, AloneKept
  <2>4. l.cursor = None BY <2>1 DEF AtHome
  <2> QED BY <1>1, <2>2, <2>3, <2>4, LocalQuiet DEF Resets
<1>9. ASSUME NEW q, Terminate(t, q) PROVE OneInv'
  <2>1. PICK l : l = [Locally(t, "terminate", q) EXCEPT
                        !.due = Pending(q),
                        !.held = IF queue[q].head # None THEN created + 1 ELSE queue[q].last]
    OBVIOUS
  <2>2. /\ my' = [my EXCEPT ![t] = l] /\ Call(t, "terminate", q)
        /\ armed' = armed /\ execution' = execution /\ queue' = queue
        /\ \/ command' = Created(created + 1, "marker", q, {}) /\ pc' = [pc EXCEPT ![t] = "waitList"]
           \/ command' = command /\ pc' = [pc EXCEPT ![t] = "await"]
    BY <1>9, <2>1 DEF Terminate, Goto, locks, gpu
  <2>3. CommandsKept BY <1>1, <1>3, <2>2, CreatedKept, AloneKept
  <2>4. l.cursor = None BY <2>1 DEF Locally, AtHome
  <2>5. PICK label \in {"waitList", "await"} : pc' = [pc EXCEPT ![t] = label] BY <2>2
  <2>6. pc[t] = "idle" BY <1>3, <2>2
  <2> QED BY <1>1, <2>2, <2>3, <2>4, <2>5, <2>6, LocalQuiet DEF Resets
<1> QED BY <1>2, <1>4, <1>5, <1>6, <1>7, <1>8, <1>9 DEF Application

LEMMA InCallQuiet ==
  ASSUME IInv, OneInv, NEW t \in Clients,
         \/ WaitMarker(t) \/ Fence(t) \/ SignalFalls(t) \/ WaitList(t) \/ Notify(t)
         \/ Notified(t) \/ Unlock(t) \/ Enqueued(t) \/ Await(t) \/ WakeUp(t) \/ Clear(t) \/ Return(t)
  PROVE  OneInv'
<1>1. /\ Types /\ t \in Threads /\ AtHome.cursor = None
      /\ Shape(t) /\ OwnCommand(t) /\ OwnMarker(t) /\ LockInv /\ my[t] \in Locals
  BY ClientFacts DEF AtHome, Types
<1>2. ASSUME WaitMarker(t) \/ Fence(t)
      PROVE  my[t].cmd \in AllCommands /\ command[my[t].cmd].status = "new"
  <2>1. my[t].event = None /\ At(t) \in {"waitMarker", "fence"}
    BY <1>1, <1>2 DEF Shape, At, WaitMarker, Fence
  <2> QED BY <1>1, <2>1, MarkerFacts DEF OwnCommand
<1>3. CASE WaitMarker(t)
  <2>1. PICK e, l : e = my[t].held /\ l = [my[t] EXCEPT !.todo = {e}] OBVIOUS
  <2>2. /\ pc' = [pc EXCEPT ![t] = "waitList"] /\ my' = [my EXCEPT ![t] = l]
        /\ command' = Created(my[t].cmd, "marker", my[t].on, {e}) /\ pc[t] = "waitMarker"
        /\ armed' = armed /\ execution' = execution /\ queue' = queue
    BY <1>3, <2>1 DEF WaitMarker, Goto, locks, gpu
  <2>3. CommandsKept BY <1>1, <1>2, <1>3, <2>2, CreatedKept
  <2>4. l.cursor = my[t].cursor BY <1>1, <2>1 DEF Locals
  <2> QED BY <1>1, <2>2, <2>3, <2>4, LocalQuiet DEF Resets
<1>4. CASE Fence(t)
  <2>1. /\ \/ /\ command' = Created(my[t].cmd, "marker", my[t].on, {})
              /\ my' = [my EXCEPT ![t] = [my[t] EXCEPT !.held = my[t].cmd]] /\ pc' = [pc EXCEPT ![t] = "waitList"]
           \/ /\ command' = command
              /\ my' = [my EXCEPT ![t] = [my[t] EXCEPT !.cmd = None]] /\ pc' = [pc EXCEPT ![t] = "hwWait"]
        /\ pc[t] = "fence" /\ armed' = armed /\ execution' = execution /\ queue' = queue
    BY <1>4 DEF Fence, Goto, locks, gpu
  <2>2. CommandsKept BY <1>1, <1>2, <1>4, <2>1, CreatedKept, AloneKept
  <2>3. PICK l : my' = [my EXCEPT ![t] = l]
                 /\ (l = [my[t] EXCEPT !.held = my[t].cmd] \/ l = [my[t] EXCEPT !.cmd = None])
    BY <2>1
  <2>4. l.cursor = my[t].cursor BY <1>1, <2>3 DEF Locals
  <2>5. PICK label \in {"waitList", "hwWait"} : pc' = [pc EXCEPT ![t] = label] BY <2>1
  <2> QED BY <1>1, <2>1, <2>2, <2>3, <2>4, <2>5, LocalQuiet DEF Resets
<1>5. CASE SignalFalls(t)
  <2>1. PICK l : l = [my[t] EXCEPT !.held = None] OBVIOUS
  <2>2. /\ pc' = [pc EXCEPT ![t] = "finished"] /\ my' = [my EXCEPT ![t] = l]
        /\ command' = command /\ pc[t] = "hwWait"
        /\ armed' = armed /\ execution' = execution /\ queue' = queue
    BY <1>5, <2>1 DEF SignalFalls, Goto, locks, gpu
  <2>3. l.cursor = my[t].cursor BY <1>1, <2>1 DEF Locals
  <2> QED BY <1>1, <2>2, <2>3, AloneKept, LocalQuiet DEF Resets
<1>6. CASE WaitList(t)
  <2>1. PICK e, l : l = [my[t] EXCEPT !.todo = my[t].todo \ {e}, !.event = e, !.then = "waitList"]
                    /\ my' = [my EXCEPT ![t] = l]
    BY <1>6 DEF WaitList
  <2>2. /\ pc' = [pc EXCEPT ![t] = "notify"]
        /\ command' = command /\ pc[t] = "waitList"
        /\ armed' = armed /\ execution' = execution /\ queue' = queue
    BY <1>6, <2>1 DEF WaitList, Goto, locks, gpu
  <2>3. l.cursor = my[t].cursor BY <1>1, <2>1 DEF Locals
  <2> QED BY <1>1, <2>1, <2>2, <2>3, AloneKept, LocalQuiet DEF Resets
<1>7. CASE Notify(t)
  <2>1. my[t].then \notin Resets BY <1>1, <1>7 DEF Shape, Notify, Resets
  <2>2. CASE ~Complete(my[t].event) /\ ~command[my[t].event].hwEvent /\ ~command[my[t].event].notified
    <3>1. PICK e, m, q, kind : /\ e = my[t].event /\ m = NotifyMarker(e) /\ q = command[e].queue
                               /\ kind = IF my[t].then = "sleep" THEN "cpuWait" ELSE "marker"
      OBVIOUS
    <3>2. PICK l : l = [my[t] EXCEPT !.marker = m] OBVIOUS
    <3>3. /\ command' = [Created(m, kind, q, {}) EXCEPT ![e].notified = TRUE]
          /\ my' = [my EXCEPT ![t] = l] /\ pc' = [pc EXCEPT ![t] = "form"] /\ pc[t] = "notify"
          /\ armed' = armed /\ execution' = execution /\ queue' = queue
      BY <1>7, <2>2, <3>1, <3>2 DEF Notify, Goto, gpu
    <3>4. e \in Commands /\ m \in AllCommands /\ m # e /\ e \in AllCommands /\ command[m].status = "new"
      <4>1. e # None /\ Settled(e) /\ e \in AllCommands /\ CommandInv /\ RingInv
        BY <1>1, <3>1, <3>3, ClientFacts, TypeFacts DEF Shape
      <4>2. Sent(e) /\ Live(e) /\ After(e) /\ Before(e)
        BY <1>1, <2>2, <3>1, <4>1, SentFacts DEF Settled, CommandInv
      <4>3. command[e].kind = "work" BY <2>2, <3>1, <4>2 DEF After
      <4>4. e \in Commands BY <4>1, <4>2, <4>3 DEF Before, Live
      <4>5. Pairing(e) BY <4>1, <4>4 DEF CommandInv
      <4> QED BY <2>2, <3>1, <4>1, <4>4, <4>5, MarkerFacts DEF Pairing
    <3>5. /\ \A c \in AllCommands : c # m /\ c # e => command'[c] = command[c]
          /\ command'[e] = [command[e] EXCEPT !.notified = TRUE]
          /\ command'[m] = [command[m] EXCEPT !.kind = kind, !.queue = q, !.waits = {}, !.status = "queued"]
      BY <1>1, <3>3, <3>4 DEF Types, Created
    <3>6. command[e] \in CommandObject /\ command[m] \in CommandObject BY <1>1, <3>4 DEF Types
    <3>7. /\ command'[m].next = command[m].next /\ command'[m].status = "queued"
          /\ command'[m].batchHead = command[m].batchHead
          /\ command'[e].next = command[e].next /\ command'[e].status = command[e].status
          /\ command'[e].batchHead = command[e].batchHead
      BY <3>5, <3>6 DEF CommandObject
    <3>8. CommandsKept BY <3>4, <3>5, <3>7 DEF CommandsKept, Live, Complete
    <3>9. l.cursor = my[t].cursor BY <1>1, <3>2 DEF Locals
    <3> QED BY <1>1, <3>3, <3>8, <3>9, LocalQuiet DEF Resets
  <2>3. CASE ~(~Complete(my[t].event) /\ ~command[my[t].event].hwEvent /\ ~command[my[t].event].notified)
    <3>1. PICK l, s : l = [my[t] EXCEPT !.event = None] /\ s = my[t].then OBVIOUS
    <3>2. /\ command' = command
          /\ my' = [my EXCEPT ![t] = l] /\ pc' = [pc EXCEPT ![t] = s] /\ pc[t] = "notify"
          /\ armed' = armed /\ execution' = execution /\ queue' = queue
      BY <1>7, <2>3, <3>1 DEF Notify, Goto, gpu
    <3>3. l.cursor = my[t].cursor BY <1>1, <3>1 DEF Locals
    <3> QED BY <1>1, <2>1, <3>1, <3>2, <3>3, AloneKept, LocalQuiet DEF Resets
  <2> QED BY <2>2, <2>3
<1>8. CASE Notified(t)
  <2>1. PICK e, m, l, s : /\ e = my[t].event /\ m = my[t].marker /\ s = my[t].then
                          /\ l = [my[t] EXCEPT !.event = None, !.marker = None]
    OBVIOUS
  <2>2. /\ command' = [command EXCEPT ![e].notifyEvent = m]
        /\ my' = [my EXCEPT ![t] = l] /\ pc' = [pc EXCEPT ![t] = s] /\ pc[t] = "notified"
        /\ armed' = armed /\ execution' = execution /\ queue' = queue
    BY <1>8, <2>1 DEF Notified, Goto, gpu
  <2>3. e \in AllCommands /\ s \notin Resets BY <1>1, <2>1, <2>2, TypeFacts DEF Shape, Resets
  <2>4. /\ \A c \in AllCommands : c # e => command'[c] = command[c]
        /\ command'[e] = [command[e] EXCEPT !.notifyEvent = m] /\ command[e] \in CommandObject
    BY <1>1, <2>2, <2>3 DEF Types
  <2>5. /\ command'[e].next = command[e].next /\ command'[e].status = command[e].status
        /\ command'[e].batchHead = command[e].batchHead
    BY <2>4 DEF CommandObject
  <2>6. CommandsKept BY <2>4, <2>5 DEF CommandsKept, Live, Complete
  <2>7. l.cursor = my[t].cursor BY <1>1, <2>1 DEF Locals
  <2> QED BY <1>1, <2>2, <2>3, <2>6, <2>7, LocalQuiet DEF Resets
<1>9. CASE Unlock(t)
  <2>1. PICK q : q = Here(t) OBVIOUS
  <2>2. /\ pc' = [pc EXCEPT ![t] = "enqueued"] /\ my' = my /\ command' = command /\ queue' = queue
        /\ execution' = [execution EXCEPT ![q] = None] /\ pc[t] = "unlock" /\ armed' = armed
    BY <1>9, <2>1 DEF Unlock, Goto, gpu
  <2>3. q \in Queues /\ execution[q] = t /\ execution \in [Queues -> Clients \cup {None}]
    BY <1>1, <2>1, <2>2 DEF LockInv, HoldsExec, Types
  <2>4. \A p \in Queues : \A u \in Clients : u # t => (execution'[p] = u <=> execution[p] = u)
    BY <2>2, <2>3, DirectDispatchAssumption
  <2>5. pc'[t] = "enqueued" /\ \A u \in Threads : u # t => pc'[u] = pc[u] BY <1>1, <2>2 DEF Types
  <2> QED BY <1>1, <2>2, <2>4, <2>5, AloneKept, QuietStep DEF Resets
<1>10. CASE Enqueued(t)
  <2>1. /\ \/ my' = [my EXCEPT ![t] = AtHome] /\ pc' = [pc EXCEPT ![t] = "idle"]
           \/ my' = [my EXCEPT ![t] = [my[t] EXCEPT !.held = my[t].cmd, !.cmd = None]]
              /\ pc' = [pc EXCEPT ![t] = IF my[t].op = "finish" THEN "hwWait" ELSE "await"]
        /\ pc[t] = "enqueued" /\ command' = command
        /\ armed' = armed /\ execution' = execution /\ queue' = queue
    BY <1>10 DEF Enqueued, Goto, locks, gpu
  <2>2. PICK l : my' = [my EXCEPT ![t] = l]
                 /\ (l = AtHome \/ l = [my[t] EXCEPT !.held = my[t].cmd, !.cmd = None])
    BY <2>1
  <2>3. l.cursor \in {None, my[t].cursor} BY <1>1, <2>2 DEF Locals
  <2>4. PICK label \in {"idle", "hwWait", "await"} : pc' = [pc EXCEPT ![t] = label] BY <2>1
  <2> QED BY <1>1, <2>1, <2>2, <2>3, <2>4, AloneKept, LocalQuiet DEF Resets
<1>11. CASE Await(t)
  <2>1. /\ \/ my' = my /\ pc' = [pc EXCEPT ![t] = "clear"]
           \/ my' = [my EXCEPT ![t] = [my[t] EXCEPT !.event = my[t].held, !.then = "sleep"]]
              /\ pc' = [pc EXCEPT ![t] = "notify"]
        /\ pc[t] \in {"await", "hwWait"} /\ command' = command
        /\ armed' = armed /\ execution' = execution /\ queue' = queue
    BY <1>11 DEF Await, Goto, locks, gpu
  <2>2. my = [my EXCEPT ![t] = my[t]] BY <1>1 DEF Types
  <2>3. PICK l : my' = [my EXCEPT ![t] = l]
                 /\ (l = my[t] \/ l = [my[t] EXCEPT !.event = my[t].held, !.then = "sleep"])
    BY <2>1, <2>2
  <2>4. l.cursor = my[t].cursor BY <1>1, <2>3 DEF Locals
  <2>5. PICK label \in {"clear", "notify"} : pc' = [pc EXCEPT ![t] = label] BY <2>1
  <2> QED BY <1>1, <2>1, <2>3, <2>4, <2>5, AloneKept, LocalQuiet DEF Resets
<1>12. CASE WakeUp(t)
  <2>1. /\ my' = my /\ pc' = [pc EXCEPT ![t] = "clear"] /\ pc[t] = "sleep" /\ command' = command
        /\ armed' = armed /\ execution' = execution /\ queue' = queue
    BY <1>12 DEF WakeUp, Goto, locks, gpu
  <2>2. pc'[t] = "clear" /\ \A u \in Threads : u # t => pc'[u] = pc[u] BY <1>1, <2>1 DEF Types
  <2> QED BY <1>1, <2>1, <2>2, AloneKept, QuietStep DEF Resets
<1>13. CASE Clear(t)
  <2>1. PICK l, q, x, y : /\ l = [my[t] EXCEPT !.held = None] /\ q = my[t].on
                          /\ queue' = [queue EXCEPT ![q].last = x, ![q].open = y]
    BY <1>13 DEF Clear
  <2>2. /\ pc' = [pc EXCEPT ![t] = "finished"] /\ my' = [my EXCEPT ![t] = l]
        /\ command' = command /\ pc[t] = "clear" /\ armed' = armed /\ execution' = execution
    BY <1>13, <2>1 DEF Clear, Goto, locks, gpu
  <2>3. \A p \in Queues : queue'[p].head = queue[p].head
    <3> TAKE p \in Queues
    <3>1. queue[p] \in QueueObject BY <1>1 DEF Types
    <3>2. p # q => queue'[p] = queue[p] BY <1>1, <2>1 DEF Types
    <3>3. p = q => queue'[p] = [queue[p] EXCEPT !.last = x, !.open = y] BY <1>1, <2>1 DEF Types
    <3> QED BY <3>1, <3>2, <3>3 DEF QueueObject
  <2>4. l.cursor = my[t].cursor BY <1>1, <2>1 DEF Locals
  <2> QED BY <1>1, <2>2, <2>3, <2>4, AloneKept, LocalQuiet DEF Resets
<1>14. CASE Return(t)
  <2>1. /\ my' = [my EXCEPT ![t] = AtHome] /\ pc' = [pc EXCEPT ![t] = "idle"] /\ pc[t] = "finished"
        /\ command' = command /\ armed' = armed /\ execution' = execution /\ queue' = queue
    BY <1>14 DEF Return, Goto, locks, gpu
  <2> QED BY <1>1, <2>1, AloneKept, LocalQuiet DEF Resets
<1> QED BY <1>3, <1>4, <1>5, <1>6, <1>7, <1>8, <1>9, <1>10, <1>11, <1>12, <1>13, <1>14

----------------------------------------
(* The steps that change the lists. *)
LEMMA ListsMoved ==
  ASSUME OneInv, Types, Apart(NextOf, Heads, Submitted, Done)',
         \A c \in AllCommands : /\ command'[c].next = command[c].next
                                /\ (Live(c) => Live(c)') /\ (Complete(c) => Complete(c)'),
         \A t \in Threads : pc'[t] \in {"complete", "advance"} <=> my'[t].cursor # None,
         \A t \in Threads : pc'[t] = "advance" =>
           \/ \E x \in AllCommands : my'[t].cursor = x /\ command'[x].status = "complete"
           \/ pc[t] = "advance" /\ my'[t].cursor = my[t].cursor
  PROVE  OneInv'
<1>0. /\ \A c \in AllCommands : NextOf[c] # None => Live(NextOf[c])
      /\ \A t \in Threads : pc[t] \in {"complete", "advance"} <=> my[t].cursor # None
      /\ \A t \in Threads : pc[t] = "advance" => Complete(my[t].cursor)
  BY DEF OneInv
<1>1. NextOf' = NextOf BY DEF NextOf
<1>2. (\A c \in AllCommands : NextOf[c] # None => Live(NextOf[c]))'
  <2>1. \A c \in AllCommands : NextOf[c] \in Optional BY DEF NextOf, Types, CommandObject
  <2> QED BY <1>0, <1>1, <2>1 DEF Optional
<1>3. (\A t \in Threads : pc[t] = "advance" => Complete(my[t].cursor))'
  <2> SUFFICES ASSUME NEW t \in Threads, pc'[t] = "advance" PROVE Complete(my[t].cursor)' OBVIOUS
  <2>1. CASE \E x \in AllCommands : my'[t].cursor = x /\ command'[x].status = "complete"
    BY <2>1 DEF Complete
  <2>2. CASE pc[t] = "advance" /\ my'[t].cursor = my[t].cursor
    <3>1. PICK x : x = my[t].cursor OBVIOUS
    <3>2. x \in Optional /\ x # None /\ command[x].status = "complete"
      BY <1>0, <2>2, <3>1 DEF Types, Locals, Complete
    <3>3. command'[x].status = "complete" BY <3>2 DEF Complete, Optional
    <3> QED BY <2>2, <3>1, <3>3 DEF Complete
  <2> QED BY <2>1, <2>2
<1> QED BY <1>2, <1>3 DEF OneInv

(* Who is in the way of Reset(). *)
LEMMA ResettingFacts ==
  ASSUME IInv, NEW t \in Clients, \A u \in Threads : u # t => pc'[u] = pc[u]
  PROVE  /\ \A q \in Queues : execution[q] = t => (Resetting(q) <=> pc[t] \in Resets)
         /\ \A q \in Queues : execution'[q] = t => (Resetting(q)' <=> pc'[t] \in Resets)
         /\ \A q \in Queues : execution[q] # t /\ execution'[q] = execution[q] =>
              (Resetting(q)' <=> Resetting(q))
         /\ \A q \in Queues : execution[q] = None => ~Resetting(q)
         /\ \A q \in Queues : execution[q] = t => q = Here(t)
BY DirectDispatchAssumption DEF Resetting, Resets, Threads, IInv, LockInv

LEMMA ResetLists ==
  ASSUME IInv, OneInv, NEW t \in Clients, Reset(t)
  PROVE  OneInv'
<1>1. PICK q : q = Here(t) OBVIOUS
<1>2. /\ pc[t] = "reset" /\ queue' = [queue EXCEPT ![q].head = None, ![q].size = 0]
      /\ command' = command /\ my' = my /\ armed' = armed
  BY <1>1 DEF Reset, gpu
<1>3. /\ Types /\ LockInv /\ t \in Threads /\ Shape(t) /\ t # None
      /\ execution \in [Queues -> Clients \cup {None}]
  BY ClientFacts, DirectDispatchAssumption DEF Types
<1>4. q \in Queues /\ execution[q] = t BY <1>1, <1>2, <1>3 DEF LockInv, HoldsExec
<1>5. /\ pc'[t] \in {"notified", "enqueued"} /\ \A u \in Threads : u # t => pc'[u] = pc[u]
      /\ \A p \in Queues : p # q => execution'[p] = execution[p] /\ execution[p] # t
      /\ execution'[q] \in {t, None}
  <2>1. \A p \in Queues : p # q => execution[p] # t BY <1>1, <1>3 DEF LockInv
  <2> QED BY <1>1, <1>2, <1>3, <1>4, <2>1 DEF Reset, Goto, Types
<1>6. /\ Resetting(q) /\ ~Resetting(q)'
      /\ \A p \in Queues : p # q => (Resetting(p)' <=> Resetting(p))
  <2>1. \A u \in Clients : execution'[q] = u => pc'[u] \notin Resets
    BY <1>5, DirectDispatchAssumption DEF Resets
  <2> QED BY <1>2, <1>4, <1>5, <2>1, ResettingFacts DEF Resets, Resetting
<1>7. queue'[q].head = None /\ \A p \in Queues : p # q => queue'[p] = queue[p]
  <2>1. queue[q] \in QueueObject BY <1>3, <1>4 DEF Types
  <2> QED BY <1>2, <1>3, <1>4, <2>1 DEF Types, QueueObject
<1>8. \A k \in Places : Heads'[k] = Heads[k] /\ Done'[k] = Done[k]
  <2>7. PICK X : X = {} OBVIOUS
  <2>0. X = {} /\ X \in SUBSET Places BY <2>7
  <2>1. \A p \in Queues : <<"open", p>> \in X \/
             (IF Resetting(p) THEN None ELSE queue[p].head)' = (IF Resetting(p) THEN None ELSE queue[p].head)
    BY <1>6, <1>7
  <2>2. \A m \in AllCommands : <<"closed", m>> \in X \/
             (IF m \in armed THEN command[m].batchHead ELSE None)' = (IF m \in armed THEN command[m].batchHead ELSE None)
    BY <1>2
  <2>3. \A u \in Threads : <<"walked", u>> \in X \/ my'[u].cursor = my[u].cursor BY <1>2
  <2>4. \A u \in Threads : <<"walked", u>> \in X \/
             \/ pc[u] # "advance" /\ pc'[u] # "advance"
             \/ pc'[u] = pc[u] /\ my'[u].cursor = my[u].cursor
    BY <1>2, <1>5
  <2>5. \A k \in Places : k \notin X => Heads'[k] = Heads[k] BY ONLY <2>0, <2>1, <2>2, <2>3, HeadsExcept
  <2>6. \A k \in Places : k \notin X => Done'[k] = Done[k] BY ONLY <2>0, <2>4, DoneExcept
  <2> QED BY <2>0, <2>5, <2>6
<1>9. Heads' = Heads /\ Done' = Done
  <2>1. Heads = [k \in Places |-> Heads[k]] /\ Done = [k \in Places |-> Done[k]]
        /\ Heads' = [k \in Places |-> Heads'[k]] /\ Done' = [k \in Places |-> Done'[k]]
    BY HeadsAre DEF HeadsOk
  <2> QED BY ONLY <1>8, <2>1
<1>10. Apart(NextOf, Heads, Submitted, Done)'
  <2>1. NextOf' = NextOf /\ Submitted' = Submitted BY <1>2 DEF NextOf, Submitted
  <2>2. Apart(NextOf, Heads, Submitted, Done) BY DEF OneInv
  <2> QED BY ONLY <1>9, <2>1, <2>2
<1>11. \A u \in Threads : pc'[u] \in {"complete", "advance"} <=> my'[u].cursor # None
  <2>1. \A u \in Threads : pc[u] \in {"complete", "advance"} <=> my[u].cursor # None BY DEF OneInv
  <2> QED BY <1>2, <1>5, <2>1
<1>12. \A c \in AllCommands : /\ command'[c].next = command[c].next
                              /\ (Live(c) => Live(c)') /\ (Complete(c) => Complete(c)')
  BY <1>2 DEF Live, Complete
<1>13. \A u \in Threads : pc'[u] = "advance" => pc[u] = "advance" /\ my'[u].cursor = my[u].cursor
  BY <1>2, <1>5
<1> QED BY <1>3, <1>10, <1>11, <1>12, <1>13, ListsMoved

LEMMA ExecuteLists ==
  ASSUME IInv, OneInv, NEW q \in Queues, Execute(q)
  PROVE  OneInv'
<1>1. /\ command' = command /\ pc' = pc /\ my' = my /\ armed' = armed /\ execution' = execution
      /\ queue' = [queue EXCEPT ![q].ring = Tail(queue[q].ring)]
  BY DEF Execute, locks
<1>2. Types BY DEF IInv
<1>3. \A p \in Queues : queue'[p].head = queue[p].head
  <2> TAKE p \in Queues
  <2>1. queue[p] \in QueueObject BY <1>2 DEF Types
  <2>2. p # q => queue'[p] = queue[p] BY <1>1, <1>2 DEF Types
  <2>3. p = q => queue'[p] = [queue[p] EXCEPT !.ring = Tail(queue[q].ring)] BY <1>1, <1>2 DEF Types
  <2> QED BY <2>1, <2>2, <2>3 DEF QueueObject
<1>4. \A p \in Queues : Resetting(p)' <=> Resetting(p) BY <1>1 DEF Resetting
<1>5. CommandsKept BY <1>1, AloneKept
<1> QED BY <1>1, <1>2, <1>3, <1>4, <1>5, SameLists

(* A list moves from place k to place l. *)
LEMMA ListMoves ==
  ASSUME OneInv, NEW k \in Places, NEW l \in Places, k # l,
         Heads[l] = None, Done[k] = {}, Done[l] = {},
         Heads'[k] = None, Heads'[l] = Heads[k],
         \A p \in Places : p \notin {k, l} => Heads'[p] = Heads[p],
         \A p \in Places : Done'[p] = Done[p],
         NextOf' = NextOf, Submitted' = Submitted
  PROVE  Apart(NextOf, Heads, Submitted, Done)'
<1>1. PICK n, H, S, D : n = NextOf /\ H = Heads /\ S = Submitted /\ D = Done OBVIOUS
<1>2. Apart(n, H, S, D) BY <1>1 DEF OneInv
<1>3. PICK J : J = [H EXCEPT ![k] = None, ![l] = H[k]] OBVIOUS
<1>4. H = [p \in Places |-> H[p]] /\ D = [p \in Places |-> D[p]]
      /\ Heads' = [p \in Places |-> Heads'[p]] /\ Done' = [p \in Places |-> Done'[p]]
  BY <1>1, HeadsAre DEF HeadsOk
<1>5. J = [p \in Places |-> IF p = l THEN H[k] ELSE IF p = k THEN None ELSE H[p]] BY <1>3, <1>4
<1>6. \A p \in Places : Heads'[p] = IF p = l THEN H[k] ELSE IF p = k THEN None ELSE H[p] BY <1>1
<1>7. Heads' = J BY ONLY <1>4, <1>5, <1>6
<1>8. Done' = D BY <1>1, <1>4
<1>9. Apart(n, J, S, D) BY <1>1, <1>2, <1>3, MoveLists
<1>10. NextOf' = n /\ Submitted' = S BY <1>1
<1> QED BY ONLY <1>7, <1>8, <1>9, <1>10

LEMMA SubmitPacketLists ==
  ASSUME IInv, OneInv, NEW t \in Clients, SubmitPacket(t)
  PROVE  OneInv'
<1>1. PICK q, c, o, b, y, w :
         /\ q = Here(t) /\ c = Current(t) /\ o = queue[q]
         /\ b = (IF command[c].kind = "marker" THEN o.head ELSE None)
         /\ y = (command[c].kind # "work") /\ w = Deps(c)
  OBVIOUS
<1>2. /\ pc[t] = "submit" /\ command[c].kind # "cpuWait"
      /\ queue' = [queue EXCEPT ![q].ring = Append(@, c)]
      /\ command' = [command EXCEPT ![c].deps = w, ![c].hwEvent = y, ![c].batchHead = b]
      /\ armed' = IF command[c].kind = "marker" THEN armed \cup {c} ELSE armed
  BY <1>1 DEF SubmitPacket
<1>3. /\ Types /\ LockInv /\ t \in Threads /\ Shape(t) /\ t # None /\ my[t] \in Locals
      /\ execution \in [Queues -> Clients \cup {None}]
  BY ClientFacts, DirectDispatchAssumption DEF Types
<1>4. c \in AllCommands /\ q \in Queues /\ execution[q] = t /\ ~Sent(c) /\ o.head # None
      /\ command[c].status = "submitted"
  BY <1>1, <1>2, SubmitFacts
<1>5. c \notin armed BY <1>4 DEF IInv, ArmedInv
<1>6. /\ \A d \in AllCommands : d # c => command'[d] = command[d]
      /\ command'[c] = [command[c] EXCEPT !.deps = w, !.hwEvent = y, !.batchHead = b]
      /\ command[c] \in CommandObject
  BY <1>2, <1>3, <1>4 DEF Types
<1>7. /\ command'[c].next = command[c].next /\ command'[c].status = command[c].status
      /\ command'[c].batchHead = b
  BY <1>6 DEF CommandObject
<1>8. CommandsKept BY <1>5, <1>6, <1>7 DEF CommandsKept, Live, Complete
<1>9. \A p \in Queues : queue'[p].head = queue[p].head
  <2> TAKE p \in Queues
  <2>1. queue[p] \in QueueObject BY <1>3 DEF Types
  <2>2. p # q => queue'[p] = queue[p] BY <1>2, <1>3 DEF Types
  <2>3. p = q => queue'[p] = [queue[p] EXCEPT !.ring = Append(queue[q].ring, c)]
    BY <1>2, <1>3, <1>4 DEF Types
  <2> QED BY <2>1, <2>2, <2>3 DEF QueueObject
<1>10. CASE command[c].kind # "marker"
  <2>1. PICK l, label :
          /\ label \in {"enqueued", "notify"}
          /\ pc' = [pc EXCEPT ![t] = label] /\ my' = [my EXCEPT ![t] = l]
          /\ l = my[t] \/ l = [my[t] EXCEPT !.event = c, !.then = "unlock"]
    <3>1. my = [my EXCEPT ![t] = my[t]] BY <1>3 DEF Types
    <3>2. \/ pc' = [pc EXCEPT ![t] = "enqueued"] /\ my' = my
          \/ pc' = [pc EXCEPT ![t] = "notify"] /\ my' = [my EXCEPT ![t].event = c, ![t].then = "unlock"]
      BY <1>1, <1>2, <1>10 DEF SubmitPacket, Goto
    <3>3. [my EXCEPT ![t].event = c, ![t].then = "unlock"]
            = [my EXCEPT ![t] = [my[t] EXCEPT !.event = c, !.then = "unlock"]]
      BY <1>3 DEF Types
    <3>4. PICK l1, l2 : l1 = my[t] /\ l2 = [my[t] EXCEPT !.event = c, !.then = "unlock"] OBVIOUS
    <3>5. CASE pc' = [pc EXCEPT ![t] = "enqueued"] /\ my' = my BY <3>1, <3>4, <3>5
    <3>6. CASE pc' = [pc EXCEPT ![t] = "notify"] /\ my' = [my EXCEPT ![t].event = c, ![t].then = "unlock"]
      <4>1. my' = [my EXCEPT ![t] = l2] BY ONLY <3>3, <3>4, <3>6
      <4> QED BY <3>4, <3>6, <4>1
    <3> QED BY <3>2, <3>5, <3>6
  <2>2. execution' = execution \/ execution' = [execution EXCEPT ![q] = None]
    BY <1>1, <1>2, <1>10 DEF SubmitPacket
  <2>3. \A p \in Queues : \A u \in Clients : u # t => (execution'[p] = u <=> execution[p] = u)
    BY <1>3, <1>4, <2>2, DirectDispatchAssumption
  <2>4. l.cursor = my[t].cursor BY <1>3, <2>1 DEF Locals
  <2>5. /\ pc'[t] = label /\ my'[t] = l
        /\ \A u \in Threads : u # t => pc'[u] = pc[u] /\ my'[u] = my[u]
    BY <1>3, <2>1 DEF Types
  <2>6. armed' = armed BY <1>2, <1>10
  <2> QED BY <1>2, <1>3, <1>8, <1>9, <2>1, <2>3, <2>4, <2>5, <2>6, QuietStep DEF Resets
<1>11. CASE command[c].kind = "marker"
  <2>1. /\ pc' = [pc EXCEPT ![t] = "reset"] /\ my' = my /\ execution' = execution
        /\ armed' = armed \cup {c} /\ b = o.head
    BY <1>1, <1>2, <1>11 DEF SubmitPacket, Goto
  <2>2. pc'[t] = "reset" /\ \A u \in Threads : u # t => pc'[u] = pc[u] BY <1>3, <2>1 DEF Types
  <2>3. ~Resetting(q) /\ Resetting(q)' /\ \A p \in Queues : p # q => (Resetting(p)' <=> Resetting(p))
    <3>1. \A p \in Queues : p # q => execution[p] # t BY <1>1, <1>3 DEF LockInv
    <3> QED BY <1>2, <1>4, <2>1, <2>2, <3>1, ResettingFacts DEF Resets
  <2>4. PICK k, l : k = <<"open", q>> /\ l = <<"closed", c>> OBVIOUS
  <2>5. k \in Places /\ l \in Places /\ k # l BY <1>4, <2>4, PlaceFacts
  <2>6. /\ Heads[l] = None /\ Done[k] = {} /\ Done[l] = {} /\ Heads[k] = o.head
        /\ Heads'[k] = None /\ Heads'[l] = o.head
    <3>1. c \in armed' /\ command'[c].batchHead = o.head BY <1>7, <2>1
    <3> QED BY <1>1, <1>4, <1>5, <2>3, <2>4, <3>1, HeadsAre DEF HeadsOk
  <2>7. PICK X : X = {k, l} OBVIOUS
  <2>8. X \in SUBSET Places BY <2>5, <2>7
  <2>9. \A p \in Queues : <<"open", p>> \in X \/
             (IF Resetting(p) THEN None ELSE queue[p].head)' = (IF Resetting(p) THEN None ELSE queue[p].head)
    BY <1>9, <2>3, <2>4, <2>7
  <2>10. \A m \in AllCommands : <<"closed", m>> \in X \/
             (IF m \in armed THEN command[m].batchHead ELSE None)' = (IF m \in armed THEN command[m].batchHead ELSE None)
    BY <1>6, <2>1, <2>4, <2>7
  <2>11. \A u \in Threads : <<"walked", u>> \in X \/ my'[u].cursor = my[u].cursor BY <2>1
  <2>12. \A p \in Places : p \notin X => Heads'[p] = Heads[p]
    BY ONLY <2>8, <2>9, <2>10, <2>11, HeadsExcept
  <2>13. PICK Y : Y = {} OBVIOUS
  <2>14. Y \in SUBSET Places /\ \A p \in Places : p \notin Y BY <2>13
  <2>15. \A u \in Threads : <<"walked", u>> \in Y \/
             \/ pc[u] # "advance" /\ pc'[u] # "advance"
             \/ pc'[u] = pc[u] /\ my'[u].cursor = my[u].cursor
    BY <1>2, <2>1, <2>2
  <2>16. \A p \in Places : Done'[p] = Done[p]
    <3>1. \A p \in Places : p \notin Y => Done'[p] = Done[p] BY ONLY <2>14, <2>15, DoneExcept
    <3> QED BY <2>14, <3>1
  <2>17. NextOf' = NextOf /\ Submitted' = Submitted BY <1>8 DEF NextOf, Submitted, CommandsKept
  <2>18. Apart(NextOf, Heads, Submitted, Done)' BY <2>5, <2>6, <2>7, <2>12, <2>16, <2>17, ListMoves
  <2>19. \A u \in Threads : pc'[u] \in {"complete", "advance"} <=> my'[u].cursor # None
    <3>1. \A u \in Threads : pc[u] \in {"complete", "advance"} <=> my[u].cursor # None BY DEF OneInv
    <3> QED BY <1>2, <1>3, <2>1, <2>2, <3>1
  <2>20. \A u \in Threads : pc'[u] = "advance" => pc[u] = "advance" /\ my'[u].cursor = my[u].cursor
    BY <2>1, <2>2
  <2>21. \A d \in AllCommands : /\ command'[d].next = command[d].next
                                /\ (Live(d) => Live(d)') /\ (Complete(d) => Complete(d)')
    BY <1>8 DEF CommandsKept
  <2> QED BY <1>3, <2>18, <2>19, <2>20, <2>21, ListsMoved
<1> QED BY <1>10, <1>11

LEMMA SubmitCpuWaitLists ==
  ASSUME IInv, OneInv, NEW t \in Clients, SubmitCpuWait(t)
  PROVE  OneInv'
<1>1. PICK q, c, o : q = Here(t) /\ c = Current(t) /\ o = queue[q] OBVIOUS
<1>2. /\ pc[t] = "submit" /\ command[c].kind = "cpuWait"
      /\ command' = [command EXCEPT ![c].batchHead = o.head]
      /\ my' = [my EXCEPT ![t].cursor = o.head] /\ pc' = [pc EXCEPT ![t] = "complete"]
      /\ queue' = queue /\ armed' = armed /\ execution' = execution
  BY <1>1 DEF SubmitCpuWait, Goto, locks, gpu
<1>3. /\ Types /\ LockInv /\ RingInv /\ CommandInv /\ t \in Threads /\ t # None /\ my[t] \in Locals
  BY ClientFacts, DirectDispatchAssumption DEF Types
<1>4. c \in AllCommands /\ q \in Queues /\ execution[q] = t /\ o.head # None
  BY <1>1, <1>2, CurrentFacts DEF IInv, LastInv, SubmitOk
<1>5. c \notin armed BY <1>2, <1>3, SentFacts DEF IInv, ArmedInv
<1>6. /\ \A d \in AllCommands : d # c => command'[d] = command[d]
      /\ command'[c] = [command[c] EXCEPT !.batchHead = o.head] /\ command[c] \in CommandObject
  BY <1>2, <1>3, <1>4 DEF Types
<1>7. command'[c].next = command[c].next /\ command'[c].status = command[c].status
  BY <1>6 DEF CommandObject
<1>8. CommandsKept BY <1>5, <1>6, <1>7 DEF CommandsKept, Live, Complete
<1>9. /\ pc'[t] = "complete" /\ my'[t].cursor = o.head
      /\ \A u \in Threads : u # t => pc'[u] = pc[u] /\ my'[u] = my[u]
  <2>1. my'[t] = [my[t] EXCEPT !.cursor = o.head] BY <1>2, <1>3 DEF Types
  <2>2. my'[t].cursor = o.head BY <1>3, <2>1 DEF Locals
  <2> QED BY <1>2, <1>3, <2>2 DEF Types
<1>10. /\ ~Resetting(q) /\ Resetting(q)'
       /\ \A p \in Queues : p # q => (Resetting(p)' <=> Resetting(p))
  <2>1. \A p \in Queues : p # q => execution[p] # t BY <1>1, <1>3 DEF LockInv
  <2> QED BY <1>2, <1>4, <1>9, <2>1, ResettingFacts DEF Resets
<1>11. my[t].cursor = None BY <1>2, <1>3 DEF OneInv
<1>12. PICK k, l : k = <<"open", q>> /\ l = <<"walked", t>> OBVIOUS
<1>13. k \in Places /\ l \in Places /\ k # l BY <1>3, <1>4, <1>12, PlaceFacts
<1>14. /\ Heads[l] = None /\ Done[k] = {} /\ Done[l] = {} /\ Heads[k] = o.head
       /\ Heads'[k] = None /\ Heads'[l] = o.head /\ Done'[l] = {}
  <2>1. pc[t] # "advance" /\ pc'[t] # "advance" BY <1>2, <1>9
  <2> QED BY <1>1, <1>3, <1>4, <1>9, <1>10, <1>11, <1>12, <2>1, HeadsAre DEF HeadsOk
<1>15. PICK X : X = {k, l} OBVIOUS
<1>16. X \in SUBSET Places BY <1>13, <1>15
<1>17. \A p \in Queues : <<"open", p>> \in X \/
           (IF Resetting(p) THEN None ELSE queue[p].head)' = (IF Resetting(p) THEN None ELSE queue[p].head)
  BY <1>2, <1>10, <1>12, <1>15
<1>18. \A m \in AllCommands : <<"closed", m>> \in X \/
           (IF m \in armed THEN command[m].batchHead ELSE None)' = (IF m \in armed THEN command[m].batchHead ELSE None)
  BY <1>2, <1>5, <1>6
<1>19. \A u \in Threads : <<"walked", u>> \in X \/ my'[u].cursor = my[u].cursor BY <1>9, <1>12, <1>15
<1>20. \A p \in Places : p \notin X => Heads'[p] = Heads[p]
  BY ONLY <1>16, <1>17, <1>18, <1>19, HeadsExcept
<1>21. \A u \in Threads : <<"walked", u>> \in X \/
           \/ pc[u] # "advance" /\ pc'[u] # "advance"
           \/ pc'[u] = pc[u] /\ my'[u].cursor = my[u].cursor
  BY <1>9, <1>12, <1>15
<1>22. \A p \in Places : Done'[p] = Done[p]
  <2>1. \A p \in Places : p \notin X => Done'[p] = Done[p] BY ONLY <1>16, <1>21, DoneExcept
  <2>2. Done'[k] = {} BY <1>4, <1>12, HeadsAre DEF HeadsOk
  <2> QED BY <1>14, <1>15, <2>1, <2>2
<1>23. NextOf' = NextOf /\ Submitted' = Submitted BY <1>8 DEF NextOf, Submitted, CommandsKept
<1>24. Apart(NextOf, Heads, Submitted, Done)' BY <1>13, <1>14, <1>15, <1>20, <1>22, <1>23, ListMoves
<1>25. \A u \in Threads : pc'[u] \in {"complete", "advance"} <=> my'[u].cursor # None
  <2>1. \A u \in Threads : pc[u] \in {"complete", "advance"} <=> my[u].cursor # None BY DEF OneInv
  <2> QED BY <1>4, <1>9, <2>1
<1>26. \A u \in Threads : pc'[u] = "advance" => pc[u] = "advance" /\ my'[u].cursor = my[u].cursor BY <1>9
<1>27. \A d \in AllCommands : /\ command'[d].next = command[d].next
                              /\ (Live(d) => Live(d)') /\ (Complete(d) => Complete(d)')
  BY <1>8 DEF CommandsKept
<1> QED BY <1>3, <1>24, <1>25, <1>26, <1>27, ListsMoved

LEMMA SignalHandlerLists ==
  ASSUME IInv, OneInv, NEW m \in AllCommands, SignalHandler(m)
  PROVE  OneInv'
<1>1. PICK b : b = command[m].batchHead OBVIOUS
<1>2. /\ pc[Handler] = "idle" /\ m \in armed /\ armed' = armed \ {m}
      /\ my' = [my EXCEPT ![Handler].cursor = b] /\ pc' = [pc EXCEPT ![Handler] = "complete"]
      /\ command' = command /\ queue' = queue /\ execution' = execution
  BY <1>1 DEF SignalHandler, Goto, locks
<1>3. /\ Types /\ Handler \in Threads /\ my[Handler] \in Locals /\ Handler \notin Clients /\ b # None
      /\ my[Handler].cursor = None
  BY <1>1, <1>2, DirectDispatchAssumption DEF Types, Threads, IInv, ArmedInv, OneInv
<1>4. /\ pc'[Handler] = "complete" /\ my'[Handler].cursor = b
      /\ \A u \in Threads : u # Handler => pc'[u] = pc[u] /\ my'[u] = my[u]
  <2>1. my'[Handler] = [my[Handler] EXCEPT !.cursor = b] BY <1>2, <1>3 DEF Types
  <2>2. my'[Handler].cursor = b BY <1>3, <2>1 DEF Locals
  <2> QED BY <1>2, <1>3, <2>2 DEF Types
<1>5. \A p \in Queues : Resetting(p)' <=> Resetting(p) BY <1>2, <1>3, <1>4 DEF Resetting, Threads
<1>6. PICK k, l : k = <<"closed", m>> /\ l = <<"walked", Handler>> OBVIOUS
<1>7. k \in Places /\ l \in Places /\ k # l BY <1>3, <1>6, PlaceFacts
<1>8. /\ Heads[l] = None /\ Done[k] = {} /\ Done[l] = {} /\ Heads[k] = b
      /\ Heads'[k] = None /\ Heads'[l] = b /\ Done'[l] = {} /\ Done'[k] = {}
  <2>1. pc[Handler] # "advance" /\ pc'[Handler] # "advance" /\ m \notin armed' BY <1>2, <1>4
  <2> QED BY <1>1, <1>2, <1>3, <1>4, <1>6, <2>1, HeadsAre DEF HeadsOk
<1>9. PICK X : X = {k, l} OBVIOUS
<1>10. X \in SUBSET Places BY <1>7, <1>9
<1>11. \A p \in Queues : <<"open", p>> \in X \/
           (IF Resetting(p) THEN None ELSE queue[p].head)' = (IF Resetting(p) THEN None ELSE queue[p].head)
  BY <1>2, <1>5
<1>12. \A d \in AllCommands : <<"closed", d>> \in X \/
           (IF d \in armed THEN command[d].batchHead ELSE None)' = (IF d \in armed THEN command[d].batchHead ELSE None)
  BY <1>2, <1>6, <1>9
<1>13. \A u \in Threads : <<"walked", u>> \in X \/ my'[u].cursor = my[u].cursor BY <1>4, <1>6, <1>9
<1>14. \A p \in Places : p \notin X => Heads'[p] = Heads[p]
  BY ONLY <1>10, <1>11, <1>12, <1>13, HeadsExcept
<1>15. \A u \in Threads : <<"walked", u>> \in X \/
           \/ pc[u] # "advance" /\ pc'[u] # "advance"
           \/ pc'[u] = pc[u] /\ my'[u].cursor = my[u].cursor
  BY <1>4, <1>6, <1>9
<1>16. \A p \in Places : Done'[p] = Done[p]
  <2>1. \A p \in Places : p \notin X => Done'[p] = Done[p] BY ONLY <1>10, <1>15, DoneExcept
  <2> QED BY <1>8, <1>9, <2>1
<1>17. NextOf' = NextOf /\ Submitted' = Submitted BY <1>2 DEF NextOf, Submitted
<1>18. Apart(NextOf, Heads, Submitted, Done)' BY <1>7, <1>8, <1>9, <1>14, <1>16, <1>17, ListMoves
<1>19. \A u \in Threads : pc'[u] \in {"complete", "advance"} <=> my'[u].cursor # None
  <2>1. \A u \in Threads : pc[u] \in {"complete", "advance"} <=> my[u].cursor # None BY DEF OneInv
  <2> QED BY <1>3, <1>4, <2>1
<1>20. \A u \in Threads : pc'[u] = "advance" => pc[u] = "advance" /\ my'[u].cursor = my[u].cursor BY <1>4
<1>21. \A d \in AllCommands : /\ command'[d].next = command[d].next
                              /\ (Live(d) => Live(d)') /\ (Complete(d) => Complete(d)')
  BY <1>2 DEF Live, Complete
<1> QED BY <1>3, <1>18, <1>19, <1>20, <1>21, ListsMoved

LEMMA SetCompleteLists ==
  ASSUME IInv, OneInv, NEW t \in Threads, SetComplete(t)
  PROVE  OneInv'
<1>1. PICK c : c = my[t].cursor OBVIOUS
<1>2. /\ pc[t] = "complete" /\ command' = [command EXCEPT ![c].status = "complete"]
      /\ pc' = [pc EXCEPT ![t] = "advance"] /\ my' = my
      /\ queue' = queue /\ armed' = armed /\ execution' = execution
  BY <1>1 DEF SetComplete, Goto, locks, gpu
<1>3. Types /\ c \in AllCommands /\ c # None
  <2>1. Types /\ c # None BY <1>1, <1>2 DEF OneInv, IInv
  <2>2. my[t].cursor \in Optional BY <2>1 DEF Types, Locals
  <2> QED BY <1>1, <2>1, <2>2 DEF Optional
<1>4. /\ \A d \in AllCommands : d # c => command'[d] = command[d]
      /\ command'[c] = [command[c] EXCEPT !.status = "complete"] /\ command[c] \in CommandObject
  BY <1>2, <1>3 DEF Types
<1>5. /\ command'[c].next = command[c].next /\ command'[c].status = "complete"
      /\ command'[c].batchHead = command[c].batchHead
  BY <1>4 DEF CommandObject
<1>6. pc'[t] = "advance" /\ \A u \in Threads : u # t => pc'[u] = pc[u] BY <1>2, <1>3 DEF Types
<1>7. \A p \in Queues : Resetting(p)' <=> Resetting(p) BY <1>2, <1>6 DEF Resetting, Threads
<1>8. PICK n, H, S, D, k : /\ n = NextOf /\ H = Heads /\ S = Submitted /\ D = Done
                           /\ k = <<"walked", t>>
  OBVIOUS
<1>9. k \in Places /\ H[k] = c /\ D[k] = {} /\ Done'[k] = {c}
  <2>1. k \in Places BY <1>8, PlaceFacts
  <2>2. H[k] = my[t].cursor BY <1>8, HeadsAre DEF HeadsOk
  <2>3. D[k] = {x \in AllCommands : pc[t] = "advance" /\ my[t].cursor = x} BY <1>8, HeadsAre DEF HeadsOk
  <2>4. Done'[k] = {x \in AllCommands : pc'[t] = "advance" /\ my'[t].cursor = x}
    BY <1>8, HeadsAre DEF HeadsOk
  <2> QED BY <1>1, <1>2, <1>3, <1>6, <2>1, <2>2, <2>3, <2>4
<1>10. PICK X, Y : X = {k} /\ Y = {} OBVIOUS
<1>11. X \in SUBSET Places /\ Y \in SUBSET Places BY <1>9, <1>10
<1>12. \A p \in Queues : <<"open", p>> \in Y \/
           (IF Resetting(p) THEN None ELSE queue[p].head)' = (IF Resetting(p) THEN None ELSE queue[p].head)
  BY <1>2, <1>7
<1>13. \A m \in AllCommands : <<"closed", m>> \in Y \/
           (IF m \in armed THEN command[m].batchHead ELSE None)' = (IF m \in armed THEN command[m].batchHead ELSE None)
  BY <1>2, <1>4, <1>5
<1>14. \A u \in Threads : <<"walked", u>> \in Y \/ my'[u].cursor = my[u].cursor BY <1>2
<1>15. \A p \in Places : p \notin Y => Heads'[p] = Heads[p]
  BY ONLY <1>11, <1>12, <1>13, <1>14, HeadsExcept
<1>16. \A u \in Threads : <<"walked", u>> \in X \/
           \/ pc[u] # "advance" /\ pc'[u] # "advance"
           \/ pc'[u] = pc[u] /\ my'[u].cursor = my[u].cursor
  BY <1>2, <1>6, <1>8, <1>10
<1>17. \A p \in Places : p \notin X => Done'[p] = Done[p] BY ONLY <1>11, <1>16, DoneExcept
<1>18. PICK E : E = [D EXCEPT ![k] = {H[k]}] OBVIOUS
<1>19. H = [p \in Places |-> H[p]] /\ D = [p \in Places |-> D[p]] /\ D \in [Places -> SUBSET AllCommands]
       /\ Heads' = [p \in Places |-> Heads'[p]] /\ Done' = [p \in Places |-> Done'[p]]
  BY <1>8, HeadsAre DEF HeadsOk
<1>20. Heads' = H BY <1>8, <1>10, <1>15, <1>19
<1>21. Done' = E
  <2>1. E = [p \in Places |-> IF p = k THEN {c} ELSE D[p]] BY <1>9, <1>18, <1>19
  <2>2. \A p \in Places : Done'[p] = IF p = k THEN {c} ELSE D[p] BY <1>8, <1>9, <1>10, <1>17
  <2> QED BY ONLY <1>19, <2>1, <2>2
<1>22. NextOf' = n BY <1>4, <1>5, <1>8 DEF NextOf
<1>23. Submitted' = S \ {H[k]} BY <1>4, <1>5, <1>8, <1>9 DEF Submitted
<1>24. Apart(n, H, S \ {H[k]}, E)
  <2>1. Apart(n, H, S, D) BY <1>8 DEF OneInv
  <2> QED BY <1>3, <1>9, <1>18, <1>19, <2>1, CompleteList
<1>25. Apart(NextOf, Heads, Submitted, Done)' BY ONLY <1>20, <1>21, <1>22, <1>23, <1>24
<1>26. \A u \in Threads : pc'[u] \in {"complete", "advance"} <=> my'[u].cursor # None
  <2>1. \A u \in Threads : pc[u] \in {"complete", "advance"} <=> my[u].cursor # None BY DEF OneInv
  <2> QED BY <1>2, <1>6, <2>1
<1>27. \A u \in Threads : pc'[u] = "advance" =>
             \/ \E x \in AllCommands : my'[u].cursor = x /\ command'[x].status = "complete"
             \/ pc[u] = "advance" /\ my'[u].cursor = my[u].cursor
  BY <1>1, <1>2, <1>3, <1>5, <1>6
<1>28. \A d \in AllCommands : /\ command'[d].next = command[d].next
                              /\ (Live(d) => Live(d)') /\ (Complete(d) => Complete(d)')
  BY <1>4, <1>5 DEF Live, Complete
<1> QED BY <1>3, <1>25, <1>26, <1>27, <1>28, ListsMoved

LEMMA AdvanceLists ==
  ASSUME IInv, OneInv, NEW t \in Threads, Advance(t)
  PROVE  OneInv'
<1>1. PICK c, x, label : /\ c = my[t].cursor /\ x = command[c].next
                         /\ label = IF x # None THEN "complete" ELSE IF t = Handler THEN "idle" ELSE "reset"
  OBVIOUS
<1>2. /\ pc[t] = "advance" /\ command' = command
      /\ pc' = [pc EXCEPT ![t] = label] /\ my' = [my EXCEPT ![t].cursor = x]
      /\ queue' = queue /\ armed' = armed /\ execution' = execution
  BY <1>1 DEF Advance, Goto, locks, gpu
<1>3. Types /\ c \in AllCommands /\ c # None /\ Complete(c) /\ my[t] \in Locals
  <2>1. Types /\ c # None /\ Complete(c) BY <1>1, <1>2 DEF OneInv, IInv
  <2>2. my[t].cursor \in Optional /\ my[t] \in Locals BY <2>1 DEF Types, Locals
  <2> QED BY <1>1, <2>1, <2>2 DEF Optional
<1>4. /\ pc'[t] = label /\ my'[t].cursor = x
      /\ \A u \in Threads : u # t => pc'[u] = pc[u] /\ my'[u] = my[u]
  <2>1. my'[t] = [my[t] EXCEPT !.cursor = x] BY <1>2, <1>3 DEF Types
  <2>2. my'[t].cursor = x BY <1>3, <2>1 DEF Locals
  <2> QED BY <1>2, <1>3, <2>2 DEF Types
<1>5. \A p \in Queues : Resetting(p)' <=> Resetting(p)
  <2>1. t \in Clients => pc'[t] \in {"complete", "reset"} BY <1>1, <1>4, DirectDispatchAssumption
  <2> QED BY <1>2, <1>4, <2>1 DEF Resetting, Threads
<1>6. PICK n, H, S, D, k : /\ n = NextOf /\ H = Heads /\ S = Submitted /\ D = Done
                           /\ k = <<"walked", t>>
  OBVIOUS
<1>7. k \in Places /\ H[k] = c /\ D[k] = {c} /\ Done'[k] = {} /\ Heads'[k] = x /\ n[c] = x
  <2>1. k \in Places BY <1>6, PlaceFacts
  <2>2. H[k] = my[t].cursor BY <1>6, HeadsAre DEF HeadsOk
  <2>3. D[k] = {y \in AllCommands : pc[t] = "advance" /\ my[t].cursor = y} BY <1>6, HeadsAre DEF HeadsOk
  <2>4. Done'[k] = {y \in AllCommands : pc'[t] = "advance" /\ my'[t].cursor = y}
    BY <1>6, HeadsAre DEF HeadsOk
  <2>5. Heads'[k] = my'[t].cursor BY <1>6, HeadsAre DEF HeadsOk
  <2>6. n[c] = x BY <1>1, <1>3, <1>6 DEF NextOf
  <2>7. label # "advance" BY <1>1
  <2> QED BY <1>1, <1>2, <1>3, <1>4, <2>1, <2>2, <2>3, <2>4, <2>5, <2>6, <2>7
<1>8. PICK X : X = {k} OBVIOUS
<1>9. X \in SUBSET Places BY <1>7, <1>8
<1>10. \A p \in Queues : <<"open", p>> \in X \/
           (IF Resetting(p) THEN None ELSE queue[p].head)' = (IF Resetting(p) THEN None ELSE queue[p].head)
  BY <1>2, <1>5
<1>11. \A m \in AllCommands : <<"closed", m>> \in X \/
           (IF m \in armed THEN command[m].batchHead ELSE None)' = (IF m \in armed THEN command[m].batchHead ELSE None)
  BY <1>2
<1>12. \A u \in Threads : <<"walked", u>> \in X \/ my'[u].cursor = my[u].cursor BY <1>4, <1>6, <1>8
<1>13. \A p \in Places : p \notin X => Heads'[p] = Heads[p] BY ONLY <1>9, <1>10, <1>11, <1>12, HeadsExcept
<1>14. \A u \in Threads : <<"walked", u>> \in X \/
           \/ pc[u] # "advance" /\ pc'[u] # "advance"
           \/ pc'[u] = pc[u] /\ my'[u].cursor = my[u].cursor
  BY <1>4, <1>6, <1>8
<1>15. \A p \in Places : p \notin X => Done'[p] = Done[p] BY ONLY <1>9, <1>14, DoneExcept
<1>16. PICK J, E : J = [H EXCEPT ![k] = n[c]] /\ E = [D EXCEPT ![k] = {}] OBVIOUS
<1>17. H = [p \in Places |-> H[p]] /\ D = [p \in Places |-> D[p]] /\ D \in [Places -> SUBSET AllCommands]
       /\ Heads' = [p \in Places |-> Heads'[p]] /\ Done' = [p \in Places |-> Done'[p]]
  BY <1>6, HeadsAre DEF HeadsOk
<1>18. Heads' = J
  <2>1. J = [p \in Places |-> IF p = k THEN x ELSE H[p]] BY <1>7, <1>16, <1>17
  <2>2. \A p \in Places : Heads'[p] = IF p = k THEN x ELSE H[p] BY <1>6, <1>7, <1>8, <1>13
  <2> QED BY ONLY <1>17, <2>1, <2>2
<1>19. Done' = E
  <2>1. E = [p \in Places |-> IF p = k THEN {} ELSE D[p]] BY <1>16, <1>17
  <2>2. \A p \in Places : Done'[p] = IF p = k THEN {} ELSE D[p] BY <1>6, <1>7, <1>8, <1>15
  <2> QED BY ONLY <1>17, <2>1, <2>2
<1>20. NextOf' = n /\ Submitted' = S BY <1>2, <1>6 DEF NextOf, Submitted
<1>21. Apart(n, J, S, E)
  <2>1. Apart(n, H, S, D) BY <1>6 DEF OneInv
  <2>2. c \notin S BY <1>3, <1>6 DEF Submitted, Complete
  <2> QED BY <1>3, <1>7, <1>16, <1>17, <2>1, <2>2, AdvanceList
<1>22. Apart(NextOf, Heads, Submitted, Done)' BY ONLY <1>18, <1>19, <1>20, <1>21
<1>23. \A u \in Threads : pc'[u] \in {"complete", "advance"} <=> my'[u].cursor # None
  <2>1. \A u \in Threads : pc[u] \in {"complete", "advance"} <=> my[u].cursor # None BY DEF OneInv
  <2> QED BY <1>1, <1>4, <2>1
<1>24. \A u \in Threads : pc'[u] = "advance" => pc[u] = "advance" /\ my'[u].cursor = my[u].cursor
  <2>1. label # "advance" BY <1>1
  <2> QED BY <1>4, <2>1
<1>25. \A d \in AllCommands : /\ command'[d].next = command[d].next
                              /\ (Live(d) => Live(d)') /\ (Complete(d) => Complete(d)')
  BY <1>2 DEF Live, Complete
<1> QED BY <1>3, <1>22, <1>23, <1>24, <1>25, ListsMoved

LEMMA FormLists ==
  ASSUME IInv, OneInv, NEW t \in Clients, Form(t)
  PROVE  OneInv'
<1>1. PICK q, c, o, e : q = Here(t) /\ c = Current(t) /\ o = queue[q] /\ e = o.tail OBVIOUS
<1>2. /\ pc[t] = "form" \/ (pc[t] = "waitList" /\ my[t].todo = {})
      /\ execution[q] \in {None, t} /\ execution' = [execution EXCEPT ![q] = t]
      /\ queue' = [queue EXCEPT ![q].head = IF @ = None THEN c ELSE @, ![q].tail = c,
                                ![q].size = @ + 1, ![q].last = c]
      /\ command' = [d \in AllCommands |->
           IF d = c THEN [command[d] EXCEPT !.status = "submitted"]
           ELSE IF d = e /\ o.head # None THEN [command[d] EXCEPT !.next = c]
           ELSE command[d]]
      /\ pc' = [pc EXCEPT ![t] = "submit"] /\ my' = my /\ armed' = armed
  BY <1>1 DEF Form, Goto, gpu
<1>3. /\ Types /\ LockInv /\ t \in Threads /\ t # None /\ q \in Queues /\ o \in QueueObject
      /\ None \notin AllCommands /\ execution \in [Queues -> Clients \cup {None}]
  BY <1>1, <1>2, ClientFacts, FormFacts, TypeFacts, DirectDispatchAssumption DEF Types
<1>4. /\ c \in AllCommands /\ command[c].status = "queued" /\ ~Live(c) /\ c # None
      /\ command[c].next = None /\ command[c] \in CommandObject
  BY <1>1, <1>2, <1>3, FormFacts DEF Live, Types
<1>5. /\ pc'[t] = "submit" /\ pc[t] \notin Resets /\ \A u \in Threads : u # t => pc'[u] = pc[u]
  BY <1>2, <1>3 DEF Types, Resets
<1>6. queue'[q].head = (IF o.head = None THEN c ELSE o.head)
      /\ \A p \in Queues : p # q => queue'[p] = queue[p]
  <2>1. queue'[q] = [o EXCEPT !.head = IF o.head = None THEN c ELSE o.head, !.tail = c,
                              !.size = o.size + 1, !.last = c]
    BY <1>1, <1>2, <1>3 DEF Types
  <2>2. queue'[q].head = (IF o.head = None THEN c ELSE o.head) BY <1>3, <2>1 DEF QueueObject
  <2> QED BY <1>2, <1>3, <2>2 DEF Types
<1>7. /\ ~Resetting(q) /\ ~Resetting(q)'
      /\ \A p \in Queues : p # q => (Resetting(p)' <=> Resetting(p))
  <2>1. execution'[q] = t /\ \A p \in Queues : p # q => execution'[p] = execution[p] BY <1>2, <1>3
  <2>2. \A p \in Queues : p # q => execution[p] # t BY <1>1, <1>3 DEF LockInv
  <2> QED BY <1>2, <1>3, <1>5, <2>1, <2>2, ResettingFacts DEF Resets
<1>8. PICK n, H, S, D, k : /\ n = NextOf /\ H = Heads /\ S = Submitted /\ D = Done
                           /\ k = <<"open", q>>
  OBVIOUS
<1>9. Apart(n, H, S, D) /\ n \in [AllCommands -> Optional] BY <1>8 DEF OneInv, Apart
<1>10. k \in Places /\ H[k] = o.head /\ Heads'[k] = IF o.head = None THEN c ELSE o.head
  <2>1. k \in Places BY <1>3, <1>8, PlaceFacts
  <2>2. H[k] = o.head BY <1>1, <1>3, <1>7, <1>8, HeadsAre DEF HeadsOk
  <2>3. Heads'[k] = queue'[q].head BY <1>3, <1>7, <1>8, HeadsAre DEF HeadsOk
  <2> QED BY <1>6, <2>1, <2>2, <2>3
<1>11. n[c] = None /\ \A d \in AllCommands : n[d] # c
  <2>1. \A d \in AllCommands : n[d] # None => Live(n[d]) BY <1>8 DEF OneInv
  <2> QED BY <1>4, <1>8, <2>1 DEF NextOf
<1>12. \A p \in Places : c \notin Walk(n, H[p])
  <2> TAKE p \in Places
  <2>1. Walk(n, H[p]) \subseteq S \cup D[p] BY <1>9 DEF Apart
  <2>2. c \notin S BY <1>4, <1>8 DEF Submitted
  <2>3. c \notin D[p]
    <3>1. \A u \in Threads : pc[u] = "advance" => Complete(my[u].cursor) BY DEF OneInv
    <3>2. \A u \in Threads : ~(pc[u] = "advance" /\ my[u].cursor = c) BY <1>4, <3>1 DEF Complete
    <3>3. ASSUME NEW u \in Threads, p = <<"walked", u>> PROVE c \notin D[p]
      <4>1. D[p] = {x \in AllCommands : pc[u] = "advance" /\ my[u].cursor = x}
        BY <1>8, <3>3, HeadsAre DEF HeadsOk
      <4> QED BY ONLY <3>2, <4>1
    <3>4. ASSUME NEW r \in Queues, p = <<"open", r>> PROVE c \notin D[p]
      BY <1>8, <3>4, HeadsAre DEF HeadsOk
    <3>5. ASSUME NEW m \in AllCommands, p = <<"closed", m>> PROVE c \notin D[p]
      BY <1>8, <3>5, HeadsAre DEF HeadsOk
    <3> QED BY <3>3, <3>4, <3>5, PlaceFacts
  <2> QED BY <2>1, <2>2, <2>3
<1>13. ASSUME o.head # None
       PROVE  e \in AllCommands /\ e \in Walk(n, H[k]) /\ n[e] = None /\ e # c
  <2>1. PICK B \in SUBSET AllCommands : o.head \in B /\ List(B, e) BY <1>1, <1>3, <1>13 DEF IInv, BatchInv
  <2>2. \A d \in B : d # e => command[d].next \in B BY <2>1 DEF List
  <2>3. Stays(n, B)
    <3> SUFFICES ASSUME NEW d \in B, n[d] # None PROVE n[d] \in B BY DEF Stays
    <3>1. n[d] = command[d].next BY <1>8 DEF NextOf
    <3>2. command[e].next = None BY <2>1 DEF List
    <3> QED BY <2>2, <3>1, <3>2
  <2>4. o.head \in AllCommands /\ Walk(n, o.head) \subseteq B BY <1>9, <2>1, <2>3, WalkFacts DEF Optional
  <2>5. PICK z \in Walk(n, o.head) : n[z] = None BY <1>9, <2>4 DEF Apart
  <2>6. z \in B /\ n[z] = command[z].next BY <1>8, <2>4, <2>5 DEF NextOf
  <2>7. z = e BY <1>3, <2>2, <2>5, <2>6
  <2> QED BY <1>10, <1>12, <2>4, <2>5, <2>6, <2>7
<1>14. /\ command'[c].status = "submitted" /\ command'[c].next = None
       /\ \A d \in AllCommands : d # c =>
            /\ command'[d].status = command[d].status
            /\ command'[d].batchHead = command[d].batchHead
            /\ command'[d].next = IF d = e /\ o.head # None THEN c ELSE command[d].next
       /\ command'[c].batchHead = command[c].batchHead
  <2>1. \A d \in AllCommands : command[d] \in CommandObject BY <1>3 DEF Types
  <2>2. command'[c] = [command[c] EXCEPT !.status = "submitted"] BY <1>2, <1>4
  <2>3. ASSUME NEW d \in AllCommands, d # c
        PROVE  /\ command'[d].status = command[d].status
               /\ command'[d].batchHead = command[d].batchHead
               /\ command'[d].next = IF d = e /\ o.head # None THEN c ELSE command[d].next
    <3>1. command'[d] = IF d = e /\ o.head # None THEN [command[d] EXCEPT !.next = c] ELSE command[d]
      BY <1>2, <2>3
    <3> QED BY <2>1, <3>1 DEF CommandObject
  <2> QED BY <1>4, <2>1, <2>2, <2>3 DEF CommandObject
<1>15. Submitted' = S \cup {c} BY <1>4, <1>8, <1>14 DEF Submitted
<1>16. PICK X, Y : X = {k} /\ Y = {} OBVIOUS
<1>17. X \in SUBSET Places /\ Y \in SUBSET Places BY <1>10, <1>16
<1>18. \A p \in Queues : <<"open", p>> \in X \/
           (IF Resetting(p) THEN None ELSE queue[p].head)' = (IF Resetting(p) THEN None ELSE queue[p].head)
  BY <1>6, <1>7, <1>8, <1>16
<1>19. \A m \in AllCommands : <<"closed", m>> \in X \/
           (IF m \in armed THEN command[m].batchHead ELSE None)' = (IF m \in armed THEN command[m].batchHead ELSE None)
  BY <1>2, <1>14
<1>20. \A u \in Threads : <<"walked", u>> \in X \/ my'[u].cursor = my[u].cursor BY <1>2
<1>21. \A p \in Places : p \notin X => Heads'[p] = Heads[p]
  BY ONLY <1>17, <1>18, <1>19, <1>20, HeadsExcept
<1>22. \A u \in Threads : <<"walked", u>> \in Y \/
           \/ pc[u] # "advance" /\ pc'[u] # "advance"
           \/ pc'[u] = pc[u] /\ my'[u].cursor = my[u].cursor
  BY <1>2, <1>5 DEF Resets
<1>23. \A p \in Places : p \notin Y => Done'[p] = Done[p] BY ONLY <1>17, <1>22, DoneExcept
<1>24. H = [p \in Places |-> H[p]] /\ D = [p \in Places |-> D[p]]
       /\ Heads' = [p \in Places |-> Heads'[p]] /\ Done' = [p \in Places |-> Done'[p]]
  BY <1>8, HeadsAre DEF HeadsOk
<1>25. Done' = D BY <1>8, <1>16, <1>23, <1>24
<1>26. Apart(NextOf, Heads, Submitted, Done)'
  <2>1. CASE o.head = None
    <3>1. PICK J : J = [H EXCEPT ![k] = c] OBVIOUS
    <3>2. Apart(n, J, S \cup {c}, D) BY <1>4, <1>9, <1>10, <1>11, <1>12, <2>1, <3>1, StartList
    <3>3. Heads' = J
      <4>1. J = [p \in Places |-> IF p = k THEN c ELSE H[p]] BY <1>24, <3>1
      <4>2. \A p \in Places : Heads'[p] = IF p = k THEN c ELSE H[p] BY <1>8, <1>10, <1>16, <1>21, <2>1
      <4> QED BY ONLY <1>24, <4>1, <4>2
    <3>4. NextOf' = n BY <1>4, <1>8, <1>14, <2>1 DEF NextOf
    <3> QED BY ONLY <1>15, <1>25, <3>2, <3>3, <3>4
  <2>2. CASE o.head # None
    <3>1. PICK m : m = [n EXCEPT ![e] = c] OBVIOUS
    <3>2. Apart(m, H, S \cup {c}, D) BY <1>4, <1>9, <1>10, <1>11, <1>12, <1>13, <2>2, <3>1, GrowList
    <3>3. Heads' = H
      <4>1. \A p \in Places : Heads'[p] = H[p] BY <1>8, <1>10, <1>16, <1>21, <2>2
      <4> QED BY ONLY <1>24, <4>1
    <3>4. NextOf' = m
      <4>1. m = [d \in AllCommands |-> IF d = e THEN c ELSE n[d]] BY <1>9, <3>1
      <4>2. \A d \in AllCommands : command'[d].next = IF d = e THEN c ELSE n[d]
        BY <1>4, <1>8, <1>13, <1>14, <2>2 DEF NextOf
      <4> QED BY <4>1, <4>2 DEF NextOf
    <3> QED BY ONLY <1>15, <1>25, <3>2, <3>3, <3>4
  <2> QED BY <2>1, <2>2
<1>27. (\A d \in AllCommands : NextOf[d] # None => Live(NextOf[d]))'
  <2>1. \A d \in AllCommands : command[d].next # None => Live(command[d].next) BY DEF OneInv, NextOf
  <2>2. \A d \in AllCommands : (Live(d) => Live(d)') /\ command[d].next \in Optional
    BY <1>3, <1>4, <1>14 DEF Live, Types, CommandObject
  <2>3. Live(c)' BY <1>14 DEF Live
  <2>4. (\A d \in AllCommands : command[d].next # None => Live(command[d].next))'
    BY <1>4, <1>14, <2>1, <2>2, <2>3 DEF Optional
  <2> QED BY <2>4 DEF NextOf
<1>28. (\A u \in Threads : pc[u] \in {"complete", "advance"} <=> my[u].cursor # None)'
  <2>1. \A u \in Threads : pc[u] \in {"complete", "advance"} <=> my[u].cursor # None BY DEF OneInv
  <2> QED BY <1>2, <1>5, <2>1 DEF Resets
<1>29. (\A u \in Threads : pc[u] = "advance" => Complete(my[u].cursor))'
  <2> SUFFICES ASSUME NEW u \in Threads, pc'[u] = "advance" PROVE Complete(my[u].cursor)' OBVIOUS
  <2>1. PICK x : x = my[u].cursor OBVIOUS
  <2>2. pc[u] = "advance" /\ my'[u].cursor = x BY <1>2, <1>5, <2>1 DEF Resets
  <2>3. x \in Optional /\ x # None /\ command[x].status = "complete"
    BY <1>3, <2>1, <2>2 DEF OneInv, Types, Locals, Complete
  <2>4. command'[x].status = "complete" BY <1>4, <1>14, <2>3 DEF Optional
  <2> QED BY <2>2, <2>4 DEF Complete
<1> QED BY <1>26, <1>27, <1>28, <1>29 DEF OneInv

LEMMA InitLists == Init => OneInv
<1> SUFFICES ASSUME Init PROVE OneInv OBVIOUS
<1>1. \A c \in AllCommands : command[c].next = None /\ command[c].status = "new" BY DEF Init
<1>2. PICK n, H, S, D : n = NextOf /\ H = Heads /\ S = Submitted /\ D = Done OBVIOUS
<1>3. n \in [AllCommands -> Optional] /\ S = {} /\ \A c \in AllCommands : n[c] = None
  BY <1>1, <1>2 DEF NextOf, Submitted, Optional
<1>4. \A k \in Places : H[k] = None
  <2>1. \A q \in Queues : ~Resetting(q) /\ queue[q].head = None
    BY DirectDispatchAssumption DEF Init, Resetting
  <2>2. armed = {} /\ \A t \in Threads : my[t].cursor = None BY DEF Init, AtHome
  <2> TAKE k \in Places
  <2>3. ASSUME NEW q \in Queues, k = <<"open", q>> PROVE H[k] = None
    BY <1>2, <2>1, <2>3, HeadsAre DEF HeadsOk
  <2>4. ASSUME NEW m \in AllCommands, k = <<"closed", m>> PROVE H[k] = None
    BY <1>2, <2>2, <2>4, HeadsAre DEF HeadsOk
  <2>5. ASSUME NEW t \in Threads, k = <<"walked", t>> PROVE H[k] = None
    BY <1>2, <2>2, <2>5, HeadsAre DEF HeadsOk
  <2> QED BY <2>3, <2>4, <2>5, PlaceFacts
<1>5. H \in [Places -> Optional]
  <2>1. H = [k \in Places |-> H[k]] BY <1>2, HeadsAre DEF HeadsOk
  <2> QED BY <1>4, <2>1 DEF Optional
<1>6. \A c \in AllCommands : \E e \in Walk(n, c) : n[e] = None BY <1>3, WalkFacts
<1>7. Walk(n, None) = {} BY <1>3, WalkFacts
<1>8. Apart(n, H, S, D) BY <1>3, <1>4, <1>5, <1>6, <1>7 DEF Apart
<1>9. /\ \A c \in AllCommands : NextOf[c] # None => Live(NextOf[c])
      /\ \A t \in Threads : pc[t] \in {"complete", "advance"} <=> my[t].cursor # None
      /\ \A t \in Threads : pc[t] = "advance" => Complete(my[t].cursor)
  BY <1>2, <1>3 DEF Init, AtHome
<1> QED BY <1>2, <1>8, <1>9 DEF OneInv

LEMMA StutterLists == ASSUME IInv, OneInv, UNCHANGED vars PROVE OneInv'
<1>1. /\ command' = command /\ queue' = queue /\ armed' = armed /\ execution' = execution
      /\ pc' = pc /\ my' = my
  BY DEF vars, locks, gpu
<1>2. CommandsKept BY <1>1, AloneKept
<1>3. \A q \in Queues : Resetting(q)' <=> Resetting(q) BY <1>1 DEF Resetting
<1> QED BY <1>1, <1>2, <1>3, SameLists DEF IInv

LEMMA NextLists == IInv /\ OneInv /\ [Next]_vars => OneInv'
<1> SUFFICES ASSUME IInv, OneInv, [Next]_vars PROVE OneInv' OBVIOUS
<1>1. CASE UNCHANGED vars BY <1>1, StutterLists
<1>2. ASSUME NEW t \in Clients, Application(t) PROVE OneInv' BY <1>2, ApplicationQuiet
<1>3. ASSUME NEW t \in Clients, InCall(t) PROVE OneInv'
  <2>1. CASE Form(t) BY <2>1, FormLists
  <2>2. CASE SubmitPacket(t) BY <2>2, SubmitPacketLists
  <2>3. CASE SubmitCpuWait(t) BY <2>3, SubmitCpuWaitLists
  <2>4. CASE Reset(t) BY <2>4, ResetLists
  <2>5. CASE Update(t) BY <2>5, SetCompleteLists, AdvanceLists DEF Update, Threads
  <2> QED BY <1>3, <2>1, <2>2, <2>3, <2>4, <2>5, InCallQuiet DEF InCall
<1>4. CASE HandlerStep
  BY <1>4, SetCompleteLists, AdvanceLists, SignalHandlerLists DEF HandlerStep, Update, Threads
<1>5. ASSUME NEW q \in Queues, Execute(q) PROVE OneInv' BY <1>5, ExecuteLists
<1> QED BY <1>1, <1>2, <1>3, <1>4, <1>5 DEF Next

(* A submitted command is in one batch, the open one of its queue, one that
   waits for its marker's handler, or one that a thread walks, although
   handlers come in any order and a thread that waits on the CPU walks the
   open batch itself (HostQueue::FormSubmissionBatch(), updateCommandsState()). *)
THEOREM InOneBatch == Spec => []OneBatch
<1>1. ASSUME IInv, OneInv PROVE OneBatch
  <2> SUFFICES ASSUME NEW c \in AllCommands, command[c].status = "submitted"
               PROVE  Cardinality(BatchesOf(c)) = 1
    BY DEF OneBatch
  <2>1. PICK n, H : n = NextOf /\ H = Heads OBVIOUS
  <2>2. Apart(n, H, Submitted, Done) /\ Types BY <1>1, <2>1 DEF OneInv, IInv
  <2>3. \A h \in Optional : Batch(h) = Walk(n, h)
    <3>1. \A x \in AllCommands : \E e \in Walk(n, x) : n[e] = None BY <2>2 DEF Apart
    <3> QED BY <2>1, <2>2, <3>1, BatchIsWalk
  <2>4. \A k \in Places : H[k] \in Optional BY <2>2 DEF Apart
  <2>5. \A q \in Queues : c \in OpenBatch(q) <=> c \in Walk(n, H[<<"open", q>>])
    <3> TAKE q \in Queues
    <3>1. <<"open", q>> \in Places /\ H[<<"open", q>>] = IF Resetting(q) THEN None ELSE queue[q].head
      BY <2>1, PlaceFacts, HeadsAre DEF HeadsOk
    <3>2. Walk(n, None) = {} BY <2>2, WalkFacts DEF Apart
    <3> QED BY <2>3, <2>4, <3>1, <3>2 DEF OpenBatch
  <2>6. \A m \in AllCommands : m \in armed /\ c \in Batch(command[m].batchHead) <=> c \in Walk(n, H[<<"closed", m>>])
    <3> TAKE m \in AllCommands
    <3>1. <<"closed", m>> \in Places /\ H[<<"closed", m>>] = IF m \in armed THEN command[m].batchHead ELSE None
      BY <2>1, PlaceFacts, HeadsAre DEF HeadsOk
    <3>2. Walk(n, None) = {} BY <2>2, WalkFacts DEF Apart
    <3> QED BY <2>3, <2>4, <3>1, <3>2
  <2>7. \A t \in Threads : c \in Batch(my[t].cursor) <=> c \in Walk(n, H[<<"walked", t>>])
    <3> TAKE t \in Threads
    <3>1. <<"walked", t>> \in Places /\ H[<<"walked", t>>] = my[t].cursor
      BY <2>1, PlaceFacts, HeadsAre DEF HeadsOk
    <3> QED BY <2>3, <2>4, <3>1
  <2>8. armed \subseteq AllCommands BY <2>2 DEF Types
  <2>9. \A k \in BatchesOf(c) : k \in Places /\ c \in Walk(n, H[k])
    BY <2>5, <2>6, <2>7, <2>8, PlaceFacts DEF BatchesOf
  <2>10. \A k \in Places : c \in Walk(n, H[k]) => k \in BatchesOf(c)
    <3> SUFFICES ASSUME NEW k \in Places, c \in Walk(n, H[k]) PROVE k \in BatchesOf(c) OBVIOUS
    <3>1. ASSUME NEW q \in Queues, k = <<"open", q>> PROVE k \in BatchesOf(c) BY <2>5, <3>1 DEF BatchesOf
    <3>2. ASSUME NEW m \in AllCommands, k = <<"closed", m>> PROVE k \in BatchesOf(c)
      BY <2>6, <3>2 DEF BatchesOf
    <3>3. ASSUME NEW t \in Threads, k = <<"walked", t>> PROVE k \in BatchesOf(c)
      BY <2>7, <3>3 DEF BatchesOf
    <3> QED BY <3>1, <3>2, <3>3, PlaceFacts
  <2>11. PICK k \in Places : c \in Walk(n, H[k]) BY <2>2 DEF Apart, Submitted
  <2>12. \A l \in Places : c \in Walk(n, H[l]) => l = k BY <2>2, <2>11 DEF Apart
  <2>13. BatchesOf(c) = {k} BY <2>9, <2>10, <2>11, <2>12
  <2> QED BY <2>13, FS_Singleton
<1>2. IInv /\ OneInv /\ [Next]_vars => IInv' /\ OneInv' BY NextInv, NextLists
<1>3. Init => IInv /\ OneInv BY InitInv, InitLists
<1>4. IInv /\ OneInv => OneBatch BY <1>1
<1> QED BY <1>2, <1>3, <1>4, PTL DEF Spec
=============================================================================
