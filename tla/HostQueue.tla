------------------------------ MODULE HostQueue ------------------------------
(***************************************************************************)
(* amd::HostQueue with a worker thread (rocclr/platform/commandqueue.cpp    *)
(* without direct dispatch) and the amd::Event half of the commands that    *)
(* travel through it (rocclr/platform/command.cpp): client threads append   *)
(* commands to queues, wait for events, finish and terminate queues; one    *)
(* worker per queue takes the commands in order, awaits the events of other *)
(* queues, submits to the device and completes what it submitted in batches.*)
(*                                                                         *)
(* The queue is a sequence (ConcurrentQueue implements that) and a critical *)
(* section of a monitor is one step (Monitor implements that); a thread     *)
(* inside wait() is at "waiting", a worker at "asleep".  The worker of a    *)
(* queue has the queue's name.                                              *)
(***************************************************************************)
EXTENDS Integers, Sequences, FiniteSets

CONSTANTS Queues,
          Clients,
          Streams,      \* the queues each client submits to
          IsHip,        \* IS_HIP: the HIP runtime rather than the OpenCL one
          Operations,   \* what the application calls besides enqueue()
          EarlyRelease, \* does it drop queues whose events are still waited for?
          MaxCommands,  \* bound: commands and user events ever created, except
                        \* the markers of notifyCmdQueue(), one per command
          None

ASSUME HostQueueAssumption == /\ Streams \in [Clients -> SUBSET Queues]
                              /\ Queues \cap Clients = {}
                              /\ Operations \subseteq {"await", "finish", "terminate", "userEvent"}
                              /\ IsHip \in BOOLEAN /\ EarlyRelease \in BOOLEAN
                              /\ MaxCommands \in Nat

Threads == Queues \cup Clients

(* The n-th command created is n, and the marker that notifyCmdQueue()
   creates for it is NotifyMarker(n). *)
Commands        == 1..MaxCommands
NotifyMarker(c) == MaxCommands + c
AllCommands     == 1..2 * MaxCommands

ASSUME NoneAssumption == None \notin Threads \cup AllCommands

VARIABLES
  created,   \* the commands created so far are 1..created
  command,   \* per command: kind, queue_, eventWaitList_, status_, notified_
  refs,      \* referenceCount_; 0 once the command is deleted
  handles,   \* the commands the application has a reference to
  queue,     \* per queue: queue_, lastEnqueueCommand_, acceptingCommands_, the
             \* batch head..tail of loop(); history: all that was appended
  active,    \* Device::activeQueues
  pc, my     \* where each thread is, and the locals of the call it is in

vars == <<created, command, refs, handles, queue, active, pc, my>>

Kinds == {"user", "userEvent", "finish", "notify"}   \* the last two have type 0

CommandObject == [kind : Kinds, queue : Queues \cup {None}, waits : SUBSET Commands,
                  status : {"new", "queued", "submitted", "complete", "error"},
                  notified : BOOLEAN]

QueueObject == [fifo : Seq(AllCommands), last : AllCommands \cup {None}, accepting : BOOLEAN,
                batch : Seq(AllCommands), order : Seq(AllCommands)]

Labels == {"idle", "append", "swapLast", "dropLast", "flush", "await", "dropMarker", "sleep",
           "waiting", "awaited", "finished", "stop", "join", "signal",
           "dequeue", "recheck", "asleep", "events", "flushBatch", "exited"}

Locals == [op : {"none", "await", "finish", "terminate"},   \* what a client is doing,
           on : Queues \cup {None},             \* to which queue,
           due : SUBSET Commands,               \* and what it has to wait for (history)
           cmd : AllCommands \cup {None},       \* the command being appended or completed
           prev : AllCommands \cup {None},      \* prevLastEnqueueCommand of append()
           event : Commands \cup {None},        \* the event in awaitCompletion()
           taken : AllCommands \cup {None},     \* loop(): command, the events of its wait
           todo : SUBSET Commands,              \* list still to look at, dependencyFailed
           failed : BOOLEAN]

TypeOK == /\ created \in 0..MaxCommands
          /\ command \in [AllCommands -> CommandObject]
          /\ refs \in [AllCommands -> Nat]
          /\ handles \subseteq Commands
          /\ queue \in [Queues -> QueueObject]
          /\ active \subseteq Queues
          /\ pc \in [Threads -> Labels]
          /\ my \in [Threads -> Locals]

(* Every queue has been constructed: its worker has called notify() and the
   constructor has returned. *)
Init ==
  /\ created = 0 /\ handles = {} /\ active = {}
  /\ command = [c \in AllCommands |-> [kind |-> "user", queue |-> None, waits |-> {},
                                       status |-> "new", notified |-> FALSE]]
  /\ refs = [c \in AllCommands |-> 0]
  /\ queue = [q \in Queues |-> [fifo |-> <<>>, last |-> None, accepting |-> TRUE,
                                batch |-> <<>>, order |-> <<>>]]
  /\ pc = [p \in Threads |-> IF p \in Queues THEN "dequeue" ELSE "idle"]
  /\ my = [p \in Threads |-> [op |-> "none", on |-> None, due |-> {}, cmd |-> None,
                              prev |-> None, event |-> None, taken |-> None, todo |-> {},
                              failed |-> FALSE]]

Goto(p, label) == pc' = [pc EXCEPT ![p] = label]

Done(c) == command[c].status \in {"complete", "error"}

(* The queue still has a reference: the application may call it. *)
Open(q) == queue[q].accepting /\ \A t \in Clients : ~(my[t].op = "terminate" /\ my[t].on = q)

(* The application may wait for this event: its queue is open, or it is done. *)
Awaitable(e) == EarlyRelease \/ Done(e) \/ (command[e].queue # None => Open(command[e].queue))

(* A thread waits, or will wait, for an event of queue q. *)
AwaitedBySomebody(q) ==
  \/ \E p \in Threads : my[p].event # None /\ command[my[p].event].queue = q
  \/ \E c \in 1..created : ~Done(c) /\ \E e \in command[c].waits : command[e].queue = q

----------------------------------------
(* Reference counts *)

(* How often each command is in a sequence. *)
Count(list) == [c \in AllCommands |-> Cardinality({i \in DOMAIN list : list[i] = c})]

(* terminate() of a deleted HIP command releases its wait list, of commands
   older than itself; an OpenCL command did so when it completed. *)
Release(list) ==
  LET left[c \in AllCommands] ==
        refs[c] - Count(list)[c]
        - (IF IsHip THEN Cardinality({d \in (c + 1)..created :
                             c \in command[d].waits /\ refs[d] > 0 /\ left[d] = 0})
                    ELSE 0)
  IN refs' = left

(* Mutant of Retain: the reference is not taken. *)
RetainForgotten(c) == UNCHANGED refs

Retain(c) == refs' = [refs EXCEPT ![c] = @ + 1]

----------------------------------------
(* Command::enqueue(): append() and flush() *)

(* new and the constructor of the next command, in the hands of thread p;
   the constructor retains the events of the wait list. *)
New(p, kind, q, W) ==
  /\ created < MaxCommands
  /\ created' = created + 1
  /\ command' = [command EXCEPT ![created + 1].kind = kind, ![created + 1].queue = q,
                                ![created + 1].waits = W]
  /\ refs' = [c \in AllCommands |-> IF c = created + 1 THEN 1
                                    ELSE IF c \in W THEN refs[c] + 1 ELSE refs[c]]
  /\ Goto(p, "append")

Create(t, q, W) ==
  /\ pc[t] = "idle" /\ Open(q)
  /\ \A e \in W : Awaitable(e)
  /\ New(t, "user", q, W)
  /\ my' = [my EXCEPT ![t].cmd = created + 1]
  /\ UNCHANGED <<handles, queue, active>>

(* retain(), setStatus(CL_QUEUED), queue_.enqueue().  The markers that
   notifyCmdQueue() sends have a waitingEvent(): they are not the last, but
   without a previous last command they too make the queue active. *)
AppendCommand(p) ==
  LET c == my[p].cmd
      q == command[c].queue
  IN /\ pc[p] = "append"
     /\ Retain(c)
     /\ command' = [command EXCEPT ![c].status = "queued"]
     /\ queue' = [queue EXCEPT ![q].fifo = Append(@, c), ![q].order = Append(@, c)]
     /\ Goto(p, IF ~IsHip THEN "flush"
                ELSE IF command[c].kind = "notify" THEN "dropLast" ELSE "swapLast")
     /\ UNCHANGED <<created, handles, active, my>>

(* The critical section of lastCmdLock_. *)
SwapLast(p) ==
  LET q == command[my[p].cmd].queue IN
  /\ pc[p] = "swapLast"
  /\ Retain(my[p].cmd)
  /\ my' = [my EXCEPT ![p].prev = queue[q].last]
  /\ queue' = [queue EXCEPT ![q].last = my[p].cmd]
  /\ Goto(p, "dropLast")
  /\ UNCHANGED <<created, command, handles, active>>

(* Mutant of DropLast: the previous last command keeps its reference, and
   the queue is not made active. *)
DropLastForgotten(p) ==
  /\ pc[p] = "dropLast"
  /\ my' = [my EXCEPT ![p].prev = None]
  /\ Goto(p, "flush")
  /\ UNCHANGED <<created, command, refs, handles, queue, active>>

DropLast(p) ==
  /\ pc[p] = "dropLast"
  /\ IF my[p].prev # None
       THEN Release(<<my[p].prev>>) /\ UNCHANGED active
       ELSE active' = active \cup {command[my[p].cmd].queue} /\ UNCHANGED refs
  /\ my' = [my EXCEPT ![p].prev = None]
  /\ Goto(p, "flush")
  /\ UNCHANGED <<created, command, handles, queue>>

(* Mutant of Notify: the worker is not woken. *)
NotifyNobody(q, p, label) == Goto(p, label)

(* notify() under queueLock_ by thread p, which goes on at a label. *)
Notify(q, p, label) ==
  pc' = [u \in Threads |-> IF u = p THEN label
                           ELSE IF u = q /\ pc[u] = "asleep" THEN "recheck" ELSE pc[u]]

(* flush(); then enqueue() returns to the application, which has the command
   as an event, to notifyCmdQueue(), or to finish() or terminate(). *)
Flush(p) ==
  LET c == my[p].cmd
      q == command[c].queue
  IN /\ pc[p] = "flush"
     /\ \/ /\ command[c].kind = "user"
           /\ Notify(q, p, "idle")
           /\ handles' = handles \cup {c}
           /\ my' = [my EXCEPT ![p].cmd = None]
        \/ /\ command[c].kind = "notify"
           /\ Notify(q, p, "dropMarker")
           /\ UNCHANGED <<handles, my>>
        \/ /\ command[c].kind = "finish"
           /\ Notify(q, p, "await")
           /\ my' = [my EXCEPT ![p].cmd = None, ![p].event = c]
           /\ UNCHANGED handles
     /\ UNCHANGED <<created, command, refs, queue, active>>

(* The application releases an event that no call of its own is using. *)
ReleaseHandle(t, c) ==
  /\ pc[t] = "idle"
  /\ \A u \in Clients : my[u].cmd # c /\ (my[u].op = "await" => my[u].event # c)
  /\ handles' = handles \ {c}
  /\ Release(<<c>>)
  /\ UNCHANGED <<created, command, queue, active, pc, my>>

----------------------------------------
(* awaitCompletion(), called by clients and by workers *)

Await(t, c) ==
  /\ "await" \in Operations
  /\ pc[t] = "idle" /\ Awaitable(c)
  /\ Goto(t, "await")
  /\ my' = [my EXCEPT ![t].op = "await", ![t].event = c]
  /\ UNCHANGED <<created, command, refs, handles, queue, active>>

(* Mutant of FindDone: the status is not tested before the wait ends. *)
FindDoneUntested(p) ==
  /\ pc[p] \in {"await", "sleep"} /\ (pc[p] = "await" => Done(my[p].event))
  /\ Goto(p, "awaited")
  /\ UNCHANGED <<created, command, refs, handles, queue, active, my>>

(* The event is done: in the first test, or in the loop under lock_. *)
FindDone(p) ==
  /\ pc[p] \in {"await", "sleep"} /\ Done(my[p].event)
  /\ Goto(p, "awaited")
  /\ UNCHANGED <<created, command, refs, handles, queue, active, my>>

(* notifyCmdQueue(): the first caller sends a marker after the event. *)
NotifyCmdQueue(p) ==
  LET e == my[p].event
      m == NotifyMarker(e)
  IN /\ pc[p] = "await" /\ ~Done(e)
     /\ IF command[e].queue # None /\ ~command[e].notified
          THEN /\ command' = [command EXCEPT ![e].notified = TRUE, ![m].kind = "notify",
                                             ![m].queue = command[e].queue]
               /\ Retain(m)
               /\ my' = [my EXCEPT ![p].cmd = m]
               /\ Goto(p, "append")
          ELSE Goto(p, "sleep") /\ UNCHANGED <<command, refs, my>>
     /\ UNCHANGED <<created, handles, queue, active>>

(* Mutant of DropMarker: the marker's first reference is not released. *)
DropMarkerForgotten(p) ==
  /\ pc[p] = "dropMarker"
  /\ my' = [my EXCEPT ![p].cmd = None]
  /\ Goto(p, "sleep")
  /\ UNCHANGED <<created, command, refs, handles, queue, active>>

DropMarker(p) ==
  /\ pc[p] = "dropMarker"
  /\ Release(<<my[p].cmd>>)
  /\ my' = [my EXCEPT ![p].cmd = None]
  /\ Goto(p, "sleep")
  /\ UNCHANGED <<created, command, handles, queue, active>>

(* The test under lock_ fails and the thread waits.  terminate() polls. *)
Sleep(p) ==
  /\ pc[p] = "sleep" /\ ~Done(my[p].event) /\ my[p].op # "terminate"
  /\ Goto(p, "waiting")
  /\ UNCHANGED <<created, command, refs, handles, queue, active, my>>

AwaitReturns(t) ==
  /\ pc[t] = "awaited" /\ my[t].op = "await"
  /\ Goto(t, "idle")
  /\ my' = [my EXCEPT ![t].op = "none", ![t].event = None]
  /\ UNCHANGED <<created, command, refs, handles, queue, active>>

(* setStatus() of a final status by thread p, at a label: the CAS ... *)
Settle(p, c, outcome) ==
  /\ command' = [command EXCEPT ![c].status = outcome]
  /\ my' = [my EXCEPT ![p].cmd = c]
  /\ Goto(p, "signal")

(* signal() wakes everybody who waits for the event; it is skipped when the
   event has one reference.  Mutant: notify() instead of notifyAll(). *)
WaitersOf(c) == {u \in Threads : pc[u] = "waiting" /\ my[u].event = c}

WokenOne(c) == IF WaitersOf(c) # {} THEN {CHOOSE u \in WaitersOf(c) : TRUE} ELSE {}
Woken(c)    == IF refs[c] > 1 THEN WaitersOf(c) ELSE {}

(* ... and the rest: signal(), and the releases, with an OpenCL command its
   wait list's; extra is released by the caller. *)
Signal(p, extra, label) ==
  LET c == my[p].cmd
      events == SelectSeq([i \in 1..created |-> i],
                          LAMBDA e : ~IsHip /\ e \in command[c].waits)
  IN /\ pc[p] = "signal"
     /\ pc' = [u \in Threads |-> IF u = p THEN label ELSE IF u \in Woken(c) THEN "sleep" ELSE pc[u]]
     /\ Release(events \o <<c>> \o extra)
     /\ my' = [my EXCEPT ![p].cmd = None]
     /\ UNCHANGED <<created, command, handles, active>>

(* clCreateUserEvent(), which retains the event once more, and
   clSetUserEventStatus(). *)
CreateUserEvent(t) ==
  LET e == created + 1 IN
  /\ "userEvent" \in Operations /\ created < MaxCommands
  /\ pc[t] = "idle"
  /\ created' = e
  /\ command' = [command EXCEPT ![e].kind = "userEvent", ![e].status = "submitted"]
  /\ refs' = [refs EXCEPT ![e] = 2]
  /\ handles' = handles \cup {e}
  /\ UNCHANGED <<queue, active, pc, my>>

SetUserEvent(t, e, outcome) ==
  /\ pc[t] = "idle" /\ command[e].kind = "userEvent" /\ ~Done(e)
  /\ Settle(t, e, outcome)
  /\ UNCHANGED <<created, refs, handles, queue, active>>

SignalUserEvent(t) == t \in Clients /\ Signal(t, <<>>, "idle") /\ UNCHANGED queue

----------------------------------------
(* loop() of the worker of queue q *)

(* The worker retains the command it takes and looks at its wait list. *)
Take(q) ==
  LET c == Head(queue[q].fifo) IN
  /\ pc[q] \in {"dequeue", "recheck"} /\ queue[q].fifo # <<>>
  /\ queue' = [queue EXCEPT ![q].fifo = Tail(@)]
  /\ Retain(c)
  /\ my' = [my EXCEPT ![q].taken = c, ![q].todo = command[c].waits, ![q].failed = FALSE]
  /\ Goto(q, "events")
  /\ UNCHANGED <<created, command, handles, active>>

(* Mutant of FindNothing: the worker does not look again before it waits. *)
FindNothingOnce(q) ==
  /\ pc[q] \in {"dequeue", "recheck"} /\ (pc[q] = "dequeue" => queue[q].fifo = <<>>)
  /\ Goto(q, IF pc[q] = "dequeue" THEN "recheck"
             ELSE IF queue[q].accepting THEN "asleep" ELSE "exited")
  /\ UNCHANGED <<created, command, refs, handles, queue, active, my>>

(* Nothing in the queue: look again under queueLock_, then leave or wait. *)
FindNothing(q) ==
  /\ pc[q] \in {"dequeue", "recheck"} /\ queue[q].fifo = <<>>
  /\ Goto(q, IF pc[q] = "dequeue" THEN "recheck"
             ELSE IF queue[q].accepting THEN "asleep" ELSE "exited")
  /\ UNCHANGED <<created, command, refs, handles, queue, active, my>>

(* An event of this queue, or complete, needs no wait.  Mutants: neither
   does one that was submitted, or one that failed. *)
SatisfiedEarly(q, e)   == command[e].queue = q \/ command[e].status \in {"submitted", "complete"}
SatisfiedByError(q, e) == command[e].queue = q \/ Done(e)
Satisfied(q, e)        == command[e].queue = q \/ command[e].status = "complete"

(* For any other event the batch is flushed before the worker blocks. *)
NextEvent(q) ==
  /\ pc[q] = "events"
  /\ \E e \in my[q].todo :
       IF Satisfied(q, e)
         THEN my' = [my EXCEPT ![q].todo = @ \ {e}] /\ UNCHANGED pc
         ELSE my' = [my EXCEPT ![q].todo = @ \ {e}, ![q].event = e] /\ Goto(q, "flushBatch")
  /\ UNCHANGED <<created, command, refs, handles, queue, active>>

EventAwaited(q) ==
  /\ pc[q] = "awaited"
  /\ my' = [my EXCEPT ![q].failed = @ \/ command[my[q].event].status # "complete",
                      ![q].event = None]
  /\ Goto(q, "events")
  /\ UNCHANGED <<created, command, refs, handles, queue, active>>

(* The command joins the batch; it fails if an event did, else it is
   submitted, and a marker of type 0 flushes the batch. *)
Insert(q) ==
  LET c == my[q].taken IN
  /\ pc[q] = "events" /\ my[q].todo = {}
  /\ queue' = [queue EXCEPT ![q].batch = Append(@, c)]
  /\ \/ /\ my[q].failed
        /\ command' = [command EXCEPT ![c].status = "error"]
        /\ my' = [my EXCEPT ![q].cmd = c, ![q].taken = None]
        /\ Goto(q, "signal")
     \/ /\ ~my[q].failed
        /\ command' = [command EXCEPT ![c].status = "submitted"]
        /\ my' = [my EXCEPT ![q].taken = None]
        /\ Goto(q, IF command[c].kind = "user" THEN "dequeue" ELSE "flushBatch")
  /\ UNCHANGED <<created, refs, handles, active>>

SignalError(q) == /\ pc[q] = "signal" /\ command[my[q].cmd].status = "error"
                  /\ Signal(q, <<>>, "dequeue") /\ UNCHANGED queue

(* flush() of the virtual device waits for the device, then completes the
   batch command by command; one that failed only leaves it. *)
CompleteHead(q) ==
  LET c == Head(queue[q].batch) IN
  /\ pc[q] = "flushBatch" /\ queue[q].batch # <<>>
  /\ IF command[c].status = "submitted"
       THEN Settle(q, c, "complete") /\ UNCHANGED <<refs, queue>>
       ELSE /\ queue' = [queue EXCEPT ![q].batch = Tail(@)]
            /\ Release(<<c>>)
            /\ UNCHANGED <<command, pc, my>>
  /\ UNCHANGED <<created, handles, active>>

SignalHead(q) == /\ pc[q] = "signal" /\ command[my[q].cmd].status = "complete"
                 /\ Signal(q, <<my[q].cmd>>, "flushBatch")
                 /\ queue' = [queue EXCEPT ![q].batch = Tail(@)]

(* The batch was flushed for an event of another queue, or for its marker. *)
BatchFlushed(q) ==
  /\ pc[q] = "flushBatch" /\ queue[q].batch = <<>>
  /\ Goto(q, IF my[q].event # None THEN "await" ELSE "dequeue")
  /\ UNCHANGED <<created, command, refs, handles, queue, active, my>>

----------------------------------------
(* finish() and terminate() *)

(* The commands whose enqueue() on queue q has returned. *)
Enqueued(q) == {c \in 1..created : /\ command[c].queue = q /\ command[c].kind = "user"
                                   /\ \A t \in Clients : my[t].cmd # c}

(* The locals of client t when it begins an operation on queue q. *)
Begin(t, what, q) == [my[t] EXCEPT !.op = what, !.on = q, !.due = Enqueued(q)]

SendMarker(t, what, q) ==
  /\ New(t, "finish", q, {})
  /\ my' = [my EXCEPT ![t] = [Begin(t, what, q) EXCEPT !.cmd = created + 1]]

(* OpenCL always sends a marker.  HIP awaits the last command itself, unless
   the fence is dirty, which the device decides. *)
FinishWithMarker(t, q) ==
  /\ "finish" \in Operations
  /\ pc[t] = "idle" /\ Open(q)
  /\ ~IsHip \/ queue[q].last # None
  /\ SendMarker(t, "finish", q)
  /\ UNCHANGED <<handles, queue, active>>

FinishLast(t, q) ==
  /\ "finish" \in Operations
  /\ pc[t] = "idle" /\ Open(q)
  /\ IsHip /\ queue[q].last # None
  /\ Retain(queue[q].last)
  /\ my' = [my EXCEPT ![t] = [Begin(t, "finish", q) EXCEPT !.event = queue[q].last]]
  /\ Goto(t, "await")
  /\ UNCHANGED <<created, command, handles, queue, active>>

(* HIP: nothing was submitted since the last finish(). *)
FinishIdle(t, q) ==
  /\ "finish" \in Operations
  /\ pc[t] = "idle" /\ Open(q)
  /\ IsHip /\ queue[q].last = None
  /\ my' = [my EXCEPT ![t] = Begin(t, "finish", q)]
  /\ Goto(t, "finished")
  /\ UNCHANGED <<created, command, refs, handles, queue, active>>

(* After the wait HIP clears the last command, if it is still this one. *)
ClearLast(t) ==
  LET c == my[t].event
      q == my[t].on
  IN /\ pc[t] = "awaited" /\ my[t].op = "finish"
     /\ IF IsHip /\ queue[q].last = c
          THEN /\ queue' = [queue EXCEPT ![q].last = None]
               /\ active' = active \ {q}
               /\ Release(<<c, c>>)
          ELSE Release(<<c>>) /\ UNCHANGED <<queue, active>>
     /\ my' = [my EXCEPT ![t].event = None]
     /\ Goto(t, "finished")
     /\ UNCHANGED <<created, command, handles>>

FinishReturns(t) ==
  /\ pc[t] = "finished"
  /\ Goto(t, "idle")
  /\ my' = [my EXCEPT ![t].op = "none", ![t].on = None, ![t].due = {}]
  /\ UNCHANGED <<created, command, refs, handles, queue, active>>

(* The last reference to the queue is gone, so no other client is in a call
   on it.  HIP sends no marker to a queue without a last command. *)
Terminate(t, q) ==
  /\ "terminate" \in Operations
  /\ pc[t] = "idle" /\ Open(q)
  /\ \A u \in Clients \ {t} : q \notin Streams[u] \/ pc[u] = "idle"
  /\ EarlyRelease \/ ~AwaitedBySomebody(q)
  /\ IF ~IsHip \/ queue[q].last # None
       THEN SendMarker(t, "terminate", q)
       ELSE /\ my' = [my EXCEPT ![t] = Begin(t, "terminate", q)]
            /\ Goto(t, "stop")
            /\ UNCHANGED <<created, command, refs>>
  /\ UNCHANGED <<handles, queue, active>>

DropFinalMarker(t) ==
  /\ pc[t] = "awaited" /\ my[t].op = "terminate"
  /\ Release(<<my[t].event>>)
  /\ my' = [my EXCEPT ![t].event = None]
  /\ Goto(t, "stop")
  /\ UNCHANGED <<created, command, handles, queue, active>>

(* acceptingCommands_ = false and notify(), so that the worker can leave. *)
Stop(t) ==
  /\ pc[t] = "stop"
  /\ queue' = [queue EXCEPT ![my[t].on].accepting = FALSE]
  /\ Notify(my[t].on, t, "join")
  /\ UNCHANGED <<created, command, refs, handles, active, my>>

(* The worker thread is gone: removeFromActiveQueues(). *)
Join(t) ==
  /\ pc[t] = "join" /\ pc[my[t].on] = "exited"
  /\ active' = active \ {my[t].on}
  /\ Goto(t, "finished")
  /\ UNCHANGED <<created, command, refs, handles, queue, my>>

----------------------------------------
Worker(q) == \/ Take(q) \/ FindNothing(q) \/ NextEvent(q) \/ EventAwaited(q) \/ Insert(q)
             \/ SignalError(q) \/ CompleteHead(q) \/ SignalHead(q) \/ BatchFlushed(q)

(* The steps of the calls that both clients and workers make. *)
InCall(p) == \/ AppendCommand(p) \/ SwapLast(p) \/ DropLast(p) \/ Flush(p)
             \/ FindDone(p) \/ NotifyCmdQueue(p) \/ DropMarker(p) \/ Sleep(p)

ClientStep(t) == \/ AwaitReturns(t) \/ SignalUserEvent(t) \/ ClearLast(t) \/ FinishReturns(t)
                 \/ DropFinalMarker(t) \/ Stop(t) \/ Join(t)

(* What the application does next. *)
Call(t) ==
  \/ CreateUserEvent(t)
  \/ \E c \in handles : \/ ReleaseHandle(t, c) \/ Await(t, c)
                        \/ SetUserEvent(t, c, "complete") \/ SetUserEvent(t, c, "error")
  \/ \E q \in Streams[t] :
       \/ \E W \in SUBSET handles : Create(t, q, W)
       \/ FinishWithMarker(t, q) \/ FinishLast(t, q) \/ FinishIdle(t, q) \/ Terminate(t, q)

Next == \/ \E t \in Clients : Call(t) \/ ClientStep(t) \/ InCall(t)
        \/ \E q \in Queues : Worker(q) \/ InCall(q)

Spec == Init /\ [][Next]_vars

(* Threads inside the runtime keep running; the application need not. *)
Fairness == /\ \A q \in Queues : WF_vars(Worker(q) \/ InCall(q))
            /\ \A t \in Clients : WF_vars(ClientStep(t) \/ InCall(t))

FairSpec == Spec /\ Fairness

----------------------------------------
(* Properties *)

(* "Finish all queued commands": when finish() or terminate() ends, every
   command whose enqueue() had returned before it began is done. *)
FinishMeansDone == \A t \in Clients : pc[t] = "finished" => \A c \in my[t].due : Done(c)

(* Reference counts, over every interleaving: no command is deleted while
   the application, a queue, a batch, the last command pointer or a thread
   can still reach it; at rest only the application, which has yet to set
   its user events, a last command and a wait list keep a command ("It will
   be released when its status changes to CL_COMPLETE"); and nobody appends
   to a queue whose terminate() is over but a thread that sends the marker
   of notifyCmdQueue() to the queue of the event it waits for, and only
   where the application drops queues that are waited for; the marker stays
   in the queue. *)
Reachable ==
  handles
  \cup UNION {{queue[q].last} \cup {queue[q].fifo[i] : i \in DOMAIN queue[q].fifo}
              \cup {queue[q].batch[i] : i \in DOMAIN queue[q].batch} : q \in Queues}
  \cup UNION {{my[p].cmd, my[p].prev, my[p].event, my[p].taken} \cup my[p].todo : p \in Threads}

NoUseAfterFree == \A c \in Reachable \ {None} : refs[c] > 0

AtRest == /\ \A t \in Clients : pc[t] = "idle"
          /\ \A q \in Queues : pc[q] \in {"asleep", "exited"} /\ queue[q].batch = <<>>

Deleted(q) == pc[q] = "exited" /\ \A t \in Clients : pc[t] # "join" \/ my[t].on # q

NoLeak ==
  AtRest => \A c \in AllCommands : refs[c] > 0 =>
    c \in handles \cup {queue[q].last : q \in Queues}
          \cup UNION {command[d].waits : d \in {d \in AllCommands : refs[d] > 0}}
          \cup {e \in AllCommands : command[e].status = "submitted"}
          \cup {m \in AllCommands : /\ EarlyRelease /\ command[m].kind = "notify"
                                    /\ Deleted(command[m].queue)}

NoAppendAfterTerminate ==
  \A p \in Threads :
    LET c == my[p].cmd IN
    pc[p] \in {"append", "swapLast", "dropLast", "flush"} /\ Deleted(command[c].queue) =>
      /\ EarlyRelease /\ command[c].kind = "notify"
      /\ command[my[p].event].queue = command[c].queue

Lifetimes == NoUseAfterFree /\ NoLeak /\ NoAppendAfterTerminate

(* "the queues that have at least one submitted command": a queue with a
   last command is in the active set, or about to be added to it. *)
ActiveWhenPending ==
  \A q \in Queues : queue[q].last # None /\ queue[q].accepting /\ q \notin active =>
    \E p \in Threads : /\ pc[p] = "dropLast" /\ my[p].prev = None
                       /\ command[my[p].cmd].queue = q

(* The worker sleeps beside a command only when an append() is about to
   notify it. *)
NoMissedCommand ==
  \A q \in Queues : pc[q] = "asleep" /\ queue[q].fifo # <<>> =>
    \E p \in Threads : /\ pc[p] \in {"swapLast", "dropLast", "flush"}
                       /\ command[my[p].cmd].queue = q

(* Somebody sleeps on an event that is done only when it is about to be
   signalled. *)
NoMissedSignal ==
  \A p \in Threads : pc[p] = "waiting" /\ Done(my[p].event) =>
    \E u \in Threads : pc[u] = "signal" /\ my[u].cmd = my[p].event

(* No thread of the runtime sleeps beside what it waits for: neither the
   worker in loop() nor a thread in awaitCompletion(). *)
NoMissedWakeup == NoMissedCommand /\ NoMissedSignal

(* The commands of a queue come to their outcomes in order, each after the
   events it waits for, and fail exactly if an event of another queue did. *)
Abs == INSTANCE AbstractHostQueue WITH
  order   <- [q \in Queues |-> queue[q].order],
  waits   <- [c \in AllCommands |-> command[c].waits],
  queueOf <- [c \in AllCommands |-> command[c].queue],
  outcome <- [c \in AllCommands |-> IF Done(c) THEN command[c].status ELSE "pending"]
InOrder == Abs!Spec

(* awaitCompletion(), finish() and terminate() return, where no user event
   holds a queue up. *)
CallsReturn == \A t \in Clients : pc[t] # "idle" ~> pc[t] = "idle"
=============================================================================
