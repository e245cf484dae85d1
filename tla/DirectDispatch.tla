--------------------------- MODULE DirectDispatch ---------------------------
(***************************************************************************)
(* HIP with direct dispatch, its default on Linux: Command::enqueue() sends *)
(* packets to the GPU from the calling thread, and a handler thread of the  *)
(* HSA runtime completes the commands batch by batch when the signal of the *)
(* marker that closed the batch falls (rocclr/platform/command.cpp,         *)
(* commandqueue.*, rocclr/device/rocm/rocvirtual.cpp).                      *)
(*                                                                         *)
(* The GPU is external: it runs the packets of a queue in order, each after *)
(* the signals it depends on.  Critical sections that may block inside, of  *)
(* execution() and of notify_lock_, are explicit; lock_ of an event is not  *)
(* (HostQueue has its wait and signal).                                     *)
(***************************************************************************)
EXTENDS Integers, Sequences, FiniteSets

CONSTANTS Queues,
          Clients,
          Streams,      \* the queues each client submits to
          Operations,   \* what the application calls
          Handler,      \* the thread of the HSA runtime that calls the handlers
          MaxBatch,     \* DEBUG_CLR_MAX_BATCH_SIZE
          MaxCommands,  \* bound: calls that create a command
          None

ASSUME DirectDispatchAssumption ==
  /\ Streams \in [Clients -> SUBSET Queues]
  /\ Handler \notin Clients /\ None \notin Clients \cup Queues \cup {Handler}
  /\ Operations \subseteq {"launch", "copy", "record", "streamWait", "waitStream",
                           "finish", "terminate"}
  /\ MaxBatch \in Nat /\ MaxCommands \in Nat /\ None \notin 1..2 * MaxCommands

Threads == Clients \cup {Handler}

(* The n-th call that may create a command creates n; the marker of
   notifyCmdQueue() for it is NotifyMarker(n). *)
Commands        == 1..MaxCommands
NotifyMarker(c) == MaxCommands + c
AllCommands     == 1..2 * MaxCommands
Optional        == AllCommands \cup {None}

VARIABLES
  created,     \* the calls so far
  command,     \* per command: queue_, eventWaitList_, status_, notified_, ...
  refs,        \* referenceCount_; 0 once the command is deleted
  handles,     \* the commands of recorded HIP events
  queue,       \* per queue: lastEnqueueCommand_, head_, tail_, size_, the AQL ring
  active,      \* Device::activeQueues
  execution,   \* who holds execution() of each queue's virtual device
  notifyLock,  \* who holds notify_lock_ of each event
  armed,       \* the markers whose signal has a handler that has not run
  ran,         \* the commands whose packets the GPU has finished
  pc, my       \* where each thread is, and the locals of the call it is in

locks == <<execution, notifyLock>>
gpu   == <<armed, ran>>
vars  == <<created, command, refs, handles, queue, active, locks, gpu, pc, my>>

(* A kernel or copy; an event marker, which leaves the batch open; a marker
   that closes it; and one that waits on the CPU instead of sending a packet. *)
Kinds == {"work", "record", "marker", "cpuWait"}

CommandObject == [kind : Kinds, queue : Queues \cup {None}, waits : SUBSET AllCommands,
                  status : {"new", "queued", "submitted", "complete"},
                  notified : BOOLEAN,
                  hwEvent : BOOLEAN,          \* hw_event_ is the signal of its packet
                  notifyEvent : Optional, next : Optional, batchHead : Optional,
                  deps : SUBSET AllCommands]  \* whose signals its packet waits for

QueueObject == [last : Optional, head : Optional, tail : Optional, size : Nat,
                ring : Seq(AllCommands), open : BOOLEAN]

Labels == {"idle", "waitList", "notify", "form", "submit", "complete", "advance", "reset",
           "notified", "unlock", "enqueued", "waitMarker", "fence", "hwWait", "await",
           "sleep", "clear", "finished"}

Locals == [op : Operations \cup {"none"}, on : Queues \cup {None},
           due : SUBSET AllCommands,  \* what finish() has to wait for (history)
           cmd : Optional,            \* the command of this call
           marker : Optional,         \* the marker of notifyCmdQueue()
           todo : SUBSET AllCommands, \* the events enqueue() has yet to notify
           event : Optional,          \* the event of notifyCmdQueue()
           then : Labels,             \* where that call was made
           held : Optional,           \* a command retained by this call
           cursor : Optional]         \* where updateCommandsState() is

TypeOK == /\ created \in 0..MaxCommands
          /\ command \in [AllCommands -> CommandObject]
          /\ refs \in [AllCommands -> Nat]
          /\ handles \subseteq Commands
          /\ queue \in [Queues -> QueueObject]
          /\ active \subseteq Queues
          /\ execution \in [Queues -> Clients \cup {None}]
          /\ notifyLock \in [AllCommands -> Clients \cup {None}]
          /\ armed \subseteq AllCommands /\ ran \subseteq AllCommands
          /\ pc \in [Threads -> Labels]
          /\ my \in [Threads -> Locals]

AtHome == [op |-> "none", on |-> None, due |-> {}, cmd |-> None, marker |-> None, todo |-> {},
           event |-> None, then |-> "idle", held |-> None, cursor |-> None]

Init ==
  /\ created = 0 /\ handles = {} /\ active = {} /\ armed = {} /\ ran = {}
  /\ command = [c \in AllCommands |->
       [kind |-> "work", queue |-> None, waits |-> {}, status |-> "new", notified |-> FALSE,
        hwEvent |-> FALSE, notifyEvent |-> None, next |-> None, batchHead |-> None, deps |-> {}]]
  /\ refs = [c \in AllCommands |-> 0]
  /\ queue = [q \in Queues |-> [last |-> None, head |-> None, tail |-> None, size |-> 0,
                                ring |-> <<>>, open |-> TRUE]]
  /\ execution = [q \in Queues |-> None]
  /\ notifyLock = [c \in AllCommands |-> None]
  /\ pc = [t \in Threads |-> "idle"]
  /\ my = [t \in Threads |-> AtHome]

Goto(t, label) == pc' = [pc EXCEPT ![t] = label]

Complete(c) == command[c].status = "complete"

(* The command a thread is submitting: a marker it sends on the way, or the
   command of its call. *)
Current(t) == IF my[t].marker # None THEN my[t].marker ELSE my[t].cmd
Here(t)    == command[Current(t)].queue

(* Mutant of HwEvent: the signal of the notifying marker is forgotten. *)
HwEventOwn(e) == IF command[e].hwEvent THEN e ELSE None

(* The signal that stands for an event: the one of its notifying marker, if
   there is such a marker, or its own. *)
HwEvent(e) ==
  LET n == command[e].notifyEvent
      s == IF n # None THEN n ELSE e
  IN IF command[s].hwEvent THEN s ELSE None

----------------------------------------
(* Reference counts *)

(* The counts after a list of releases: what dies releases the events of its
   wait list (Command::terminate()) and its notifying marker (~Event()). *)
Released(counts, list) ==
  LET left[c \in AllCommands] ==
        LET dead(d) == counts[d] > 0 /\ left[d] = 0
        IN counts[c] - Cardinality({i \in DOMAIN list : list[i] = c})
           - Cardinality({d \in AllCommands : c \in command[d].waits /\ dead(d)})
           - Cardinality({d \in AllCommands : c = command[d].notifyEvent /\ dead(d)})
  IN left

Release(list) == refs' = Released(refs, list)

Retained(c, n) == [refs EXCEPT ![c] = @ + n]

(* The constructor retains the events of the wait list. *)
New(c, W) == [d \in AllCommands |-> IF d = c THEN 1 ELSE IF d \in W THEN refs[d] + 1 ELSE refs[d]]

(* A new command, whose enqueue() sets CL_QUEUED at once. *)
Created(c, kind, q, W) ==
  [command EXCEPT ![c].kind = kind, ![c].queue = q, ![c].waits = W, ![c].status = "queued"]

----------------------------------------
(* Calls of the application *)

(* The application makes no call on a queue once it destroys it. *)
Open(q) == queue[q].open /\ \A u \in Clients : my[u].op = "terminate" => my[u].on # q

(* Client t calls an operation on queue q that may need a command. *)
Call(t, what, q) ==
  /\ what \in Operations /\ created < MaxCommands
  /\ pc[t] = "idle" /\ Open(q)
  /\ created' = created + 1

Locally(t, what, q) == [AtHome EXCEPT !.op = what, !.on = q, !.cmd = created + 1]

(* A kernel launch, a copy that is waited for, or hipEventRecord(). *)
Launch(t, what, q) ==
  /\ Call(t, what, q)
  /\ command' = Created(created + 1, IF what = "record" THEN "record" ELSE "work", q, {})
  /\ refs' = New(created + 1, {})
  /\ my' = [my EXCEPT ![t] = Locally(t, what, q)]
  /\ Goto(t, "waitList")
  /\ UNCHANGED <<handles, queue, active, locks, gpu>>

(* hipStreamWaitEvent() on a recorded event of another stream that is not
   ready: its notifyCmdQueue() has nothing to do, the event has a signal. *)
StreamWait(t, q, e) ==
  /\ Call(t, "streamWait", q)
  /\ command[e].queue # q /\ e \notin ran
  /\ command' = Created(created + 1, "marker", q, {e})
  /\ refs' = New(created + 1, {e})
  /\ my' = [my EXCEPT ![t] = [Locally(t, "streamWait", q) EXCEPT !.todo = {e}]]
  /\ Goto(t, "waitList")
  /\ UNCHANGED <<handles, queue, active, locks, gpu>>

(* WaitActiveStreams() for one other stream p: the last command of p, which
   getLastQueuedCommand() retains under execution(), if it is not ready ... *)
WaitStream(t, q, p) ==
  LET e == queue[p].last IN
  /\ Call(t, "waitStream", q)
  /\ p # q /\ Open(p) /\ execution[p] = None
  /\ e # None /\ ~Complete(e) /\ HwEvent(e) \notin ran
  /\ refs' = Retained(e, 1)
  /\ my' = [my EXCEPT ![t] = [Locally(t, "waitStream", q) EXCEPT !.held = e, !.event = e,
                                                              !.then = "waitMarker"]]
  /\ Goto(t, "notify")
  /\ UNCHANGED <<command, handles, queue, active, locks, gpu>>

(* ... is notified and then waited for by a marker. *)
WaitMarker(t) ==
  LET e == my[t].held IN
  /\ pc[t] = "waitMarker"
  /\ command' = Created(my[t].cmd, "marker", my[t].on, {e})
  /\ refs' = New(my[t].cmd, {e})
  /\ my' = [my EXCEPT ![t].todo = {e}]
  /\ Goto(t, "waitList")
  /\ UNCHANGED <<created, handles, queue, active, locks, gpu>>

(* The HIP event is destroyed, or recorded again. *)
ReleaseHandle(t, e) ==
  /\ pc[t] = "idle"
  /\ handles' = handles \ {e}
  /\ Release(<<e>>)
  /\ UNCHANGED <<created, command, queue, active, locks, gpu, pc, my>>

(* The packets on their way to the GPU, which finish() has to wait for. *)
Pending(q) == {queue[q].ring[i] : i \in DOMAIN queue[q].ring}

(* finish() takes the last command ... *)
Finish(t, q) ==
  /\ Call(t, "finish", q)
  /\ execution[q] = None /\ queue[q].last # None
  /\ refs' = Retained(queue[q].last, 1)
  /\ my' = [my EXCEPT ![t] = [Locally(t, "finish", q) EXCEPT !.held = queue[q].last,
                                                          !.due = Pending(q)]]
  /\ Goto(t, "fence")
  /\ UNCHANGED <<command, handles, queue, active, locks, gpu>>

FinishIdle(t, q) ==
  /\ "finish" \in Operations
  /\ pc[t] = "idle" /\ Open(q)
  /\ execution[q] = None /\ queue[q].last = None
  /\ my' = [my EXCEPT ![t] = [AtHome EXCEPT !.op = "finish", !.on = q, !.due = Pending(q)]]
  /\ Goto(t, "finished")
  /\ UNCHANGED <<created, command, refs, handles, queue, active, locks, gpu>>

(* Mutant of Fence: no marker although a batch is open. *)
FenceIgnored(t) ==
  /\ pc[t] = "fence"
  /\ my' = [my EXCEPT ![t].cmd = None]
  /\ Goto(t, "hwWait")
  /\ UNCHANGED <<created, command, refs, handles, queue, active, locks, gpu>>

(* ... and a marker instead if a batch is open or the fence dirty, which the
   device decides. *)
Fence(t) ==
  /\ pc[t] = "fence"
  /\ \/ /\ command' = Created(my[t].cmd, "marker", my[t].on, {})
        /\ refs' = Released(New(my[t].cmd, {}), <<my[t].held>>)
        /\ my' = [my EXCEPT ![t].held = my[t].cmd]
        /\ Goto(t, "waitList")
     \/ /\ queue[my[t].on].head = None
        /\ my' = [my EXCEPT ![t].cmd = None]
        /\ Goto(t, "hwWait")
        /\ UNCHANGED <<command, refs>>
  /\ UNCHANGED <<created, handles, queue, active, locks, gpu>>

(* IsHwEventReady() with a wait: the signal falls, and finish() leaves the
   last command in place. *)
SignalFalls(t) ==
  /\ pc[t] = "hwWait" /\ HwEvent(my[t].held) \in ran
  /\ Release(<<my[t].held>>)
  /\ my' = [my EXCEPT ![t].held = None]
  /\ Goto(t, "finished")
  /\ UNCHANGED <<created, command, handles, queue, active, locks, gpu>>

(* terminate() of a queue nobody else uses: with an open batch the last
   command, retained, is replaced by a marker. *)
Terminate(t, q) ==
  LET marker == queue[q].head # None IN
  /\ Call(t, "terminate", q)
  /\ execution[q] = None /\ queue[q].last # None
  /\ \A u \in Clients \ {t} : my[u].on # q /\ (my[u].held # None => command[my[u].held].queue # q)
  /\ my' = [my EXCEPT ![t] = [Locally(t, "terminate", q) EXCEPT
                                !.due = Pending(q),
                                !.held = IF marker THEN created + 1 ELSE queue[q].last]]
  /\ IF marker
       THEN /\ command' = Created(created + 1, "marker", q, {})
            /\ refs' = [New(created + 1, {}) EXCEPT ![queue[q].last] = @ + 1]
            /\ Goto(t, "waitList")
       ELSE /\ refs' = Retained(queue[q].last, 1)
            /\ Goto(t, "await")
            /\ UNCHANGED command
  /\ UNCHANGED <<handles, queue, active, locks, gpu>>

----------------------------------------
(* Command::enqueue() *)

(* The events of the wait list are notified, one after the other. *)
WaitList(t) ==
  /\ pc[t] = "waitList"
  /\ \E e \in my[t].todo :
       my' = [my EXCEPT ![t].todo = @ \ {e}, ![t].event = e, ![t].then = "waitList"]
  /\ Goto(t, "notify")
  /\ UNCHANGED <<created, command, refs, handles, queue, active, locks, gpu>>

(* notifyCmdQueue() under notify_lock_: an unfinished event without a signal
   gets a marker after it, once; the marker waits on the CPU when its sender
   is about to. *)
Notify(t) ==
  LET e == my[t].event
      m == NotifyMarker(e)
  IN /\ pc[t] = "notify" /\ notifyLock[e] = None
     /\ IF ~Complete(e) /\ ~command[e].hwEvent /\ ~command[e].notified
          THEN /\ notifyLock' = [notifyLock EXCEPT ![e] = t]
               /\ command' = [Created(m, IF my[t].then = "sleep" THEN "cpuWait" ELSE "marker",
                                      command[e].queue, {}) EXCEPT ![e].notified = TRUE]
               /\ refs' = New(m, {})
               /\ my' = [my EXCEPT ![t].marker = m]
               /\ Goto(t, "form")
          ELSE /\ my' = [my EXCEPT ![t].event = None]
               /\ Goto(t, my[t].then)
               /\ UNCHANGED <<command, refs, notifyLock>>
     /\ UNCHANGED <<created, handles, queue, active, execution, gpu>>

(* Mutant of Form: one reference for the batch. *)
FormSingleRetain(t) ==
  LET c == Current(t)
      q == Here(t)
      o == queue[q]
  IN /\ pc[t] = "form" \/ (pc[t] = "waitList" /\ my[t].todo = {})
     /\ execution[q] \in {None, t}
     /\ execution' = [execution EXCEPT ![q] = t]
     /\ queue' = [queue EXCEPT ![q].head = IF @ = None THEN c ELSE @, ![q].tail = c,
                               ![q].size = @ + 1, ![q].last = c]
     /\ command' = [d \in AllCommands |->
          IF d = c THEN [command[d] EXCEPT !.status = "submitted"]
          ELSE IF d = o.tail /\ o.head # None THEN [command[d] EXCEPT !.next = c]
          ELSE command[d]]
     /\ IF o.last # None
          THEN refs' = Released(Retained(c, 2), <<o.last>>) /\ UNCHANGED active
          ELSE refs' = Retained(c, 2) /\ active' = active \cup {q}
     /\ Goto(t, "submit")
     /\ UNCHANGED <<created, handles, notifyLock, gpu, my>>

(* execution() is taken; FormSubmissionBatch(): the batch holds a command
   twice, the queue holds its last one. *)
Form(t) ==
  LET c == Current(t)
      q == Here(t)
      o == queue[q]
  IN /\ pc[t] = "form" \/ (pc[t] = "waitList" /\ my[t].todo = {})
     /\ execution[q] \in {None, t}
     /\ execution' = [execution EXCEPT ![q] = t]
     /\ queue' = [queue EXCEPT ![q].head = IF @ = None THEN c ELSE @, ![q].tail = c,
                               ![q].size = @ + 1, ![q].last = c]
     /\ command' = [d \in AllCommands |->
          IF d = c THEN [command[d] EXCEPT !.status = "submitted"]
          ELSE IF d = o.tail /\ o.head # None THEN [command[d] EXCEPT !.next = c]
          ELSE command[d]]
     /\ IF o.last # None
          THEN refs' = Released(Retained(c, 3), <<o.last>>) /\ UNCHANGED active
          ELSE refs' = Retained(c, 3) /\ active' = active \cup {q}
     /\ Goto(t, "submit")
     /\ UNCHANGED <<created, handles, notifyLock, gpu, my>>

(* profilingBegin(): the signals of the events become dependencies. *)
Deps(c) == {HwEvent(e) : e \in command[c].waits} \ {None}

(* submit(): a packet for the GPU.  A marker is told where its batch begins
   and gets a handler; an event marker has a signal too. *)
SubmitPacket(t) ==
  LET c == Current(t)
      q == Here(t)
      k == command[c].kind
  IN /\ pc[t] = "submit" /\ k # "cpuWait"
     /\ queue' = [queue EXCEPT ![q].ring = Append(@, c)]
     /\ command' = [command EXCEPT ![c].deps = Deps(c), ![c].hwEvent = k # "work",
                                   ![c].batchHead = IF k = "marker" THEN queue[q].head ELSE None]
     /\ armed' = IF k = "marker" THEN armed \cup {c} ELSE armed
     /\ \/ /\ k = "marker"
           /\ Goto(t, "reset") /\ UNCHANGED <<execution, my>>
        \/ /\ k # "marker" /\ queue[q].size <= MaxBatch
           /\ execution' = [execution EXCEPT ![q] = None]
           /\ Goto(t, "enqueued") /\ UNCHANGED my
        \/ /\ k # "marker" /\ queue[q].size > MaxBatch       \* FlushSubmissionBatch()
           /\ my' = [my EXCEPT ![t].event = c, ![t].then = "unlock"]
           /\ Goto(t, "notify") /\ UNCHANGED execution
     /\ UNCHANGED <<created, refs, handles, active, notifyLock, ran>>

(* Mutant of SubmitCpuWait: flush() does not wait for the GPU. *)
SubmitCpuWaitEarly(t) ==
  LET c == Current(t)
      o == queue[Here(t)]
  IN /\ pc[t] = "submit" /\ command[c].kind = "cpuWait"
     /\ command' = [command EXCEPT ![c].batchHead = o.head]
     /\ my' = [my EXCEPT ![t].cursor = o.head]
     /\ Goto(t, "complete")
     /\ UNCHANGED <<created, refs, handles, queue, active, locks, gpu>>

(* submit() of a marker that waits on the CPU: flush() of the device waits
   for the GPU and completes the batch, all under execution(). *)
SubmitCpuWait(t) ==
  LET c == Current(t)
      o == queue[Here(t)]
  IN /\ pc[t] = "submit" /\ command[c].kind = "cpuWait" /\ o.ring = <<>>
     /\ command' = [command EXCEPT ![c].batchHead = o.head]
     /\ my' = [my EXCEPT ![t].cursor = o.head]
     /\ Goto(t, "complete")
     /\ UNCHANGED <<created, refs, handles, queue, active, locks, gpu>>

(* Mutant of Reset: the head of the batch stays. *)
ResetKeepsHead(t) ==
  LET q == Here(t) IN
  /\ pc[t] = "reset"
  /\ queue' = [queue EXCEPT ![q].size = 0]
  /\ IF my[t].marker # None
       THEN /\ execution' = [execution EXCEPT ![q] = IF my[t].then = "unlock" THEN t ELSE None]
            /\ Goto(t, "notified")
       ELSE /\ execution' = [execution EXCEPT ![q] = None]
            /\ Goto(t, "enqueued")
  /\ UNCHANGED <<created, command, refs, handles, active, notifyLock, gpu, my>>

(* ResetSubmissionBatch(), and execution() is left, unless enqueue() of the
   command of this call still holds it. *)
Reset(t) ==
  LET q == Here(t) IN
  /\ pc[t] = "reset"
  /\ queue' = [queue EXCEPT ![q].head = None, ![q].size = 0]
  /\ IF my[t].marker # None
       THEN /\ execution' = [execution EXCEPT ![q] = IF my[t].then = "unlock" THEN t ELSE None]
            /\ Goto(t, "notified")
       ELSE /\ execution' = [execution EXCEPT ![q] = None]
            /\ Goto(t, "enqueued")
  /\ UNCHANGED <<created, command, refs, handles, active, notifyLock, gpu, my>>

(* The event keeps the marker, and notify_lock_ is left. *)
Notified(t) ==
  LET e == my[t].event IN
  /\ pc[t] = "notified"
  /\ command' = [command EXCEPT ![e].notifyEvent = my[t].marker]
  /\ notifyLock' = [notifyLock EXCEPT ![e] = None]
  /\ my' = [my EXCEPT ![t].event = None, ![t].marker = None]
  /\ Goto(t, my[t].then)
  /\ UNCHANGED <<created, refs, handles, queue, active, execution, gpu>>

Unlock(t) ==
  /\ pc[t] = "unlock"
  /\ execution' = [execution EXCEPT ![Here(t)] = None]
  /\ Goto(t, "enqueued")
  /\ UNCHANGED <<created, command, refs, handles, queue, active, notifyLock, gpu, my>>

(* enqueue() has returned to the call. *)
Enqueued(t) ==
  LET c == my[t].cmd IN
  /\ pc[t] = "enqueued"
  /\ \/ /\ my[t].op \in {"launch", "streamWait", "waitStream"}
        /\ Release(IF my[t].held = None THEN <<c>> ELSE <<c, my[t].held>>)
        /\ my' = [my EXCEPT ![t] = AtHome]
        /\ Goto(t, "idle")
        /\ UNCHANGED handles
     \/ /\ my[t].op = "record"
        /\ handles' = handles \cup {c}
        /\ my' = [my EXCEPT ![t] = AtHome]
        /\ Goto(t, "idle")
        /\ UNCHANGED refs
     \/ /\ my[t].op \in {"copy", "finish", "terminate"}
        /\ my' = [my EXCEPT ![t].held = c, ![t].cmd = None]
        /\ Goto(t, IF my[t].op = "finish" THEN "hwWait" ELSE "await")
        /\ UNCHANGED <<refs, handles>>
  /\ UNCHANGED <<created, command, queue, active, locks, gpu>>

----------------------------------------
(* awaitCompletion() and what follows it *)

(* awaitCompletion(); finish() comes here when there is no signal or its
   caller wants to wait on the CPU. *)
Await(t) ==
  /\ pc[t] \in {"await", "hwWait"}
  /\ IF Complete(my[t].held)
       THEN Goto(t, "clear") /\ UNCHANGED my
       ELSE /\ my' = [my EXCEPT ![t].event = my[t].held, ![t].then = "sleep"]
            /\ Goto(t, "notify")
  /\ UNCHANGED <<created, command, refs, handles, queue, active, locks, gpu>>

WakeUp(t) ==
  /\ pc[t] = "sleep" /\ Complete(my[t].held)
  /\ Goto(t, "clear")
  /\ UNCHANGED <<created, command, refs, handles, queue, active, locks, gpu, my>>

(* finish() clears the last command if it is still this one, under
   execution(); terminate() in any case; a copy only drops its command. *)
Clear(t) ==
  LET c == my[t].held
      q == my[t].on
      ends == my[t].op = "terminate"
      clears == ends \/ (my[t].op = "finish" /\ queue[q].last = c)
  IN /\ pc[t] = "clear" /\ (my[t].op = "finish" => execution[q] = None)
     /\ queue' = [queue EXCEPT ![q].last = IF clears THEN None ELSE @, ![q].open = ~ends]
     /\ active' = IF clears THEN active \ {q} ELSE active
     /\ Release(IF clears THEN <<c, queue[q].last>> ELSE <<c>>)
     /\ my' = [my EXCEPT ![t].held = None]
     /\ Goto(t, "finished")
     /\ UNCHANGED <<created, command, handles, locks, gpu>>

Return(t) ==
  /\ pc[t] = "finished"
  /\ my' = [my EXCEPT ![t] = AtHome]
  /\ Goto(t, "idle")
  /\ UNCHANGED <<created, command, refs, handles, queue, active, locks, gpu>>

----------------------------------------
(* The GPU, the handler thread, and updateCommandsState() *)

Execute(q) ==
  /\ queue[q].ring # <<>> /\ command[Head(queue[q].ring)].deps \subseteq ran
  /\ ran' = ran \cup {Head(queue[q].ring)}
  /\ queue' = [queue EXCEPT ![q].ring = Tail(@)]
  /\ UNCHANGED <<created, command, refs, handles, active, locks, armed, pc, my>>

(* HsaAmdSignalHandler() for a marker; handlers may come in any order. *)
SignalHandler(m) ==
  /\ pc[Handler] = "idle" /\ m \in armed \cap ran
  /\ armed' = armed \ {m}
  /\ my' = [my EXCEPT ![Handler].cursor = command[m].batchHead]
  /\ Goto(Handler, "complete")
  /\ UNCHANGED <<created, command, refs, handles, queue, active, locks, ran>>

(* setStatus(CL_COMPLETE) drops one of the batch's references ... *)
SetComplete(t) ==
  LET c == my[t].cursor IN
  /\ pc[t] = "complete"
  /\ command' = [command EXCEPT ![c].status = "complete"]
  /\ Release(<<c>>)
  /\ Goto(t, "advance")
  /\ UNCHANGED <<created, handles, queue, active, locks, gpu, my>>

(* Mutant of Advance: the loop drops a reference too many. *)
AdvanceDropsTwo(t) ==
  LET c == my[t].cursor
      n == command[c].next
  IN /\ pc[t] = "advance"
     /\ my' = [my EXCEPT ![t].cursor = n]
     /\ Release(<<c, c>>)
     /\ Goto(t, IF n # None THEN "complete" ELSE IF t = Handler THEN "idle" ELSE "reset")
     /\ UNCHANGED <<created, command, handles, queue, active, locks, gpu>>

(* ... and the loop the other, after it has read the next command. *)
Advance(t) ==
  LET c == my[t].cursor
      n == command[c].next
  IN /\ pc[t] = "advance"
     /\ my' = [my EXCEPT ![t].cursor = n]
     /\ Release(<<c>>)
     /\ Goto(t, IF n # None THEN "complete" ELSE IF t = Handler THEN "idle" ELSE "reset")
     /\ UNCHANGED <<created, command, handles, queue, active, locks, gpu>>

----------------------------------------
Update(t) == SetComplete(t) \/ Advance(t)

InCall(t) ==
  \/ WaitMarker(t) \/ Fence(t) \/ SignalFalls(t)
  \/ WaitList(t) \/ Notify(t) \/ Form(t) \/ SubmitPacket(t) \/ SubmitCpuWait(t)
  \/ Reset(t) \/ Notified(t) \/ Unlock(t) \/ Enqueued(t)
  \/ Await(t) \/ WakeUp(t) \/ Clear(t) \/ Return(t) \/ Update(t)

Application(t) ==
  \/ \E e \in handles : ReleaseHandle(t, e)
  \/ \E q \in Streams[t] :
       \/ \E what \in {"launch", "copy", "record"} : Launch(t, what, q)
       \/ \E e \in handles : StreamWait(t, q, e)
       \/ \E p \in Queues : WaitStream(t, q, p)
       \/ Finish(t, q) \/ FinishIdle(t, q) \/ Terminate(t, q)

HandlerStep == Update(Handler) \/ \E m \in AllCommands : SignalHandler(m)

Next == \/ \E t \in Clients : Application(t) \/ InCall(t)
        \/ HandlerStep
        \/ \E q \in Queues : Execute(q)

Spec == Init /\ [][Next]_vars

----------------------------------------
(* Properties *)

(* finish() and terminate() return only when the GPU has run every packet
   that was in the queue when they took its last command. *)
FinishMeansExecuted == \A t \in Clients : pc[t] = "finished" => my[t].due \subseteq ran

(* The GPU runs a packet after the events its command waits for, on whatever
   queue, even where an event got its signal from a marker sent later; and a
   status is complete only when the packet has run, although statuses are
   set by handlers in any order and by threads that wait on the CPU. *)
WaitsRespected        == \A c \in ran : command[c].waits \subseteq ran
CompleteMeansExecuted ==
  \A c \in AllCommands : Complete(c) /\ command[c].kind # "cpuWait" => c \in ran
ExecutionOrder        == WaitsRespected /\ CompleteMeansExecuted

(* The commands of a batch from its head on. *)
Batch(h) ==
  LET from[c \in AllCommands] ==
        {c} \cup (IF command[c].next = None THEN {} ELSE from[command[c].next])
  IN IF h = None THEN {} ELSE from[h]

(* The batches: one may be open per queue, one belongs to each marker whose
   handler has not run, and one is what is left of a list being walked.
   While Reset() is due, the open batch is also the marker's. *)
Resetting(q) == \E t \in Clients : execution[q] = t /\ pc[t] \in {"reset", "complete", "advance"}
OpenBatch(q) == IF Resetting(q) THEN {} ELSE Batch(queue[q].head)
BatchesOf(c) == {<<"open", q>> : q \in {q \in Queues : c \in OpenBatch(q)}}
                \cup {<<"closed", m>> : m \in {m \in armed : c \in Batch(command[m].batchHead)}}
                \cup {<<"walked", t>> : t \in {t \in Threads : c \in Batch(my[t].cursor)}}

(* A submitted command is in one batch, so it is completed once, and its two
   references are dropped once. *)
OneBatch == \A c \in AllCommands : command[c].status = "submitted" => Cardinality(BatchesOf(c)) = 1

(* Somebody can still reach command c. *)
InUse(c) ==
  \/ c \in handles \/ BatchesOf(c) # {} \/ \E q \in Queues : queue[q].last = c
  \/ \E t \in Clients : \/ c \in {my[t].marker, my[t].event, my[t].held, my[t].cursor}
                        \/ c \in my[t].todo
                        \/ c = my[t].cmd /\ command[c].status # "new"

(* With no call in progress and no handler due, a command has exactly the
   references of its holders: a HIP event, the last command of a queue, an
   open batch (two), a wait list, and the event it was sent for. *)
AtRest == armed = {} /\ \A t \in Threads : pc[t] = "idle"
Held(c) ==
  LET alive == {d \in AllCommands : refs[d] > 0}
  IN (IF c \in handles THEN 1 ELSE 0)
     + Cardinality({q \in Queues : queue[q].last = c})
     + 2 * Cardinality({q \in Queues : c \in Batch(queue[q].head)})
     + Cardinality({d \in alive : c \in command[d].waits})
     + Cardinality({d \in alive : c = command[d].notifyEvent})

(* No command is deleted while somebody can reach it, and none is kept once
   nobody can; but terminate() loses a reference when a batch is open. *)
Lifetimes ==
  /\ \A c \in AllCommands : InUse(c) => refs[c] > 0
  /\ AtRest => \A c \in AllCommands :
       refs[c] # Held(c) => refs[c] = Held(c) + 1 /\ ~queue[command[c].queue].open

(* execution() and notify_lock_ are taken in both orders, and are held while
   a thread waits for the GPU: a call in progress never has everybody wait. *)
NoDeadlock ==
  (\E t \in Clients : pc[t] # "idle") =>
    ENABLED ((\E t \in Clients : InCall(t)) \/ HandlerStep \/ \E q \in Queues : Execute(q))
=============================================================================
