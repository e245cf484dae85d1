----------------------------- MODULE VirtualGPU -----------------------------
(***************************************************************************)
(* What a command becomes on the GPU (rocclr/device/rocm/rocvirtual.*,      *)
(* rocblit.cpp): packets in an AQL ring that several virtual devices may    *)
(* share, copies for the DMA engines, the signals that order them and are   *)
(* used again, and the memory of the kernels' arguments.                    *)
(*                                                                         *)
(* A virtual device is driven by one thread at a time, the holder of        *)
(* execution().  Settings of direct dispatch: no dispatch blocks, waits for *)
(* signals are left to the GPU.  The packet processors and DMA engines are  *)
(* external.                                                               *)
(***************************************************************************)
EXTENDS Integers, SequencesExt

CONSTANTS VGPUs,
          HwQueues,     \* the HSA queues
          Setups,       \* the instances to check, one of which each behavior is about
          Operations,   \* what commands do
          RingSize,     \* packets of a ring, a power of two
          ListSize,     \* ROC_SIGNAL_POOL_SIZE
          MaxSignals,   \* bound: signals that exist at a time
          NumChunks,    \* KernelArgPoolNumSignal
          ChunkSize,    \* kernel arguments that fit into a chunk
          MaxCommands,  \* bound: commands submitted, in any setup
          None

ASSUME VirtualGPUAssumption ==
  /\ \A x \in Setups : /\ x.used \subseteq VGPUs /\ x.hwQueue \in [VGPUs -> HwQueues]
                        /\ x.commands \in 0..MaxCommands /\ x.listed \in Nat
                        /\ x.listed >= ListSize
                        /\ MaxSignals >= x.listed * Cardinality(VGPUs) + MaxCommands
  /\ Operations \subseteq {"kernel", "timed", "fill", "marker", "nop", "copy", "flush"}
  /\ RingSize \in Nat \ {0, 1} /\ ListSize \in Nat \ {0, 1, 2} /\ NumChunks \in Nat \ {0, 1}
  /\ ChunkSize \in Nat \ {0} /\ MaxCommands \in Nat
  /\ IsFiniteSet(VGPUs) /\ "pool" \notin VGPUs
  /\ MaxSignals \in Nat

VARIABLES
  setup,    \* used: the virtual devices that get commands; hwQueue: the gpu_queue_ of each;
            \* bounds: how many commands, and the length of a list where hsa_signal_create() fails
  created,  \* the commands so far
  command,  \* per command: virtual device, operation, wait list, hw_event_, arguments
  vgpu,     \* per virtual device: its HwQueueTracker, hasPendingDispatch_, argument pool
  memory,   \* the command that last wrote each place of each argument pool (history)
  signal,   \* per signal: its value, and how often it was set (history)
  ring,     \* per HSA queue: write and read index, slots, the kernel that runs
  dma,      \* the copies given to the DMA engines
  done,     \* the commands the GPU has finished
  todo, my  \* per virtual device: the rest of the call, its locals

vars == <<setup, created, command, vgpu, memory, signal, ring, dma, done, todo, my>>

Commands     == 1..MaxCommands
Chunks       == 0..NumChunks - 1
Places       == Chunks \X (0..ChunkSize - 1)
Pool         == {"pool"} \X (1..MaxSignals)   \* ProfilingSignals
ChunkSignals == VGPUs \X Chunks               \* kernarg_pool_signal_
Signals      == Pool \cup ChunkSignals

(* Who refers to a signal means one use of it. *)
Ticket   == [signal : Signals, use : Nat]
NoTicket == [signal |-> None, use |-> 0]
Now(s)   == [signal |-> s, use |-> signal[s].uses]
Armed(s) == [signal |-> s, use |-> signal[s].uses + 1]

(* cmd is None in a barrier that no command asked for. *)
Packet  == [kind : {"kernel", "barrier"}, cmd : Commands \cup {None}, deps : SUBSET Ticket,
            signal : Ticket \cup {NoTicket}]
Copy    == [cmd : Commands, deps : SUBSET Ticket, signal : Ticket]
Nothing == [kind |-> "barrier", cmd |-> None, deps |-> {}, signal |-> NoTicket]

CommandObject == [queue : VGPUs \cup {None}, op : Operations \cup {"none"},
                  waits : SUBSET Commands, hwEvent : Pool \cup {None}, args : SUBSET Places]

VirtualDevice == [list : Seq(Pool), current : Nat, engine : {"Unknown", "Compute", "Sdma"},
                  external : SUBSET Pool, pending : BOOLEAN, chunk : Chunks, used : 0..ChunkSize]

Steps == {"alloc", "nextChunk", "blockingWait", "kernel", "barrier", "reserve", "signal", "write",
          "fence", "copyWait", "copy", "waitCurrent"}

(* The null pointer is nobody, and no command, signal or packet. *)
ASSUME NoneAssumption ==
  None \notin VGPUs \cup Commands \cup Signals \cup Packet

TypeOK ==
  /\ setup \in Setups
  /\ created \in 0..setup.commands
  /\ command \in [Commands -> CommandObject]
  /\ vgpu \in [VGPUs -> VirtualDevice]
  /\ \A v \in VGPUs : Len(vgpu[v].list) <= setup.listed /\ vgpu[v].current \in DOMAIN vgpu[v].list
  /\ memory \in [VGPUs -> [Places -> Commands \cup {None}]]
  /\ signal \in [Signals -> [value : {0, 1}, uses : Nat]]
  /\ \A h \in HwQueues : /\ ring[h].read <= ring[h].write
                         /\ ring[h].slot \in [0..RingSize - 1 -> Packet \cup {None}]
                         /\ ring[h].running \in Packet \cup {None}
  /\ dma \subseteq Copy
  /\ done \subseteq Commands
  /\ todo \in [VGPUs -> Seq(Steps)]
  /\ my \in [VGPUs -> [cmd : Commands \cup {None}, packet : Packet, index : Nat]]

(* Each virtual device starts with ListSize signals of its own. *)
InitialList(v) ==
  LET n == CHOOSE i \in 1..Cardinality(VGPUs) : SetToSeq(VGPUs)[i] = v
  IN [i \in 1..ListSize |-> <<"pool", (n - 1) * ListSize + i>>]

Init ==
  /\ setup \in Setups
  /\ created = 0 /\ dma = {} /\ done = {}
  /\ command = [c \in Commands |-> [queue |-> None, op |-> "none", waits |-> {}, hwEvent |-> None,
                                    args |-> {}]]
  /\ vgpu = [v \in VGPUs |->
       [list |-> InitialList(v), current |-> 1, engine |-> "Unknown", external |-> {},
        pending |-> FALSE, chunk |-> 0, used |-> 0]]
  /\ memory = [v \in VGPUs |-> [p \in Places |-> None]]
  /\ signal = [s \in Signals |-> [value |-> 0, uses |-> 0]]
  /\ ring = [h \in HwQueues |-> [write |-> 0, read |-> 0, running |-> None,
                                 slot |-> [i \in 0..RingSize - 1 |-> None]]]
  /\ todo = [v \in VGPUs |-> <<>>]
  /\ my = [v \in VGPUs |-> [cmd |-> None, packet |-> Nothing, index |-> 0]]

Do(v, step)    == todo[v] # <<>> /\ Head(todo[v]) = step
Then(v, steps) == todo' = [todo EXCEPT ![v] = steps \o Tail(@)]

Busy(s) == signal[s].value > 0
Arm(s)  == signal' = [signal EXCEPT ![s] = [value |-> 1, uses |-> @.uses + 1]]

----------------------------------------
(* Commands *)

(* The steps of a kernel: room for its arguments, the waits, the packet. *)
Dispatch == <<"alloc", "blockingWait", "kernel", "write">>

Call == [kernel |-> Dispatch,
         timed  |-> <<"alloc", "blockingWait", "kernel", "signal", "write">>,
         fill   |-> <<"alloc">> \o Dispatch,         \* the pattern, then the arguments
         marker |-> <<"barrier", "reserve", "signal", "write">>,
         nop    |-> <<"barrier", "reserve", "signal", "write">>,
         copy   |-> <<"fence", "copyWait", "signal", "copy">>,
         flush  |-> <<"fence", "waitCurrent">>]

(* A command takes execution(); profilingBegin() collects the signals of its
   wait list, markers of other queues, each of which has one.  A flush of a
   marker that waits on the CPU has no wait list and leaves the signals. *)
Submit(v, op, W) ==
  LET c == created + 1 IN
  /\ todo[v] = <<>> /\ created < setup.commands /\ v \in setup.used
  /\ \A e \in W : command[e].hwEvent # None /\ command[e].queue # v
  /\ op = "flush" => W = {}
  /\ created' = c
  /\ command' = [command EXCEPT ![c].queue = v, ![c].op = op, ![c].waits = W]
  /\ vgpu' = IF op = "flush" THEN vgpu
             ELSE [vgpu EXCEPT ![v].external = {command[e].hwEvent : e \in W}]
  /\ todo' = [todo EXCEPT ![v] = Call[op]]
  /\ my' = [my EXCEPT ![v].cmd = c]
  /\ UNCHANGED <<setup, memory, signal, ring, dma, done>>

(* The event of a finished marker is deleted, once no unfinished command has
   it in its wait list, and drops its reference of the signal. *)
ReleaseEvent(c) ==
  /\ c \in done /\ command[c].hwEvent # None
  /\ \A d \in Commands : c \in command[d].waits => d \in done
  /\ command' = [command EXCEPT ![c].hwEvent = None]
  /\ UNCHANGED <<setup, created, vgpu, memory, signal, ring, dma, done, todo, my>>

----------------------------------------
(* Kernel arguments *)

(* Place p of the pool is given to the command. *)
Give(v, p) ==
  /\ memory' = [memory EXCEPT ![v][p] = my[v].cmd]
  /\ command' = [command EXCEPT ![my[v].cmd].args = @ \cup {p}]

(* Mutant of Alloc: no barrier guards the chunk that is left. *)
AllocNoBarrier(v) ==
  LET u == vgpu[v] IN
  /\ Do(v, "alloc")
  /\ IF u.used < ChunkSize
       THEN /\ Give(v, <<u.chunk, u.used>>)
            /\ vgpu' = [vgpu EXCEPT ![v].used = @ + 1]
            /\ Then(v, <<>>)
            /\ UNCHANGED <<signal, my>>
       ELSE /\ Then(v, <<"nextChunk">>)
            /\ UNCHANGED <<command, vgpu, memory, signal, my>>
  /\ UNCHANGED <<setup, created, ring, dma, done>>

(* allocKernArg(): room in the chunk, or a barrier that lowers the signal of
   the chunk once everything before it is done. *)
Alloc(v) ==
  LET u == vgpu[v]
      s == <<v, u.chunk>>
  IN /\ Do(v, "alloc")
     /\ IF u.used < ChunkSize
          THEN /\ Give(v, <<u.chunk, u.used>>)
               /\ vgpu' = [vgpu EXCEPT ![v].used = @ + 1]
               /\ Then(v, <<>>)
               /\ UNCHANGED <<signal, my>>
          ELSE /\ Arm(s)
               /\ my' = [my EXCEPT ![v].packet = [Nothing EXCEPT !.signal = Armed(s)]]
               /\ Then(v, <<"reserve", "write", "nextChunk">>)
               /\ UNCHANGED <<command, vgpu, memory>>
     /\ UNCHANGED <<setup, created, ring, dma, done>>

(* Make sure the next chunk is free. *)
NextChunk(v) ==
  LET next == (vgpu[v].chunk + 1) % NumChunks IN
  /\ Do(v, "nextChunk") /\ ~Busy(<<v, next>>)
  /\ Give(v, <<next, 0>>)
  /\ vgpu' = [vgpu EXCEPT ![v].chunk = next, ![v].used = 1]
  /\ Then(v, <<>>)
  /\ UNCHANGED <<setup, created, signal, ring, dma, done, my>>

----------------------------------------
(* HwQueueTracker *)

Current(v) == vgpu[v].list[vgpu[v].current]

(* WaitingSignal(): the signals of other queues, and the one of the previous
   operation of this queue unless engine runs both, in order; those that
   have fallen already are left out. *)
Waiting(v, engine) ==
  LET u        == vgpu[v]
      explicit == engine # u.engine \/ engine # "Compute"
      signals  == u.external \cup (IF explicit THEN {Current(v)} ELSE {})
  IN {Now(s) : s \in {s \in signals : Busy(s)}}

Resolve(v, engine) == vgpu' = [vgpu EXCEPT ![v].engine = engine, ![v].external = {}]

(* dispatchBlockingWait(): kernels cannot wait, a barrier does it for them. *)
BlockingWait(v) ==
  LET deps == Waiting(v, "Compute") IN
  /\ Do(v, "blockingWait")
  /\ Resolve(v, "Compute")
  /\ my' = [my EXCEPT ![v].packet = [Nothing EXCEPT !.deps = deps]]
  /\ Then(v, IF deps = {} THEN <<>> ELSE <<"reserve", "write">>)
  /\ UNCHANGED <<setup, created, command, memory, signal, ring, dma, done>>

(* dispatchBarrierPacket(), for a marker or a fence: "Make sure the wait is
   issued before queue index reservation". *)
Barrier(v) ==
  LET c == my[v].cmd IN
  /\ Do(v, "barrier")
  /\ Resolve(v, "Compute")
  /\ my' = [my EXCEPT ![v].packet =
       [Nothing EXCEPT !.deps = Waiting(v, "Compute"),
                       !.cmd = IF command[c].op \in {"marker", "nop"} THEN c ELSE None]]
  /\ Then(v, <<>>)
  /\ UNCHANGED <<setup, created, command, memory, signal, ring, dma, done>>

(* A copy, for the DMA engine. *)
CopyWait(v) ==
  /\ Do(v, "copyWait")
  /\ Resolve(v, "Sdma")
  /\ my' = [my EXCEPT ![v].packet = [Nothing EXCEPT !.deps = Waiting(v, "Sdma")]]
  /\ Then(v, <<>>)
  /\ UNCHANGED <<setup, created, command, memory, signal, ring, dma, done>>

NextId(i, list) == (i % Len(list)) + 1

(* The events that retain signal s. *)
Retaining(s) == {c \in Commands : command[c].hwEvent = s}
Exists(s)    == Retaining(s) # {} \/ \E v \in VGPUs : s \in Range(vgpu[v].list)
NewSignal    == CHOOSE s \in Pool : ~Exists(s) /\ \A t \in Pool : t[2] < s[2] => Exists(t)

(* Signal s, at place id of the list, is reset for the packet or copy and,
   if that is a marker's, retained by its event. *)
Attach(v, list, id) ==
  LET s == list[id]
      c == my[v].packet.cmd
  IN /\ vgpu' = [vgpu EXCEPT ![v].list = list, ![v].current = id]
     /\ Arm(s)
     /\ my' = [my EXCEPT ![v].packet.signal = Armed(s)]
     /\ command' = IF c # None /\ my[v].packet.kind = "barrier"
                     THEN [command EXCEPT ![c].hwEvent = s] ELSE command
     /\ Then(v, <<>>)
     /\ UNCHANGED <<setup, created, memory, ring, dma, done>>

(* The place of the next signal. *)
NextPlace(v) == NextId(vgpu[v].current, vgpu[v].list)
Peeked(v)    == vgpu[v].list[NextId(NextPlace(v), vgpu[v].list)]
MayGrow(v)   == Busy(Peeked(v)) /\ Len(vgpu[v].list) < setup.listed

(* ActiveSignal(): the signal after the next one is still busy, so the list
   grows ... *)
GrowList(v) ==
  /\ Do(v, "signal") /\ MayGrow(v)
  /\ Attach(v, InsertAt(vgpu[v].list, NextPlace(v), NewSignal), NextPlace(v))

(* Mutant of ReuseSignal: the signal is taken while its waiter may be
   waiting, without WaitNext(). *)
ReuseSignalEarly(v) ==
  LET list == vgpu[v].list
      id   == NextPlace(v)
  IN /\ Do(v, "signal") /\ ~MayGrow(v)
     /\ ~Busy(list[id])
     /\ Attach(v, IF Retaining(list[id]) # {} THEN [list EXCEPT ![id] = NewSignal] ELSE list, id)

(* ... or, if it is not or no signal can be created, the next one is used
   again, when it and the one after it have fallen; an event that retains it
   keeps it, and a new one takes its place. *)
ReuseSignal(v) ==
  LET list == vgpu[v].list
      id   == NextPlace(v)
  IN /\ Do(v, "signal") /\ ~MayGrow(v)
     /\ ~Busy(list[id]) /\ ~Busy(Peeked(v))
     /\ Attach(v, IF Retaining(list[id]) # {} THEN [list EXCEPT ![id] = NewSignal] ELSE list, id)

----------------------------------------
(* Packets and copies *)

Reserved(v, packet) ==
  /\ my' = [my EXCEPT ![v] = [@ EXCEPT !.packet = packet, !.index = ring[setup.hwQueue[v]].write]]
  /\ ring' = [ring EXCEPT ![setup.hwQueue[v]].write = @ + 1]
  /\ Then(v, <<>>)
  /\ UNCHANGED <<setup, created, command, vgpu, memory, signal, dma, done>>

Reserve(v) == Do(v, "reserve") /\ Reserved(v, my[v].packet)

(* dispatchGenericAqlPacket() takes an index, too. *)
Kernel(v) == /\ Do(v, "kernel")
             /\ Reserved(v, [Nothing EXCEPT !.kind = "kernel", !.cmd = my[v].cmd])

(* Mutant of SlotIsFree: one packet too many. *)
SlotIsFreeOffByTwo(v) == my[v].index - ring[setup.hwQueue[v]].read < RingSize + 1

SlotIsFree(v) == my[v].index - ring[setup.hwQueue[v]].read < RingSize - 1

(* The packet is stored, its header last, when the slot is free.  A kernel
   is pending then, and the barrier of a marker that flushes settles it. *)
Write(v) ==
  LET h == setup.hwQueue[v]
      p == my[v].packet
  IN /\ Do(v, "write") /\ SlotIsFree(v)
     /\ ring' = [ring EXCEPT ![h].slot[my[v].index % RingSize] = p]
     /\ vgpu' = [vgpu EXCEPT ![v].pending =
                   IF p.kind = "kernel" THEN TRUE
                   ELSE IF p.cmd # None /\ command[my[v].cmd].op = "marker" THEN FALSE ELSE @]
     /\ my' = [my EXCEPT ![v].packet = Nothing, ![v].index = 0]
     /\ Then(v, <<>>)
     /\ UNCHANGED <<setup, created, command, memory, signal, dma, done>>

(* Mutant of Fence: only kernels call for a barrier. *)
FenceForKernels(v) ==
  /\ Do(v, "fence")
  /\ IF vgpu[v].pending
       THEN Then(v, <<"barrier", "reserve", "signal", "write">>)
       ELSE Then(v, <<>>)
  /\ vgpu' = [vgpu EXCEPT ![v].pending = FALSE]
  /\ UNCHANGED <<setup, created, command, memory, signal, ring, dma, done, my>>

(* releaseGpuMemoryFence(): a barrier if a kernel is pending or a signal of
   another queue has to be waited for. *)
Fence(v) ==
  /\ Do(v, "fence")
  /\ IF vgpu[v].pending \/ vgpu[v].external # {}
       THEN Then(v, <<"barrier", "reserve", "signal", "write">>)
       ELSE Then(v, <<>>)
  /\ vgpu' = [vgpu EXCEPT ![v].pending = FALSE]
  /\ UNCHANGED <<setup, created, command, memory, signal, ring, dma, done, my>>

(* ... then a wait for the last signal, after which the pool is empty. *)
WaitCurrent(v) ==
  /\ Do(v, "waitCurrent") /\ ~Busy(Current(v))
  /\ vgpu' = [vgpu EXCEPT ![v].chunk = 0, ![v].used = 0]
  /\ done' = done \cup {my[v].cmd}
  /\ Then(v, <<>>)
  /\ UNCHANGED <<setup, created, command, memory, signal, ring, dma, my>>

(* rocrCopyBuffer(): a DMA engine takes the copy ... *)
StartCopy(v) ==
  LET p == my[v].packet IN
  /\ Do(v, "copy")
  /\ dma' = dma \cup {[cmd |-> my[v].cmd, deps |-> p.deps, signal |-> p.signal]}
  /\ my' = [my EXCEPT ![v].packet = Nothing]
  /\ Then(v, <<>>)
  /\ UNCHANGED <<setup, created, command, vgpu, memory, signal, ring, done>>

(* Mutant of CopyFails: the place before the first one is not the last one. *)
CopyFailsNoWrap(v) ==
  /\ Do(v, "copy")
  /\ signal' = [signal EXCEPT ![Current(v)].value = 0]
  /\ vgpu' = [vgpu EXCEPT ![v].current = @ - 1]
  /\ my' = [my EXCEPT ![v].packet = Nothing]
  /\ Then(v, Dispatch)
  /\ UNCHANGED <<setup, created, command, memory, ring, dma, done>>

(* Mutant of CopyFails: the signal of the failed copy stays busy. *)
CopyFailsNoReset(v) ==
  /\ Do(v, "copy")
  /\ my' = [my EXCEPT ![v].packet = Nothing]
  /\ Then(v, Dispatch)
  /\ UNCHANGED <<setup, created, command, vgpu, memory, signal, ring, dma, done>>

(* ... or fails: ResetCurrentSignal(), and a kernel does the copy. *)
CopyFails(v) ==
  LET u == vgpu[v] IN
  /\ Do(v, "copy")
  /\ signal' = [signal EXCEPT ![Current(v)].value = 0]
  /\ vgpu' = [vgpu EXCEPT ![v].current = IF @ = 1 THEN Len(u.list) ELSE @ - 1]
  /\ my' = [my EXCEPT ![v].packet = Nothing]
  /\ Then(v, Dispatch)
  /\ UNCHANGED <<setup, created, command, memory, ring, dma, done>>

----------------------------------------
(* The GPU *)

Satisfied(deps) == \A d \in deps : ~Busy(d.signal)

Lowered(ticket) ==
  IF ticket = NoTicket THEN signal ELSE [signal EXCEPT ![ticket.signal].value = 0]

AtHead(h) == ring[h].slot[ring[h].read % RingSize]

(* Every packet has the barrier bit: it waits for the ones before it. *)
Ready(h, kind) == /\ AtHead(h) # None /\ ring[h].running = None
                  /\ AtHead(h).kind = kind /\ Satisfied(AtHead(h).deps)

Consumed(h, running) ==
  [ring EXCEPT ![h].read = @ + 1, ![h].slot[ring[h].read % RingSize] = None,
               ![h].running = running]

Finished(c) == done' = IF c = None THEN done ELSE done \cup {c}

(* A kernel starts, and its slot is free ... *)
StartKernel(h) ==
  /\ Ready(h, "kernel")
  /\ ring' = Consumed(h, AtHead(h))
  /\ UNCHANGED <<setup, created, command, vgpu, memory, signal, dma, done, todo, my>>

(* ... and ends. *)
EndKernel(h) ==
  /\ ring[h].running # None
  /\ signal' = Lowered(ring[h].running.signal)
  /\ Finished(ring[h].running.cmd)
  /\ ring' = [ring EXCEPT ![h].running = None]
  /\ UNCHANGED <<setup, created, command, vgpu, memory, dma, todo, my>>

(* A barrier passes when the signals it waits for have fallen. *)
PassBarrier(h) ==
  /\ Ready(h, "barrier")
  /\ signal' = Lowered(AtHead(h).signal)
  /\ Finished(AtHead(h).cmd)
  /\ ring' = Consumed(h, None)
  /\ UNCHANGED <<setup, created, command, vgpu, memory, dma, todo, my>>

RunCopy(x) ==
  /\ Satisfied(x.deps)
  /\ signal' = Lowered(x.signal)
  /\ Finished(x.cmd)
  /\ dma' = dma \ {x}
  /\ UNCHANGED <<setup, created, command, vgpu, memory, ring, todo, my>>

----------------------------------------
Host(v) ==
  \/ Alloc(v) \/ NextChunk(v) \/ BlockingWait(v) \/ Barrier(v) \/ CopyWait(v)
  \/ GrowList(v) \/ ReuseSignal(v) \/ Reserve(v) \/ Kernel(v) \/ Write(v)
  \/ Fence(v) \/ WaitCurrent(v) \/ StartCopy(v) \/ CopyFails(v)

Processor(h) == StartKernel(h) \/ EndKernel(h) \/ PassBarrier(h)
Dma          == \E x \in dma : RunCopy(x)

Application ==
  \/ \E c \in Commands : ReleaseEvent(c)
  \/ \E v \in VGPUs, op \in Operations, W \in {{}} \cup {{e} : e \in Commands} : Submit(v, op, W)

Next == \/ Application
        \/ \E v \in VGPUs : Host(v)
        \/ \E h \in HwQueues : Processor(h)
        \/ Dma

Spec == Init /\ [][Next]_vars

----------------------------------------
(* Properties *)

(* What the GPU may begin now. *)
MayBegin(c) ==
  \/ \E x \in dma : x.cmd = c /\ Satisfied(x.deps)
  \/ \E h \in HwQueues : AtHead(h) # None /\ AtHead(h).cmd = c /\ Ready(h, AtHead(h).kind)

(* The operations of a queue run in the order of the calls, and after the
   events they wait for, although they run on two engines that know nothing
   of each other, and a copy may be given to the other one after a failure. *)
StreamOrder ==
  \A c \in Commands : MayBegin(c) =>
    command[c].waits \cup {d \in 1..c - 1 : command[d].queue = command[c].queue} \subseteq done

(* The packets and copies that are in flight or about to be. *)
InFlight ==
  {ring[h].slot[i] : h \in HwQueues, i \in 0..RingSize - 1} \cup {ring[h].running : h \in HwQueues}
  \cup dma \cup {my[v].packet : v \in {v \in VGPUs : todo[v] # <<>>}}

(* A signal is not used again while the GPU has yet to lower it for its last
   use, or has yet to look at that use. *)
SignalsFresh ==
  \A x \in InFlight \ {None} : \A t \in x.deps \cup ({x.signal} \ {NoTicket}) :
    t = Now(t.signal)

(* No thread stores a packet over one the GPU has not taken, whoever else
   has reserved places in the ring. *)
NoOverwrite ==
  \A v \in VGPUs : Do(v, "write") /\ SlotIsFree(v) =>
    ring[setup.hwQueue[v]].slot[my[v].index % RingSize] = None

(* The arguments of a kernel stay as they are until it is done: "Make sure
   the new active chunk is free", "avoid possible overlaps between chunks
   and issues during recycle". *)
ArgsIntact ==
  \A c \in Commands \ done : \A p \in command[c].args : memory[command[c].queue][p] = c

(* Threads wait for a place in a ring they share, for signals and for
   chunks, and packets wait for other rings; but somebody can always go on,
   so every command is done in the end. *)
NeverStuck ==
  1..created \subseteq done \/ ENABLED (\/ \E v \in VGPUs : Host(v)
                                     \/ \E h \in HwQueues : Processor(h)
                                     \/ Dma)
=============================================================================
