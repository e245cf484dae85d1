---------------------------- MODULE SignalProofs ----------------------------
(* No packet and no copy refers to a use of a signal that is over: every
   step of a virtual device and of the GPU keeps AirInv, so that a signal
   is used again only when nobody waits for its last use any more.  Then
   the order of a stream: every step keeps StreamInv, which says by which
   chains of places in rings and of waits for signals a command comes
   after the ones before it. *)
EXTENDS AirProofs

----------------------------------------
(* The calm steps. *)

(* The phases of a flush. *)
InFlush == {"fenceFlush", "barrierFlush", "reserveFlush", "signalFlush", "writeFlush", "waitCurrent"}

(* Commands as they are. *)
SameCommands == \A c \in Commands :
  /\ command'[c].queue = command[c].queue /\ command'[c].op = command[c].op
  /\ command'[c].waits = command[c].waits /\ command'[c].hwEvent = command[c].hwEvent

(* The event of the command in a calm step. *)
LEMMA CalmEvent ==
  ASSUME VirtualAssumptions, VirtualInv, CallInv, NEW v \in VGPUs, todo[v] # <<>>,
         my'[v].cmd = my[v].cmd,
         SameCommands, vgpu'[v].external \in {{}, vgpu[v].external},
         vgpu'[v].external # {} => Ph(v)' \in Unresolved,
         Ph(v) # "writeLast" \/ Ph(v)' = "idle",
         Ph(v)' \in InFlush => Ph(v) \in InFlush,
         Ph(v)' \notin {"fenceCopy", "fenceFlush", "barrierLast"},
         Ph(v)' \in {"barrierCopy", "barrierFlush"} => Ph(v) \in InFence
  PROVE  EventOf(v)'
<1>1. EventOf(v) /\ Ph(v) # "idle"
  <2>1. Planned(todo[v]) BY DEF VirtualInv, Basic, Plans
  <2> QED BY <2>1, PhaseOfPlan DEF CallInv, Ph
<1>2. PICK c \in Commands : c = my[v].cmd /\ c = my'[v].cmd
  BY SetupFacts DEF VirtualInv, Basic, InCall, Types, Commands
<1>3. PICK W : W = command[c].waits /\ W = command'[c].waits /\ W \subseteq Commands
  BY <1>2 DEF SameCommands, VirtualInv, Basic, Types, CommandObject
<1>4. {command'[e].hwEvent : e \in W} = {command[e].hwEvent : e \in W}
  BY ONLY <1>3, SameCommands DEF SameCommands
<1>5. Ph(v)' \notin {"idle", "writeLast"} => command'[c].hwEvent = None
  BY ONLY <1>1, <1>2, SameCommands, Ph(v) # "writeLast" \/ Ph(v)' = "idle"
     DEF SameCommands, EventOf
<1>6. Ph(v)' \in InFlush => W = {}
  BY ONLY <1>1, <1>2, <1>3, Ph(v)' \in InFlush => Ph(v) \in InFlush DEF EventOf, InFlush
<1>7. Ph(v)' \in {"barrierCopy", "barrierFlush"} => command'[c].op \notin {"marker", "nop"}
  BY ONLY <1>1, <1>2, SameCommands,
     Ph(v)' \in {"barrierCopy", "barrierFlush"} => Ph(v) \in InFence DEF SameCommands, EventOf, InFence
<1>8. vgpu'[v].external # {} => vgpu'[v].external = {command[e].hwEvent : e \in W}
  BY ONLY <1>1, <1>2, <1>3, vgpu'[v].external \in {{}, vgpu[v].external} DEF EventOf
<1>9. /\ Ph(v)' \notin {"idle", "writeLast"} => command'[my'[v].cmd].hwEvent = None
      /\ Ph(v)' \in InFlush => command'[my'[v].cmd].waits = {}
      /\ Ph(v)' \in {"barrierCopy", "barrierFlush"} => command'[my'[v].cmd].op \notin {"marker", "nop"}
      /\ vgpu'[v].external # {} => vgpu'[v].external = {command'[e].hwEvent : e \in command'[my'[v].cmd].waits}
  BY ONLY <1>2, <1>3, <1>4, <1>5, <1>6, <1>7, <1>8
<1> QED
  BY ONLY <1>9, vgpu'[v].external # {} => Ph(v)' \in Unresolved,
     Ph(v)' \notin {"fenceCopy", "fenceFlush", "barrierLast"} DEF EventOf, InFlush

(* A calm step of a call that has no index, before or after. *)
LEMMA CalmStay ==
  ASSUME VirtualAssumptions, VirtualInv, VirtualInv', AirInv, NEW v \in VGPUs, Frame(v),
         ring' = ring, dma' = dma, signal' = signal, created' = created, ~Holding(v),
         ~HoldPlan(todo'[v]),
         todo[v] # <<>>, SameCommands, vgpu'[v].list = vgpu[v].list, vgpu'[v].current = vgpu[v].current,
         my'[v].cmd = my[v].cmd, my[v].packet = Nothing, my'[v].packet.signal = NoTicket,
         my'[v].packet.cmd \in {None, my[v].cmd},
         done' = done \/ (done' = done \cup {my[v].cmd} /\ todo'[v] = <<>> /\ my'[v].packet = Nothing),
         \A t \in my'[v].packet.deps : t = Now(t.signal) /\ t.signal \in Pool
  PROVE  /\ Calm(v, InHand(v), InHand(v)) /\ CalmPlaces(v, InHand(v), InHand(v))
         /\ Flight'[InHand(v)] = my'[v].packet /\ InHand(v) \in Air' /\ ~Holding(v)'
         /\ Current(v)' = Current(v) /\ Hq(v)' = Hq(v)
         /\ \A u \in Signals : \A h, j : LowFrom(h, j, u) => LowFrom(h, j, u)'
         /\ \A r \in Pool : \A h, j : Stands(h, j, r) => Stands(h, j, r)'
         /\ \A j : Ahead(v, j)'
<1>1. ~Holding(v)' /\ SpotOf(v) = InHand(v) BY DEF Holding, SpotOf
<1>2. Moves(v, InHand(v), InHand(v)) /\ Flight'[InHand(v)] = my'[v].packet /\ SpotOf(v)' = InHand(v)
  <2>1. HoldPlan(todo'[v]) <=> Holding(v) OBVIOUS
  <2> QED
    BY ONLY VirtualAssumptions, VirtualInv, VirtualInv', v \in VGPUs, Frame(v), ring' = ring,
       dma' = dma, <2>1, ~Holding(v), <1>1, StayMoves
<1>3. Flight[InHand(v)] = Nothing /\ InHand(v) \in Air' BY ONLY <1>2, my[v].packet = Nothing DEF Moves
<1>4. Keeps(InHand(v), InHand(v)) /\ Flight'[InHand(v)].signal = Flight[InHand(v)].signal
  BY ONLY <1>2, <1>3, NothingIs, VirtualAssumptions, my'[v].packet.signal = NoTicket DEF Keeps
<1>5. Calm(v, InHand(v), InHand(v))
  <2>1. /\ done' = done \/ (done' = done \cup {my[v].cmd} /\ todo'[v] = <<>> /\ Flight'[InHand(v)].cmd = None)
        /\ Flight'[InHand(v)].cmd \in {None, Flight[InHand(v)].cmd, my[v].cmd}
        /\ todo'[v] # <<>> => SpotOf(v)' = InHand(v) \/ Flight'[InHand(v)].cmd = None
        /\ \A t \in Flight'[InHand(v)].deps : t \in Flight[InHand(v)].deps \/ (t = Now(t.signal) /\ t.signal \in Pool)
    BY <1>2, NothingIs
  <2>2. \A c \in Commands : /\ command'[c].queue = command[c].queue /\ command'[c].op = command[c].op
                         /\ command'[c].waits = command[c].waits /\ command'[c].hwEvent = command[c].hwEvent
    BY DEF SameCommands
  <2> QED
    BY ONLY <1>2, <1>4, <2>1, <2>2, signal' = signal, vgpu'[v].list = vgpu[v].list,
       vgpu'[v].current = vgpu[v].current,
       created' = created, todo[v] # <<>>, my'[v].cmd = my[v].cmd DEF Calm
<1>6. CalmPlaces(v, InHand(v), InHand(v)) BY ONLY PlacesApart, dma' = dma DEF CalmPlaces
<1>7. Current(v)' = Current(v) /\ Hq(v)' = Hq(v) BY HqStays DEF Current, Frame
<1>8. /\ \A u \in Signals : \A h, j : LowFrom(h, j, u) => LowFrom(h, j, u)'
      /\ \A r \in Pool : \A h, j : Stands(h, j, r) => Stands(h, j, r)'
  BY ONLY VirtualAssumptions, <1>2, <1>4, MovesLowFrom, MovesStands
<1>9. \A j : Ahead(v, j)' BY <1>1 DEF Ahead
<1> QED BY ONLY <1>1, <1>2, <1>3, <1>5, <1>6, <1>7, <1>8, <1>9

(* The call goes on with something for the GPU. *)
LEMMA ActiveStay ==
  ASSUME NEW v \in VGPUs, Hq(v)' = Hq(v), my'[v].cmd = my[v].cmd, NEW q,
         \A h, j : InRing(h, j) \in Air' /\ Ahead(v, j) /\ h = Hq(v) => Ahead(v, j)',
         Ph(v)' \in Computes,
         ~Holding(v) \/ Ph(v) \in InSignal
  PROVE  StillBehind(v, q) /\ ~Quiet(v)'
<1>1. Ph(v)' \notin {"idle", "copyWait", "signalDma", "copy", "waitCurrent"} \cup InFence
  BY DEF Computes, InBarrier, InReserve, InSignal, InWrite, InFence
<1>2. todo'[v] # <<>> BY <1>1, PhaseTable DEF Ph
<1>3. ~Quiet(v)' BY ONLY <1>1 DEF Quiet
<1>4. ASSUME NEW h, NEW j, CallBehind(v, h, j), InRing(h, j) \in Air'
      PROVE CallBehind(v, h, j)'
  <2>1. Hq(v) = h BY ONLY <1>4 DEF CallBehind
  <2>2. Ahead(v, j) BY ONLY <1>4, ~Holding(v) \/ Ph(v) \in InSignal DEF CallBehind, Ahead, InSignal
  <2> QED
    BY ONLY <1>1, <1>2, <1>4, <2>1, <2>2, Hq(v)' = Hq(v), \A g,
       i : InRing(g, i) \in Air' /\ Ahead(v, i) /\ g = Hq(v) => Ahead(v, i)'
       DEF CallBehind
<1> QED BY ONLY <1>3, <1>4 DEF StillBehind

(* A device stays ready. *)
LEMMA StayReady ==
  ASSUME NEW v \in VGPUs, VirtualAssumptions, VirtualInv, ReadyOf(v), Ph(v) \notin InReserve,
         signal' = signal, Ph(v)' # "signalDma",
         vgpu'[v].engine = "Compute" => vgpu[v].engine = "Compute", Current(v)' = Current(v),
         Hq(v)' = Hq(v),
         \A r \in Pool : \A h, j : Stands(h, j, r) => Stands(h, j, r)', ~Holding(v)'
  PROVE  ReadyOf(v)'
<1>1. PICK s \in Pool : s = Current(v) /\ s = Current(v)' BY PoolParts
<1>2. Busy(s)' => Busy(s) BY DEF Busy
<1>3. PICK h : h = Hq(v) /\ h = Hq(v)' OBVIOUS
<1>4. Busy(s) /\ vgpu[v].engine = "Compute" => \E i \in Int : Stands(h, i, s)
  <2>1. Holding(v) => my[v].index \in Int BY DEF VirtualInv, Basic, Types, MyRecord
  <2> QED BY ONLY <1>1, <1>3, <2>1, ReadyOf(v), Ph(v) \notin InReserve DEF ReadyOf
<1>5. Busy(s)' /\ vgpu'[v].engine = "Compute" => \E i \in Int : Stands(h, i, s)'
  BY ONLY <1>2, <1>4, vgpu'[v].engine = "Compute" => vgpu[v].engine = "Compute",
     \A r \in Pool : \A g, j : Stands(g, j, r) => Stands(g, j, r)', s \in Pool
<1> QED BY ONLY <1>1, <1>3, <1>5, ~Holding(v)', Ph(v)' # "signalDma" DEF ReadyOf, Busy

(* A packet that has nothing to wait for. *)
LEMMA EmptyHands == ASSUME NEW v, my'[v].packet.deps = {} PROVE HandOf(v)'
BY DEF HandOf

(* What the place of the call is, and that the chunk in use is free. *)
LEMMA CallFacts ==
  ASSUME VirtualAssumptions, VirtualInv, AirInv, NEW v \in VGPUs
  PROVE  /\ Ph(v) \in Phases /\ (todo[v] = <<>> <=> Ph(v) = "idle")
         /\ Holding(v) <=> Ph(v) \in InSignal \cup InWrite
         /\ PacketOf(v) /\ DeviceOf(v) /\ EventOf(v) /\ ReadyOf(v) /\ HandOf(v) /\ CoverOf(v)
         /\ vgpu[v].engine \in {"Unknown", "Compute", "Sdma"} /\ vgpu[v].pending \in BOOLEAN
         /\ Busy(<<v, vgpu[v].chunk>>) => Ph(v) \in {"reserveChunk", "writeChunk", "nextChunk"}
<1>1. /\ Ph(v) \in Phases /\ (todo[v] = <<>> <=> Ph(v) = "idle")
      /\ Holding(v) <=> Ph(v) \in InSignal \cup InWrite
  BY PhaseOfPlan DEF VirtualInv, Basic, Plans, Ph, Holding
<1>2. PacketOf(v) /\ DeviceOf(v) /\ EventOf(v) /\ ReadyOf(v) /\ HandOf(v) /\ CoverOf(v)
  BY DEF AirInv, CallInv, WaitInv, OrderInv
<1>3. Busy(<<v, vgpu[v].chunk>>) => Ph(v) \in {"reserveChunk", "writeChunk", "nextChunk"}
  BY DEF AirInv, ChunkInv
<1>4. vgpu[v].engine \in {"Unknown", "Compute", "Sdma"} /\ vgpu[v].pending \in BOOLEAN
  BY DEF VirtualInv, Basic, Types, VirtualDevice
<1> QED BY ONLY <1>1, <1>2, <1>3, <1>4

(* The phase after a step. *)
LEMMA CallFactsNext ==
  ASSUME VirtualAssumptions, VirtualInv', NEW v \in VGPUs
  PROVE  /\ Ph(v)' \in Phases /\ (todo'[v] = <<>> <=> Ph(v)' = "idle")
         /\ HoldPlan(todo'[v]) <=> Ph(v)' \in InSignal \cup InWrite
BY PhaseOfPlan DEF VirtualInv, Basic, Plans, Ph, Holding

(* Space for arguments. *)
LEMMA GiveKeeps ==
  ASSUME VirtualAssumptions, VirtualInv, VirtualInv', AirInv, NEW v \in VGPUs, NEW p,
         Give(v, p), Frame(v),
         Ph(v) \in {"alloc", "nextChunk"}, Ph(v)' \in {"alloc", "blockingWait"},
         UNCHANGED <<setup, created, signal, ring, dma, done, my>>,
         vgpu'[v].list = vgpu[v].list, vgpu'[v].current = vgpu[v].current,
         vgpu'[v].engine = vgpu[v].engine, vgpu'[v].external = vgpu[v].external,
         ~Busy(<<v, vgpu'[v].chunk>>)
  PROVE  AirInv'
<1> DEFINE q == InHand(v)
<1>1. /\ Ph(v) \in Phases /\ todo[v] # <<>> /\ ~Holding(v) /\ ~HoldPlan(todo'[v]) /\ todo'[v] # <<>>
      /\ my[v].packet = Nothing
  BY CallFacts, CallFactsNext DEF PacketOf, InReserve, InSignal, InWrite
<1>2. SameCommands
  <2>1. command \in [Commands -> CommandObject] BY DEF VirtualInv, Basic, Types
  <2> QED BY <2>1 DEF Give, SameCommands
<1>3. my'[v] = my[v] /\ my[v].packet.signal = NoTicket /\ my[v].packet.deps = {} /\ my[v].packet.cmd = None
  BY <1>1, NothingIs
<1>4. /\ Calm(v, q, q) /\ CalmPlaces(v, q, q) /\ ~Holding(v)' /\ Current(v)' = Current(v) /\ Hq(v)' = Hq(v)
      /\ \A r \in Pool : \A h, j : Stands(h, j, r) => Stands(h, j, r)'
      /\ \A j : Ahead(v, j)'
  BY ONLY VirtualAssumptions, VirtualInv, VirtualInv', AirInv, v \in VGPUs, Frame(v), <1>1,
     <1>2, <1>3, CalmStay,
     UNCHANGED <<setup, created, signal, ring, dma, done, my>>, vgpu'[v].list = vgpu[v].list, vgpu'[v].current = vgpu[v].current
<1>5. PacketOf(v)'
  BY ONLY <1>1, <1>3, NothingIs, VirtualAssumptions, Ph(v)' \in {"alloc", "blockingWait"}
     DEF PacketOf, InReserve, InSignal, InWrite
<1>6. DeviceOf(v)' BY ONLY Ph(v)' \in {"alloc", "blockingWait"} DEF DeviceOf, Resolved, InSignal
<1>7. EventOf(v)'
  <2>1. Ph(v)' \in Unresolved /\ Ph(v) # "writeLast" /\ Ph(v)' \notin InFlush
        /\ Ph(v)' \notin {"fenceCopy", "fenceFlush", "barrierLast"} /\ Ph(v)' \notin {"barrierCopy", "barrierFlush"}
    BY DEF Unresolved, InFlush
  <2>2. CallInv /\ my'[v].cmd = my[v].cmd /\ vgpu'[v].external \in {{}, vgpu[v].external}
    BY <1>3 DEF AirInv
  <2> QED BY ONLY CalmEvent, VirtualAssumptions, VirtualInv, v \in VGPUs, <1>1, <1>2, <2>1, <2>2
<1>8. HandOf(v)' BY <1>3, EmptyHands
<1>9. ReadyOf(v)'
  <2>1. ReadyOf(v) /\ Ph(v) \notin InReserve /\ Ph(v)' # "signalDma" /\ signal' = signal
    BY CallFacts DEF InReserve
  <2> QED
    BY ONLY StayReady, v \in VGPUs, VirtualAssumptions, VirtualInv, <1>4, <2>1,
       vgpu'[v].engine = vgpu[v].engine
<1>10. StillBehind(v, q) /\ ~Quiet(v)' /\ Ph(v)' \in Computes /\ ~Signalled(v)'
  <2>1. Ph(v)' \in Computes /\ ~Signalled(v)' BY DEF Computes, Signalled
  <2>2. my'[v].cmd = my[v].cmd BY <1>3
  <2> QED BY ONLY ActiveStay, v \in VGPUs, <1>1, <1>4, <2>1, <2>2
<1>11. CalmDevice(v, q, q)
  BY ONLY <1>5, <1>6, <1>7, <1>8, <1>9, <1>10, ~Busy(<<v, vgpu'[v].chunk>>),
     Ph(v) \in {"alloc", "nextChunk"} DEF CalmDevice
<1> QED BY ONLY CalmKeeps, VirtualAssumptions, VirtualInv, VirtualInv', AirInv, v \in VGPUs, <1>4,
     <1>11

(* A step of a call is about its device and its command. *)
LEMMA HostFrame ==
  ASSUME VirtualAssumptions, VirtualInv, NEW v \in VGPUs, Host(v)
  PROVE  /\ Frame(v) /\ todo[v] # <<>> /\ created' = created /\ my'[v].cmd = my[v].cmd
         /\ ~(GrowList(v) \/ ReuseSignal(v)) => SameCommands
<1>1. (\A w \in VGPUs : w # v => todo'[w] = todo[w]) /\ todo[v] # <<>> BY HostTodoTypes DEF VirtualInv
<1>2. /\ vgpu \in [VGPUs -> VirtualDevice] /\ my \in [VGPUs -> MyRecord] /\ command \in [Commands -> CommandObject]
      /\ my[v] \in MyRecord
  BY DEF VirtualInv, Basic, Types
<1> DEFINE Rest == /\ setup' = setup /\ \A w \in VGPUs : w # v => my'[w] = my[w] /\ vgpu'[w] = vgpu[w]
                   /\ created' = created /\ my'[v].cmd = my[v].cmd
                   /\ ~(GrowList(v) \/ ReuseSignal(v)) => SameCommands
<1>3. ASSUME Alloc(v) PROVE Rest
  <2>1. CASE vgpu[v].used < ChunkSize
    <3>1. /\ Give(v, <<vgpu[v].chunk, vgpu[v].used>>) /\ UNCHANGED <<setup, created, my>>
          /\ vgpu' = [vgpu EXCEPT ![v].used = @ + 1]
      BY <1>3, <2>1 DEF Alloc
    <3> QED BY ONLY <1>2, <3>1 DEF Give, SameCommands
  <2>2. CASE ~(vgpu[v].used < ChunkSize)
    <3>1. PICK p : my' = [my EXCEPT ![v].packet = p] /\ UNCHANGED <<setup, created, vgpu, command>>
      BY <1>3, <2>2 DEF Alloc
    <3> QED BY ONLY <1>2, <3>1 DEF SameCommands, MyRecord
  <2> QED BY ONLY <2>1, <2>2
<1>4. ASSUME NextChunk(v) PROVE Rest BY <1>2, <1>4 DEF NextChunk, Give, SameCommands
<1>5. ASSUME BlockingWait(v) \/ Barrier(v) \/ CopyWait(v) PROVE Rest
  BY <1>2, <1>5 DEF BlockingWait, Barrier, CopyWait, Resolve, SameCommands, MyRecord
<1>6. ASSUME GrowList(v) \/ ReuseSignal(v) PROVE Rest
  <2>1. \E l, i : Attach(v, l, i) BY <1>6 DEF GrowList, ReuseSignal
  <2> QED BY <1>2, <1>6, <2>1 DEF Attach, MyRecord
<1>7. ASSUME Reserve(v) \/ Kernel(v) PROVE Rest
  BY <1>2, <1>7 DEF Reserve, Kernel, Reserved, SameCommands, MyRecord
<1>8. ASSUME Write(v) PROVE Rest BY <1>2, <1>8 DEF Write, SameCommands, MyRecord
<1>9. ASSUME Fence(v) \/ WaitCurrent(v) \/ StartCopy(v) \/ CopyFails(v) PROVE Rest
  BY <1>2, <1>9 DEF Fence, WaitCurrent, StartCopy, CopyFails, SameCommands, MyRecord
<1>10. Rest BY <1>3, <1>4, <1>5, <1>6, <1>7, <1>8, <1>9 DEF Host
<1> QED BY <1>1, <1>10 DEF Frame

(* The arguments of a kernel find place. *)
LEMMA AllocKeeps ==
  ASSUME VirtualAssumptions, VirtualInv, VirtualInv', AirInv, NEW v \in VGPUs, Alloc(v),
         vgpu[v].used < ChunkSize
  PROVE  AirInv'
<1>1. Ph(v) = "alloc" /\ Ph(v)' \in {"alloc", "blockingWait"} /\ Frame(v)
  BY AllocPhases, HostFrame DEF VirtualInv, Host
<1>2. /\ Give(v, <<vgpu[v].chunk, vgpu[v].used>>)
      /\ UNCHANGED <<setup, created, signal, ring, dma, done, my>>
      /\ vgpu'[v] = [vgpu[v] EXCEPT !.used = @ + 1]
  BY DEF Alloc, VirtualInv, Basic, Types
<1>3. /\ vgpu'[v].list = vgpu[v].list /\ vgpu'[v].current = vgpu[v].current /\ vgpu'[v].engine = vgpu[v].engine
      /\ vgpu'[v].external = vgpu[v].external /\ vgpu'[v].chunk = vgpu[v].chunk
  <2>1. vgpu[v] \in VirtualDevice BY DEF VirtualInv, Basic, Types
  <2> QED BY ONLY <1>2, <2>1 DEF VirtualDevice
<1>4. ~Busy(<<v, vgpu'[v].chunk>>) BY <1>1, <1>3, CallFacts
<1> QED BY ONLY GiveKeeps, VirtualAssumptions, VirtualInv, VirtualInv', AirInv, v \in VGPUs, <1>1,
     <1>2, <1>3, <1>4

(* The arguments go on in the next chunk. *)
LEMMA NextChunkKeeps ==
  ASSUME VirtualAssumptions, VirtualInv, VirtualInv', AirInv, NEW v \in VGPUs, NextChunk(v)
  PROVE  AirInv'
<1>1. Ph(v) = "nextChunk" /\ Ph(v)' \in {"alloc", "blockingWait"} /\ Frame(v)
  BY PlainPhases, HostFrame DEF VirtualInv, Host
<1>2. PICK k : /\ Give(v, <<k, 0>>) /\ ~Busy(<<v, k>>)
               /\ UNCHANGED <<setup, created, signal, ring, dma, done, my>>
               /\ vgpu' = [vgpu EXCEPT ![v].chunk = k, ![v].used = 1]
  BY DEF NextChunk
<1>3. /\ vgpu'[v].list = vgpu[v].list /\ vgpu'[v].current = vgpu[v].current /\ vgpu'[v].engine = vgpu[v].engine
      /\ vgpu'[v].external = vgpu[v].external /\ vgpu'[v].chunk = k
  <2>1. vgpu[v] \in VirtualDevice /\ vgpu \in [VGPUs -> VirtualDevice] BY DEF VirtualInv, Basic, Types
  <2> QED BY ONLY <1>2, <2>1, v \in VGPUs DEF VirtualDevice
<1> QED BY ONLY GiveKeeps, VirtualAssumptions, VirtualInv, VirtualInv', AirInv, v \in VGPUs, <1>1,
     <1>2, <1>3

(* What a call waits for. *)
LEMMA WaitingIs ==
  ASSUME VirtualAssumptions, VirtualInv, NEW v \in VGPUs, NEW e
  PROVE  /\ \A t \in Waiting(v, e) : /\ t = Now(t.signal) /\ t.signal \in Pool
                                     /\ t.signal \in vgpu[v].external \/ t.signal = Current(v)
         /\ Busy(Current(v)) /\ (e # "Compute" \/ vgpu[v].engine # "Compute") => \E t \in Waiting(v, e) : t.signal = Current(v)
<1>1. vgpu[v].external \subseteq Pool /\ Current(v) \in Pool BY PoolParts DEF VirtualDevice
<1>2. PICK S : /\ S = vgpu[v].external \cup (IF e # vgpu[v].engine \/ e # "Compute" THEN {Current(v)} ELSE {})
               /\ Waiting(v, e) = {Now(s) : s \in {s \in S : Busy(s)}}
  BY DEF Waiting
<1>3. \A s : Now(s).signal = s BY DEF Now
<1>4. \A t \in Waiting(v, e) : \E s \in S : t = Now(s) /\ Busy(s) BY ONLY <1>2
<1>5. \A s \in S : Busy(s) => Now(s) \in Waiting(v, e) BY ONLY <1>2
<1> QED BY ONLY <1>1, <1>2, <1>3, <1>4, <1>5

(* A packet that is made for what a call waits for. *)
LEMMA ResolveKeeps ==
  ASSUME VirtualAssumptions, VirtualInv, VirtualInv', AirInv, NEW v \in VGPUs, Frame(v),
         SameCommands,
         NEW e \in {"Compute", "Sdma"}, Resolve(v, e), my'[v].cmd = my[v].cmd,
         UNCHANGED <<setup, created, signal, ring, dma, done>>,
         my'[v].packet.signal = NoTicket, my'[v].packet.deps = Waiting(v, e),
         my'[v].packet.kind = "barrier",
         my'[v].packet.cmd \in {None, my[v].cmd},
         Ph(v)' \in {"reserveCopy", "reserveFlush", "reserveWait", "signalDma"} => my'[v].packet.cmd = None,
         Ph(v)' = "reserveLast" => my'[v].packet.cmd = my[v].cmd,
         Ph(v)' = "kernel" => my'[v].packet = Nothing,
         \/ Ph(v) = "barrierLast" /\ Ph(v)' = "reserveLast" /\ e = "Compute"
         \/ Ph(v) = "barrierCopy" /\ Ph(v)' = "reserveCopy" /\ e = "Compute"
         \/ Ph(v) = "barrierFlush" /\ Ph(v)' = "reserveFlush" /\ e = "Compute"
         \/ Ph(v) = "blockingWait" /\ Ph(v)' = "kernel" /\ e = "Compute" /\ Waiting(v, e) = {}
         \/ Ph(v) = "blockingWait" /\ Ph(v)' = "reserveWait" /\ e = "Compute"
         \/ Ph(v) = "copyWait" /\ Ph(v)' = "signalDma" /\ e = "Sdma"
  PROVE  AirInv'
<1> DEFINE q == InHand(v)
<1>1. /\ Ph(v) \in {"barrierLast", "barrierCopy", "barrierFlush", "blockingWait", "copyWait"}
      /\ Ph(v)' \in {"reserveLast", "reserveCopy", "reserveFlush", "reserveWait", "kernel", "signalDma"}
      /\ (Ph(v) = "copyWait" <=> Ph(v)' = "signalDma") /\ (Ph(v) = "copyWait" <=> e = "Sdma")
      /\ Ph(v)' = "kernel" => Waiting(v, e) = {}
  OBVIOUS
<1>2. todo[v] # <<>> /\ ~Holding(v) /\ ~HoldPlan(todo'[v]) /\ todo'[v] # <<>> /\ my[v].packet = Nothing
  BY <1>1, CallFacts, CallFactsNext DEF PacketOf, InReserve, InSignal, InWrite
<1>3. vgpu'[v] = [vgpu[v] EXCEPT !.engine = e, !.external = {}] /\ vgpu[v] \in VirtualDevice
  BY DEF Resolve, VirtualInv, Basic, Types
<1>4. /\ vgpu'[v].list = vgpu[v].list /\ vgpu'[v].current = vgpu[v].current /\ vgpu'[v].engine = e
      /\ vgpu'[v].external = {} /\ vgpu'[v].chunk = vgpu[v].chunk /\ vgpu'[v].pending = vgpu[v].pending
  BY ONLY <1>3 DEF VirtualDevice
<1>5. /\ \A t \in Waiting(v, e) : /\ t = Now(t.signal) /\ t.signal \in Pool
                                  /\ t.signal \in vgpu[v].external \/ t.signal = Current(v)
      /\ Busy(Current(v)) /\ (e # "Compute" \/ vgpu[v].engine # "Compute") => \E t \in Waiting(v, e) : t.signal = Current(v)
  BY WaitingIs
<1>6. /\ Calm(v, q, q) /\ CalmPlaces(v, q, q) /\ ~Holding(v)' /\ Current(v)' = Current(v) /\ Hq(v)' = Hq(v)
      /\ Flight'[q] = my'[v].packet
      /\ \A u \in Signals : \A h, j : LowFrom(h, j, u) => LowFrom(h, j, u)'
      /\ \A r \in Pool : \A h, j : Stands(h, j, r) => Stands(h, j, r)'
      /\ \A j : Ahead(v, j)'
  BY ONLY VirtualAssumptions, VirtualInv, VirtualInv', AirInv, v \in VGPUs, Frame(v), <1>2,
     <1>4, <1>5, CalmStay, SameCommands,
     UNCHANGED <<setup, created, signal, ring, dma, done>>, my'[v].cmd = my[v].cmd,
     my'[v].packet.signal = NoTicket,
     my'[v].packet.deps = Waiting(v, e), my'[v].packet.cmd \in {None, my[v].cmd}
<1>7. /\ PacketOf(v) /\ DeviceOf(v) /\ EventOf(v) /\ ReadyOf(v) /\ ~Busy(<<v, vgpu[v].chunk>>)
  BY <1>1, CallFacts
<1>8. PacketOf(v)'
  BY ONLY <1>1, my'[v].packet.signal = NoTicket, my'[v].packet.kind = "barrier",
         Ph(v)' \in {"reserveCopy", "reserveFlush", "reserveWait", "signalDma"} => my'[v].packet.cmd = None,
         Ph(v)' = "reserveLast" => my'[v].packet.cmd = my[v].cmd, my'[v].cmd = my[v].cmd,
         Ph(v)' = "kernel" => my'[v].packet = Nothing DEF PacketOf, InReserve, InSignal, InWrite
<1>9. DeviceOf(v)' BY <1>1, <1>4, <1>7 DEF DeviceOf, Resolved, InSignal
<1>10. EventOf(v)'
  <2>1. /\ Ph(v) # "writeLast" \/ Ph(v)' = "idle"
        /\ Ph(v)' \in InFlush => Ph(v) \in InFlush
        /\ Ph(v)' \notin {"fenceCopy", "fenceFlush", "barrierLast"}
        /\ Ph(v)' \in {"barrierCopy", "barrierFlush"} => Ph(v) \in InFence
    BY DEF InFlush
  <2>2. CallInv BY DEF AirInv
  <2> QED
    BY ONLY CalmEvent, VirtualAssumptions, VirtualInv, v \in VGPUs, <1>2, <1>4, <2>1, <2>2,
       SameCommands, my'[v].cmd = my[v].cmd
<1>11. HandOf(v)'
  <2> SUFFICES ASSUME NEW t \in Waiting(v, e)
               PROVE  \/ Ph(v)' \in InReserve /\ (t.signal = Current(v)' \/ \E d \in command'[my'[v].cmd].waits : command'[d].hwEvent = t.signal)
                      \/ Ph(v)' = "signalDma" /\ t.signal = Current(v)'
    BY DEF HandOf
  <2>1. Ph(v)' \in InReserve \cup {"signalDma"} BY <1>1 DEF InReserve
  <2>2. CASE t.signal = Current(v) BY ONLY <1>6, <2>1, <2>2
  <2>3. CASE t.signal \in vgpu[v].external
    <3>1. /\ vgpu[v].external = {command[d].hwEvent : d \in command[my[v].cmd].waits} /\ Ph(v) \in Unresolved
      BY ONLY <1>7, <2>3 DEF EventOf
    <3>2. Ph(v)' \in InReserve BY ONLY <1>1, <2>1, <3>1 DEF Unresolved, InFence, InBarrier
    <3>3. PICK d \in command[my[v].cmd].waits : command[d].hwEvent = t.signal BY ONLY <2>3, <3>1
    <3>4. my[v].cmd \in Commands /\ command[my[v].cmd].waits \subseteq Commands
      BY <1>2, SetupFacts DEF VirtualInv, Basic, InCall, Types, Commands, CommandObject
    <3>5. d \in command'[my'[v].cmd].waits /\ command'[d].hwEvent = t.signal
      BY ONLY <3>3, <3>4, SameCommands, my'[v].cmd = my[v].cmd DEF SameCommands
    <3> QED BY ONLY <3>2, <3>5
  <2> QED BY ONLY <1>5, <2>2, <2>3
<1>12. PICK s \in Pool : s = Current(v) /\ s = Current(v)' BY <1>6, PoolParts
<1>13. Busy(s)' <=> Busy(s) BY DEF Busy
<1>14. (\E t \in Waiting(v, e) : t.signal = s) => AwaitsAt(q, s)' BY <1>6 DEF AwaitsAt, InHand
<1>15. ReadyOf(v)'
  <2>1. PICK h : h = Hq(v) /\ h = Hq(v)' BY <1>6
  <2>2. Busy(s) /\ vgpu[v].engine = "Compute" => \E i \in Int : Stands(h, i, s)
    BY ONLY <1>1, <1>2, <1>7, <1>12, <2>1 DEF ReadyOf, InReserve
  <2>3. Busy(s) /\ vgpu[v].engine = "Compute" => \E i \in Int : Stands(h, i, s)'
    BY ONLY <1>6, <2>2, s \in Pool
  <2>4. Busy(s) /\ e = "Compute" /\ vgpu[v].engine # "Compute" => Ph(v)' \in InReserve /\ AwaitsAt(q, s)'
    <3>1. Busy(s) /\ e = "Compute" /\ vgpu[v].engine # "Compute" => \E t \in Waiting(v, e) : t.signal = s
      BY ONLY <1>5, <1>12
    <3>2. Waiting(v, e) # {} /\ e = "Compute" => Ph(v)' \in InReserve BY ONLY <1>1 DEF InReserve
    <3> QED BY ONLY <1>14, <3>1, <3>2
  <2>5. Busy(s) /\ Ph(v)' = "signalDma" => AwaitsAt(q, s)'
    BY ONLY <1>1, <1>5, <1>12, <1>14, e \in {"Compute", "Sdma"}
  <2>6. Busy(s)' /\ e = "Compute" => (\E i \in Int : Stands(h, i, s)') \/ (Ph(v)' \in InReserve /\ AwaitsAt(q, s)')
    BY ONLY <1>13, <2>3, <2>4
  <2>7. Busy(s)' /\ Ph(v)' = "signalDma" => AwaitsAt(q, s)' BY ONLY <1>13, <2>5
  <2> QED BY ONLY <1>4, <1>6, <1>12, <2>1, <2>6, <2>7 DEF ReadyOf, InHand, Busy
<1>16. StillBehind(v, q) /\ (Quiet(v)' => Quiet(v)) /\ ~Signalled(v)'
       /\ (~Signalled(v) /\ (vgpu[v].pending \/ Ph(v) \in Computes) => Ph(v)' \in Computes)
  <2>1. CASE e = "Compute"
    <3>1. Ph(v)' \in Computes /\ ~Signalled(v)' BY ONLY <1>1, <2>1 DEF Computes, Signalled, InReserve
    <3> QED BY ONLY ActiveStay, v \in VGPUs, <1>2, <1>6, <3>1, my'[v].cmd = my[v].cmd
  <2>2. CASE e = "Sdma"
    <3>1. Ph(v) = "copyWait" /\ Ph(v)' = "signalDma" /\ ~vgpu[v].pending
      BY ONLY <1>1, <1>7, <2>2 DEF DeviceOf
    <3>2. ~Signalled(v)' /\ Quiet(v) /\ Ph(v) \notin Computes
      BY ONLY <3>1 DEF Signalled, Quiet, Computes, InBarrier, InReserve, InSignal, InWrite
    <3>3. StillBehind(v, q)
      <4> SUFFICES ASSUME NEW h, NEW j, CallBehind(v, h, j) PROVE CallBehind(v, h, j)' BY DEF StillBehind
      <4>1. Hq(v) = h /\ LowFrom(h, j, s) BY ONLY <1>12, <3>1, CallBehind(v, h, j) DEF CallBehind
      <4>2. LowFrom(h, j, s)' BY ONLY <1>6, <4>1, SignalKinds, VirtualAssumptions, s \in Pool
      <4>3. Busy(s) BY <4>1, SignalKinds, LowFromIs DEF AirInv
      <4>4. PICK t \in my'[v].packet.deps : t.signal = s
        BY ONLY <1>5, <1>12, <2>2, <4>3, my'[v].packet.deps = Waiting(v, e)
      <4>5. LowFrom(h, j, t.signal)' BY ONLY <4>2, <4>4
      <4> QED BY ONLY <1>2, <1>6, <3>1, <4>1, <4>4, <4>5 DEF CallBehind
    <3> QED BY ONLY <3>1, <3>2, <3>3
  <2> QED BY ONLY <2>1, <2>2, e \in {"Compute", "Sdma"}
<1>17. \A h, n : InHand(v) # InRing(h, n) BY PlacesApart
<1>18. Ph(v) # "reserveChunk" /\ ~Busy(<<v, vgpu'[v].chunk>>) BY <1>1, <1>4, <1>7
<1>19. CalmDevice(v, q, q) BY ONLY <1>8, <1>9, <1>10, <1>11, <1>15, <1>16, <1>17, <1>18 DEF CalmDevice
<1> QED BY ONLY CalmKeeps, VirtualAssumptions, VirtualInv, VirtualInv', AirInv, v \in VGPUs, <1>6,
     <1>19

(* The parts of a new packet. *)
LEMMA NewPacketIs ==
  /\ \A D : LET p == [Nothing EXCEPT !.deps = D] IN
       p.deps = D /\ p.signal = NoTicket /\ p.cmd = None /\ p.kind = "barrier" /\ (D = {} => p = Nothing)
  /\ \A D, c : LET p == [Nothing EXCEPT !.deps = D, !.cmd = c] IN
       p.deps = D /\ p.signal = NoTicket /\ p.cmd = c /\ p.kind = "barrier"
  /\ \A c : LET p == [Nothing EXCEPT !.kind = "kernel", !.cmd = c] IN
       p.deps = {} /\ p.signal = NoTicket /\ p.cmd = c /\ p.kind = "kernel"
  /\ \A t : LET p == [Nothing EXCEPT !.signal = t] IN
       p.deps = {} /\ p.signal = t /\ p.cmd = None /\ p.kind = "barrier"
BY DEF Nothing

(* The waits of a kernel are resolved. *)
LEMMA BlockingWaitKeeps ==
  ASSUME VirtualAssumptions, VirtualInv, VirtualInv', AirInv, NEW v \in VGPUs, BlockingWait(v)
  PROVE  AirInv'
<1>1. Frame(v) /\ SameCommands /\ my'[v].cmd = my[v].cmd
  <2>1. ~(GrowList(v) \/ ReuseSignal(v)) BY DEF BlockingWait, GrowList, ReuseSignal, Do
  <2> QED BY <2>1, HostFrame DEF Host
<1>2. Ph(v) = "blockingWait" /\ Ph(v)' = IF Waiting(v, "Compute") = {} THEN "kernel" ELSE "reserveWait"
  BY WaitPhases DEF VirtualInv
<1>3. PICK D : D = Waiting(v, "Compute") OBVIOUS
<1>4. my'[v].packet = [Nothing EXCEPT !.deps = D] /\ Resolve(v, "Compute")
      /\ UNCHANGED <<setup, created, signal, ring, dma, done>>
  <2>1. my \in [VGPUs -> MyRecord] /\ my[v] \in MyRecord BY DEF VirtualInv, Basic, Types
  <2> QED BY <1>3, <2>1 DEF BlockingWait, MyRecord
<1>5. /\ my'[v].packet.deps = D /\ my'[v].packet.signal = NoTicket /\ my'[v].packet.cmd = None
      /\ my'[v].packet.kind = "barrier" /\ (D = {} => my'[v].packet = Nothing)
  BY ONLY <1>4, NewPacketIs
<1>6. Ph(v)' \in {"kernel", "reserveWait"} /\ (Ph(v)' = "kernel" <=> D = {}) BY ONLY <1>2, <1>3
<1> QED BY ONLY ResolveKeeps, VirtualAssumptions, VirtualInv, VirtualInv', AirInv, v \in VGPUs, <1>1,
     <1>2, <1>3, <1>4, <1>5, <1>6

(* The waits of a barrier are resolved. *)
LEMMA BarrierKeeps ==
  ASSUME VirtualAssumptions, VirtualInv, VirtualInv', AirInv, NEW v \in VGPUs, Barrier(v)
  PROVE  AirInv'
<1>1. Frame(v) /\ SameCommands /\ my'[v].cmd = my[v].cmd
  <2>1. ~(GrowList(v) \/ ReuseSignal(v)) BY DEF Barrier, GrowList, ReuseSignal, Do
  <2> QED BY <2>1, HostFrame DEF Host
<1>2. \/ Ph(v) = "barrierLast" /\ Ph(v)' = "reserveLast"
      \/ Ph(v) = "barrierCopy" /\ Ph(v)' = "reserveCopy"
      \/ Ph(v) = "barrierFlush" /\ Ph(v)' = "reserveFlush"
  BY PlainPhases DEF VirtualInv
<1>3. PICK c : c = IF command[my[v].cmd].op \in {"marker", "nop"} THEN my[v].cmd ELSE None OBVIOUS
<1>4. my'[v].packet = [Nothing EXCEPT !.deps = Waiting(v, "Compute"), !.cmd = c] /\ Resolve(v, "Compute")
      /\ UNCHANGED <<setup, created, signal, ring, dma, done>>
  <2>1. my \in [VGPUs -> MyRecord] /\ my[v] \in MyRecord BY DEF VirtualInv, Basic, Types
  <2> QED BY <1>3, <2>1 DEF Barrier, MyRecord
<1>5. /\ my'[v].packet.deps = Waiting(v, "Compute") /\ my'[v].packet.signal = NoTicket /\ my'[v].packet.cmd = c
      /\ my'[v].packet.kind = "barrier"
  BY ONLY <1>4, NewPacketIs
<1>6. /\ c \in {None, my[v].cmd}
      /\ Ph(v)' \in {"reserveCopy", "reserveFlush", "reserveWait", "signalDma"} => c = None
      /\ Ph(v)' = "reserveLast" => c = my[v].cmd
      /\ Ph(v)' # "kernel"
  <2>1. EventOf(v) BY CallFacts
  <2> QED BY ONLY <1>2, <1>3, <2>1 DEF EventOf
<1> QED BY ONLY ResolveKeeps, VirtualAssumptions, VirtualInv, VirtualInv', AirInv, v \in VGPUs, <1>1,
     <1>2, <1>4, <1>5, <1>6

(* The waits of a copy are resolved. *)
LEMMA CopyWaitKeeps ==
  ASSUME VirtualAssumptions, VirtualInv, VirtualInv', AirInv, NEW v \in VGPUs, CopyWait(v)
  PROVE  AirInv'
<1>1. Frame(v) /\ SameCommands /\ my'[v].cmd = my[v].cmd
  <2>1. ~(GrowList(v) \/ ReuseSignal(v)) BY DEF CopyWait, GrowList, ReuseSignal, Do
  <2> QED BY <2>1, HostFrame DEF Host
<1>2. Ph(v) = "copyWait" /\ Ph(v)' = "signalDma" BY PlainPhases DEF VirtualInv
<1>4. my'[v].packet = [Nothing EXCEPT !.deps = Waiting(v, "Sdma")] /\ Resolve(v, "Sdma")
      /\ UNCHANGED <<setup, created, signal, ring, dma, done>>
  <2>1. my \in [VGPUs -> MyRecord] /\ my[v] \in MyRecord BY DEF VirtualInv, Basic, Types
  <2> QED BY <2>1 DEF CopyWait, MyRecord
<1>5. /\ my'[v].packet.deps = Waiting(v, "Sdma") /\ my'[v].packet.signal = NoTicket /\ my'[v].packet.cmd = None
      /\ my'[v].packet.kind = "barrier"
  BY ONLY <1>4, NewPacketIs
<1>6. Ph(v)' # "reserveLast" /\ Ph(v)' # "kernel" BY <1>2
<1> QED BY ONLY ResolveKeeps, VirtualAssumptions, VirtualInv, VirtualInv', AirInv, v \in VGPUs, <1>1,
     <1>2, <1>4, <1>5, <1>6

(* A fence, or the end of a flush: a step that leaves the hands empty. *)
LEMMA FenceKeeps ==
  ASSUME VirtualAssumptions, VirtualInv, VirtualInv', AirInv, NEW v \in VGPUs, Fence(v)
  PROVE  AirInv'
<1> DEFINE q == InHand(v)
<1>1. Frame(v) /\ SameCommands /\ my' = my /\ todo[v] # <<>> /\ UNCHANGED <<setup, created, signal, ring, dma, done>>
  <2>1. ~(GrowList(v) \/ ReuseSignal(v)) BY DEF Fence, GrowList, ReuseSignal, Do
  <2> QED BY <2>1, HostFrame DEF Host, Fence
<1>2. PICK b \in BOOLEAN : b <=> vgpu[v].pending \/ vgpu[v].external # {} OBVIOUS
<1>3. /\ Ph(v) = "fenceCopy" => Ph(v)' = IF b THEN "barrierCopy" ELSE "copyWait"
      /\ Ph(v) = "fenceFlush" => Ph(v)' = IF b THEN "barrierFlush" ELSE "waitCurrent"
      /\ Ph(v) \in InFence
  <2>1. \/ Ph(v) = "fenceCopy" /\ Ph(v)' = IF vgpu[v].pending \/ vgpu[v].external # {} THEN "barrierCopy" ELSE "copyWait"
        \/ Ph(v) = "fenceFlush" /\ Ph(v)' = IF vgpu[v].pending \/ vgpu[v].external # {} THEN "barrierFlush" ELSE "waitCurrent"
    BY FencePhases DEF VirtualInv
  <2> QED BY ONLY <1>2, <2>1 DEF InFence
<1>4. /\ vgpu'[v].list = vgpu[v].list /\ vgpu'[v].current = vgpu[v].current /\ vgpu'[v].engine = vgpu[v].engine
      /\ vgpu'[v].external = vgpu[v].external /\ vgpu'[v].chunk = vgpu[v].chunk /\ vgpu'[v].pending = FALSE
  <2>1. vgpu[v] \in VirtualDevice /\ vgpu' = [vgpu EXCEPT ![v].pending = FALSE] /\ vgpu \in [VGPUs -> VirtualDevice]
    BY DEF VirtualInv, Basic, Types, Fence
  <2> QED BY ONLY <2>1, v \in VGPUs DEF VirtualDevice
<1>5. /\ ~Holding(v) /\ ~HoldPlan(todo'[v]) /\ my[v].packet = Nothing
      /\ PacketOf(v) /\ DeviceOf(v) /\ EventOf(v) /\ ReadyOf(v) /\ ~Busy(<<v, vgpu[v].chunk>>)
  BY <1>3, CallFacts, CallFactsNext DEF PacketOf, InReserve, InSignal, InWrite, InFence
<1>6. my[v].packet.signal = NoTicket /\ my[v].packet.deps = {} /\ my[v].packet.cmd = None
  BY <1>5, NothingIs
<1>7. /\ Calm(v, q, q) /\ CalmPlaces(v, q, q) /\ ~Holding(v)' /\ Current(v)' = Current(v) /\ Hq(v)' = Hq(v)
      /\ \A r \in Pool : \A h, j : Stands(h, j, r) => Stands(h, j, r)'
      /\ \A j : Ahead(v, j)'
  BY ONLY VirtualAssumptions, VirtualInv, VirtualInv', AirInv, v \in VGPUs, <1>1, <1>4, <1>5,
     <1>6, CalmStay
<1>8. Ph(v)' \in {"barrierCopy", "barrierFlush", "copyWait", "waitCurrent"} BY ONLY <1>3 DEF InFence
<1>9. PacketOf(v)' BY ONLY <1>1, <1>5, <1>6, <1>8 DEF PacketOf, InReserve, InSignal, InWrite
<1>10. DeviceOf(v)' BY ONLY <1>4, <1>8 DEF DeviceOf, Resolved, InSignal
<1>11. EventOf(v)'
  <2>1. vgpu[v].external # {} => Ph(v)' \in Unresolved
    BY ONLY <1>2, <1>3 DEF Unresolved, InFence, InBarrier
  <2>2. Ph(v) # "writeLast" /\ Ph(v)' \notin {"fenceCopy", "fenceFlush", "barrierLast"}
        /\ (Ph(v)' \in InFlush => Ph(v) \in InFlush)
    BY ONLY <1>3 DEF InFence, InFlush
  <2>3. CallInv /\ my'[v].cmd = my[v].cmd /\ vgpu'[v].external \in {{}, vgpu[v].external}
    BY <1>1, <1>4 DEF AirInv
  <2> QED BY ONLY CalmEvent, VirtualAssumptions, VirtualInv, v \in VGPUs, <1>1, <1>3, <1>4, <2>1,
       <2>2, <2>3
<1>12. HandOf(v)' BY <1>1, <1>6, EmptyHands
<1>13. ReadyOf(v)'
  <2>1. Ph(v) \notin InReserve /\ Ph(v)' # "signalDma" /\ signal' = signal
    BY <1>1, <1>3, <1>8 DEF InReserve, InFence
  <2> QED BY ONLY StayReady, v \in VGPUs, VirtualAssumptions, VirtualInv, <1>4, <1>5, <1>7, <2>1
<1>14. StillBehind(v, q)
  <2>1. CASE b
    <3>1. Ph(v)' \in Computes /\ my'[v].cmd = my[v].cmd
      BY ONLY <1>1, <1>3, <2>1 DEF Computes, InFence, InBarrier
    <3> QED BY ONLY ActiveStay, v \in VGPUs, <1>5, <1>7, <3>1
  <2>2. CASE ~b
    <3>1. command[my[v].cmd].waits = {}
      <4>1. CASE Ph(v) = "fenceCopy" BY ONLY <1>2, <1>5, <2>2, <4>1 DEF EventOf
      <4>2. CASE Ph(v) = "fenceFlush" BY ONLY <1>5, <4>2 DEF EventOf
      <4> QED BY ONLY <1>3, <4>1, <4>2 DEF InFence
    <3> QED BY ONLY <3>1 DEF StillBehind
  <2> QED BY ONLY <2>1, <2>2
<1>15. (Quiet(v)' => Quiet(v)) /\ ~Signalled(v)'
       /\ (~Signalled(v) /\ (vgpu[v].pending \/ Ph(v) \in Computes) => Ph(v)' \in Computes)
  <2>1. ~Signalled(v)' BY ONLY <1>8 DEF Signalled
  <2>2. Quiet(v)' => ~b BY ONLY <1>3, <1>8 DEF Quiet, InFence
  <2>3. ~b => Quiet(v) BY ONLY <1>2, <1>3 DEF Quiet, InFence
  <2>4. vgpu[v].pending \/ Ph(v) \in Computes => b
    BY ONLY <1>2, <1>3 DEF Computes, InFence, InBarrier, InReserve, InSignal, InWrite
  <2>5. b => Ph(v)' \in Computes BY ONLY <1>3 DEF Computes, InFence, InBarrier
  <2> QED BY ONLY <2>1, <2>2, <2>3, <2>4, <2>5
<1>16. (\A h, n : InHand(v) # InRing(h, n)) /\ Ph(v) # "reserveChunk" /\ ~Busy(<<v, vgpu'[v].chunk>>)
  BY <1>3, <1>4, <1>5, PlacesApart DEF InFence
<1>17. CalmDevice(v, q, q) BY ONLY <1>9, <1>10, <1>11, <1>12, <1>13, <1>14, <1>15, <1>16 DEF CalmDevice
<1> QED BY ONLY CalmKeeps, VirtualAssumptions, VirtualInv, VirtualInv', AirInv, v \in VGPUs, <1>7,
     <1>17

(* When the last signal of a quiet device has fallen, the GPU has nothing
   of it left. *)
LEMMA QuietIsDone ==
  ASSUME VirtualAssumptions, VirtualInv, AirInv, NEW v \in VGPUs, Quiet(v), ~Busy(Current(v))
  PROVE  \A i \in Int : InRing(Hq(v), i) \in Air => ~Belongs(v, InRing(Hq(v), i))
<1> SUFFICES ASSUME NEW i \in Int, InRing(Hq(v), i) \in Air, Belongs(v, InRing(Hq(v), i))
             PROVE FALSE
  OBVIOUS
<1>1. PICK u \in Own(v) : LowFrom(Hq(v), i, u) BY DEF AirInv, OrderInv, CoverOf
<1>2. u \in Signals /\ Own(v) \subseteq Pool /\ vgpu[v].list \in Seq(Pool) /\ vgpu[v].current \in 1..Len(vgpu[v].list)
      /\ Len(vgpu[v].list) \in Nat \ {0, 1, 2}
  BY PoolParts
<1>3. Busy(u) BY <1>1, <1>2, LowFromIs DEF AirInv
<1>4. PICK B : B = {s \in Pool : Busy(s)} OBVIOUS
<1>5. \A r, s : Follows(vgpu[v].list, vgpu[v].current, r, s) /\ r \in B => s \in B
  <2> SUFFICES ASSUME NEW r, NEW s, Follow(v, r, s), r \in B PROVE s \in B BY DEF Follow
  <2>1. Distinct(vgpu[v].list) BY DEF AirInv, ListInv
  <2>2. s \in Own(v) BY ONLY <1>2, <2>1, OrderFacts, Follow(v, r, s) DEF Follow, Own
  <2>3. r \in Pool /\ s \in Pool /\ Busy(r) BY ONLY <1>2, <1>4, <2>2, r \in B
  <2>4. Busy(s) BY <2>3 DEF AirInv, OrderInv, FallInv
  <2> QED BY ONLY <1>4, <2>3, <2>4
<1>6. u \in Range(vgpu[v].list) /\ u \in B BY ONLY <1>1, <1>2, <1>3, <1>4 DEF Own
<1>7. Current(v) \in B BY ONLY <1>2, <1>5, <1>6, OrderEnds DEF Current
<1> QED BY <1>4, <1>7

(* A flush waits until the current signal has fallen. *)
LEMMA WaitCurrentKeeps ==
  ASSUME VirtualAssumptions, VirtualInv, VirtualInv', AirInv, NEW v \in VGPUs, WaitCurrent(v)
  PROVE  AirInv'
<1> DEFINE q == InHand(v)
<1>1. Frame(v) /\ SameCommands /\ my' = my /\ todo[v] # <<>> /\ UNCHANGED <<setup, created, signal, ring, dma>>
      /\ done' = done \cup {my[v].cmd} /\ ~Busy(Current(v))
  <2>1. ~(GrowList(v) \/ ReuseSignal(v)) BY DEF WaitCurrent, GrowList, ReuseSignal, Do
  <2> QED BY <2>1, HostFrame DEF Host, WaitCurrent
<1>3. Ph(v) = "waitCurrent" /\ Ph(v)' = "idle" BY PlainPhases DEF VirtualInv
<1>4. /\ vgpu'[v].list = vgpu[v].list /\ vgpu'[v].current = vgpu[v].current /\ vgpu'[v].engine = vgpu[v].engine
      /\ vgpu'[v].external = vgpu[v].external /\ vgpu'[v].chunk = 0 /\ vgpu'[v].pending = vgpu[v].pending
  <2>1. vgpu[v] \in VirtualDevice /\ vgpu' = [vgpu EXCEPT ![v].chunk = 0, ![v].used = 0] /\ vgpu \in [VGPUs -> VirtualDevice]
    BY DEF VirtualInv, Basic, Types, WaitCurrent
  <2> QED BY ONLY <2>1, v \in VGPUs DEF VirtualDevice
<1>5. /\ ~Holding(v) /\ ~HoldPlan(todo'[v]) /\ my[v].packet = Nothing /\ todo'[v] = <<>>
      /\ PacketOf(v) /\ DeviceOf(v) /\ EventOf(v) /\ ReadyOf(v)
  BY <1>3, CallFacts, CallFactsNext DEF PacketOf, InReserve, InSignal, InWrite
<1>6. my[v].packet.signal = NoTicket /\ my[v].packet.deps = {} /\ my[v].packet.cmd = None
  BY <1>5, NothingIs
<1>7. /\ Calm(v, q, q) /\ CalmPlaces(v, q, q) /\ ~Holding(v)' /\ Current(v)' = Current(v) /\ Hq(v)' = Hq(v)
      /\ \A r \in Pool : \A h, j : Stands(h, j, r) => Stands(h, j, r)'
      /\ \A j : Ahead(v, j)'
  BY ONLY VirtualAssumptions, VirtualInv, VirtualInv', AirInv, v \in VGPUs, <1>1, <1>4, <1>5,
     <1>6, CalmStay
<1>9. PacketOf(v)' BY ONLY <1>1, <1>3, <1>5, <1>6 DEF PacketOf, InReserve, InSignal, InWrite
<1>10. DeviceOf(v)' BY ONLY <1>3 DEF DeviceOf, Resolved, InSignal
<1>11. EventOf(v)'
  <2>1. vgpu[v].external = {} BY ONLY <1>3, <1>5 DEF EventOf, Unresolved, InFence, InBarrier
  <2>2. Ph(v) # "writeLast" /\ Ph(v)' \notin {"fenceCopy", "fenceFlush", "barrierLast"}
        /\ Ph(v)' \notin InFlush
    BY ONLY <1>3 DEF InFlush
  <2>3. CallInv /\ my'[v].cmd = my[v].cmd /\ vgpu'[v].external \in {{}, vgpu[v].external}
    BY <1>1, <1>4 DEF AirInv
  <2> QED BY ONLY CalmEvent, VirtualAssumptions, VirtualInv, v \in VGPUs, <1>1, <1>3, <1>4, <2>1,
       <2>2, <2>3
<1>12. HandOf(v)' BY <1>1, <1>6, EmptyHands
<1>13. ReadyOf(v)'
  <2>1. Ph(v) \notin InReserve /\ Ph(v)' # "signalDma" /\ signal' = signal
    BY <1>1, <1>3 DEF InReserve, InFence
  <2> QED BY ONLY StayReady, v \in VGPUs, VirtualAssumptions, VirtualInv, <1>4, <1>5, <1>7, <2>1
<1>14. StillBehind(v, q) BY ONLY <1>3, <1>5 DEF StillBehind, EventOf
<1>15. Quiet(v) /\ ~Signalled(v)' /\ ~(vgpu[v].pending \/ Ph(v) \in Computes)
  BY ONLY <1>3, <1>5
     DEF Quiet, Signalled, Computes, DeviceOf, InBarrier, InReserve, InSignal, InWrite
<1>16. (\A h, n : InHand(v) # InRing(h, n)) /\ Ph(v) # "reserveChunk" BY <1>3, PlacesApart
<1>17. ~Busy(<<v, vgpu'[v].chunk>>)
  <2> SUFFICES ASSUME Busy(<<v, 0>>) PROVE FALSE BY <1>4
  <2>1. 0 \in Chunks /\ <<v, 0>> \notin Pool /\ <<v, 0>> \in Signals
    BY PlacesOf, SignalKinds DEF VirtualInv
  <2>2. PICK a \in Air : Lowers(a) = <<v, 0>> BY <2>1 DEF AirInv, ChunkInv
  <2>3. HasSignal(a) BY <2>1, <2>2, LowersIs DEF AirInv
  <2>4. a # InHand(v) BY <1>3, <2>1, <2>2 DEF AirInv, ChunkInv
  <2>5. \E i \in Int : a = InRing(Hq(v), i)
    <3>1. \A w \in VGPUs : Own(w) \subseteq Pool BY PoolParts
    <3>2. SignalInv BY DEF AirInv
    <3>3. PICK w \in VGPUs, k \in Chunks : Lowers(a) = <<w, k>> /\ (a = InHand(w) \/ \E i \in Int : a = InRing(Hq(w), i))
      BY ONLY <2>1, <2>2, <2>3, <3>1, <3>2 DEF SignalInv, HomeOf
    <3>4. w = v BY ONLY <2>2, <3>3
    <3> QED BY ONLY <2>4, <3>3, <3>4
  <2>6. Belongs(v, a) BY ONLY <2>1, <2>2 DEF Belongs
  <2> QED BY <1>1, <1>15, <2>5, <2>6, QuietIsDone
<1>18. CalmDevice(v, q, q)
  BY ONLY <1>9, <1>10, <1>11, <1>12, <1>13, <1>14, <1>15, <1>16, <1>17 DEF CalmDevice
<1> QED BY ONLY CalmKeeps, VirtualAssumptions, VirtualInv, VirtualInv', AirInv, v \in VGPUs, <1>7,
     <1>18

(* An index is taken. *)
LEMMA TakeKeeps ==
  ASSUME VirtualAssumptions, VirtualInv, VirtualInv', AirInv, NEW v \in VGPUs,
         Reserve(v) \/ Kernel(v)
  PROVE  AirInv'
<1>1. PICK h, w : h = Hq(v) /\ w = ring[Hq(v)].write OBVIOUS
<1>2. PICK n : n = InRing(h, w) OBVIOUS
<1> DEFINE p == InHand(v)
<1>3. /\ Moves(v, p, n) /\ Flight'[n] = my'[v].packet /\ SpotOf(v)' = n /\ SpotOf(v) = p
      /\ my'[v].index = w /\ w \in Nat /\ \A i : InRing(h, i) \in Air => i < w
  <2>1. n = InRing(Hq(v), ring[Hq(v)].write) BY <1>1, <1>2
  <2> QED
    BY ONLY <1>1, <2>1, VirtualAssumptions, VirtualInv, VirtualInv', v \in VGPUs,
       Reserve(v) \/ Kernel(v), TakeMoves, TakeEffect
<1>4. Frame(v) /\ SameCommands /\ todo[v] # <<>> /\ my'[v].cmd = my[v].cmd /\ vgpu' = vgpu
      /\ UNCHANGED <<setup, created, signal, dma, done>>
  <2>1. ~(GrowList(v) \/ ReuseSignal(v)) BY DEF Reserve, Kernel, GrowList, ReuseSignal, Do
  <2> QED BY <2>1, HostFrame DEF Host, Reserve, Kernel, Reserved
<1>5. /\ \/ Ph(v) = "reserveLast" /\ Ph(v)' = "signalLast"
         \/ Ph(v) = "reserveCopy" /\ Ph(v)' = "signalCopy"
         \/ Ph(v) = "reserveFlush" /\ Ph(v)' = "signalFlush"
         \/ Ph(v) = "reserveWait" /\ Ph(v)' = "writeWait"
         \/ Ph(v) = "reserveChunk" /\ Ph(v)' = "writeChunk"
         \/ Ph(v) = "kernel" /\ Ph(v)' \in {"writeLast", "signalLast"}
      /\ Reserve(v) => Ph(v) # "kernel"
      /\ Kernel(v) => Ph(v) = "kernel"
  BY PlainPhases DEF VirtualInv
<1>6. /\ ~Holding(v) /\ Holding(v)' /\ PacketOf(v) /\ DeviceOf(v) /\ EventOf(v) /\ ReadyOf(v) /\ HandOf(v) /\ todo'[v] # <<>>
      /\ Busy(<<v, vgpu[v].chunk>>) => Ph(v) \in {"reserveChunk", "writeChunk", "nextChunk"}
  BY <1>5, CallFacts, CallFactsNext DEF InSignal, InWrite, Holding
<1>7. /\ Reserve(v) => my'[v].packet = my[v].packet
      /\ Kernel(v) => my'[v].packet = [Nothing EXCEPT !.kind = "kernel", !.cmd = my[v].cmd]
  <2>1. my \in [VGPUs -> MyRecord] BY DEF VirtualInv, Basic, Types
  <2> QED BY <2>1 DEF Reserve, Kernel, Reserved, MyRecord
<1>8. Kernel(v) => /\ my'[v].packet.deps = {} /\ my'[v].packet.signal = NoTicket /\ my'[v].packet.cmd = my[v].cmd
                   /\ my'[v].packet.kind = "kernel" /\ my[v].packet = Nothing
                   /\ my[v].packet.deps = {} /\ my[v].packet.signal = NoTicket /\ my[v].packet.cmd = None
  <2>1. Kernel(v) => my[v].packet = Nothing BY <1>5, <1>6 DEF PacketOf, InReserve, InSignal, InWrite
  <2>2. Kernel(v) => /\ my'[v].packet.deps = {} /\ my'[v].packet.signal = NoTicket /\ my'[v].packet.cmd = my[v].cmd
                     /\ my'[v].packet.kind = "kernel"
    <3>1. PICK c, k : c = my[v].cmd /\ k = [Nothing EXCEPT !.kind = "kernel", !.cmd = c] OBVIOUS
    <3>2. k.deps = {} /\ k.signal = NoTicket /\ k.cmd = c /\ k.kind = "kernel" BY ONLY <3>1, NewPacketIs
    <3> QED BY ONLY <1>7, <3>1, <3>2
  <2>3. Kernel(v) => my[v].packet.deps = {} /\ my[v].packet.signal = NoTicket /\ my[v].packet.cmd = None
    BY ONLY <2>1, NothingIs, VirtualAssumptions
  <2> QED BY ONLY <2>1, <2>2, <2>3
<1>9. /\ my'[v].packet.deps = my[v].packet.deps /\ my'[v].packet.signal = my[v].packet.signal
      /\ my[v].packet.cmd \in {None, my'[v].packet.cmd} /\ my'[v].packet.cmd \in {my[v].packet.cmd, my[v].cmd}
  BY <1>7, <1>8
<1>10. Calm(v, p, n) /\ Keeps(p, n) /\ Flight[p] = my[v].packet
  <2>1. Flight[p] = my[v].packet BY ONLY <1>3 DEF Moves
  <2>2. Keeps(p, n) /\ Flight'[n].signal = Flight[p].signal BY ONLY <1>3, <1>9, <2>1 DEF Keeps
  <2>3. /\ Flight'[n].cmd \in {None, Flight[p].cmd, my[v].cmd}
        /\ \A t \in Flight'[n].deps : t \in Flight[p].deps \/ (t = Now(t.signal) /\ t.signal \in Pool)
    BY ONLY <1>3, <1>9, <2>1
  <2>4. w \in Int BY <1>3
  <2> QED BY ONLY <1>1, <1>2, <1>3, <1>4, <2>1, <2>2, <2>3, <2>4 DEF Calm, SameCommands
<1>11. /\ \A u \in Signals : \A g, j : LowFrom(g, j, u) => LowFrom(g, j, u)'
       /\ \A r \in Pool : \A g, j : Stands(g, j, r) => Stands(g, j, r)'
  BY ONLY VirtualAssumptions, <1>3, <1>10, MovesLowFrom, MovesStands
<1>12. Current(v)' = Current(v) /\ Hq(v)' = h /\ Ph(v)' \in Computes /\ ~Signalled(v)'
  <2>1. Ph(v)' \in Computes BY ONLY <1>5 DEF Computes, InSignal, InWrite
  <2>2. Ph(v)' = "writeLast" => my'[v].packet.signal = NoTicket BY <1>5, <1>8
  <2>3. ~Signalled(v)' BY ONLY <1>5, <2>2 DEF Signalled
  <2> QED BY <1>1, <1>4, <2>1, <2>3 DEF Current, Hq
<1>13. \A g, j : InRing(g, j) \in Air' /\ Ahead(v, j) /\ g = Hq(v) => Ahead(v, j)' BY ONLY <1>3 DEF Moves
<1>14. Ahead(v, w)' /\ InRing(h, w) \in Air'
  <2>1. w <= my'[v].index BY ONLY <1>3
  <2> QED BY ONLY <1>2, <1>3, <2>1 DEF Ahead, Moves
<1>15. StillBehind(v, n) /\ ~Quiet(v)'
  <2>1. Hq(v)' = Hq(v) /\ my'[v].cmd = my[v].cmd BY <1>1, <1>4, <1>12
  <2> QED BY ONLY ActiveStay, v \in VGPUs, <1>6, <1>12, <1>13, <2>1
<1>16. CalmPlaces(v, p, n)
  <2>1. ASSUME NEW t \in my'[v].packet.deps
        PROVE OwnWait(v, h, w, t.signal)' \/ ExtWait(h, w, t.signal)'
    <3>0. Ph(v) \in InReserve /\ t \in my[v].packet.deps BY <1>5, <1>7, <1>8, <2>1 DEF InReserve
    <3>1. t.signal = Current(v) \/ \E e \in command[my[v].cmd].waits : command[e].hwEvent = t.signal
      BY ONLY <1>6, <3>0 DEF HandOf, InReserve
    <3>2. CASE t.signal = Current(v)
      <4>1. OpenFor(v, w)' BY ONLY <1>12, <1>14 DEF OpenFor
      <4> QED BY ONLY <1>12, <3>2, <4>1 DEF OwnWait
    <3>3. CASE \E e \in command[my[v].cmd].waits : command[e].hwEvent = t.signal
      <4>1. PICK e \in command[my[v].cmd].waits : command[e].hwEvent = t.signal BY ONLY <3>3
      <4>2. my[v].cmd \in Commands /\ command[my[v].cmd].waits \subseteq Commands
        BY <1>4, SetupFacts DEF VirtualInv, Basic, InCall, Types, Commands, CommandObject
      <4>3. PICK d \in Commands : d = my[v].cmd /\ d = my'[v].cmd BY <1>4, <4>2
      <4>4. e \in command'[d].waits /\ command'[e].hwEvent = t.signal
        BY ONLY <1>4, <4>1, <4>2, <4>3 DEF SameCommands
      <4>5. CallBehind(v, h, w)'
        <5>1. Ph(v)' \notin {"copyWait", "signalDma", "copy", "waitCurrent"} BY ONLY <1>5
        <5> QED BY ONLY <1>6, <1>12, <1>14, <5>1 DEF CallBehind
      <4>6. Behind(d, h, w)' BY ONLY <4>3, <4>5, v \in VGPUs DEF Behind
      <4> QED BY ONLY <4>3, <4>4, <4>6 DEF ExtWait
    <3> QED BY ONLY <3>1, <3>2, <3>3
  <2>2. \A g, i : n = InRing(g, i) => g = h /\ i = w BY ONLY <1>2, PlacesApart
  <2>3. Flight'[n].kind = "kernel" => Flight'[n].deps = {}
    BY <1>3, <1>5, <1>6, <1>7, <1>8 DEF PacketOf, InReserve
  <2> QED BY ONLY <1>3, <1>4, <2>1, <2>2, <2>3 DEF CalmPlaces
<1>17. PacketOf(v)'
  <2>1. CASE Reserve(v)
    <3>1. /\ Ph(v) # "kernel" /\ my'[v].packet = my[v].packet /\ my'[v].cmd = my[v].cmd
      BY <1>4, <1>5, <1>7, <2>1
    <3> QED BY ONLY <1>5, <1>6, <3>1 DEF PacketOf, InReserve, InSignal, InWrite
  <2>2. CASE Kernel(v)
    <3>1. Ph(v)' \in {"writeLast", "signalLast"} BY <1>5, <2>2
    <3> QED BY ONLY <1>4, <1>8, <2>2, <3>1 DEF PacketOf, InReserve, InSignal, InWrite
  <2> QED BY <2>1, <2>2
<1>18. DeviceOf(v)' BY ONLY <1>4, <1>5, <1>6 DEF DeviceOf, Resolved, InSignal
<1>19. EventOf(v)'
  <2>1. vgpu[v].external # {} => Ph(v)' \in Unresolved
    BY ONLY <1>5, <1>6 DEF EventOf, Unresolved, InFence, InBarrier
  <2>2. /\ Ph(v)' # "writeLast" \/ Ph(v) = "kernel"
        /\ Ph(v) # "writeLast"
        /\ Ph(v)' \notin {"fenceCopy", "fenceFlush", "barrierLast", "barrierCopy", "barrierFlush"}
        /\ (Ph(v)' \in InFlush => Ph(v) \in InFlush)
    BY ONLY <1>5 DEF InFlush
  <2>3. CallInv /\ vgpu'[v].external \in {{}, vgpu[v].external} /\ (vgpu'[v].external # {} => Ph(v)' \in Unresolved)
    BY <1>4, <2>1 DEF AirInv
  <2> QED BY ONLY CalmEvent, VirtualAssumptions, VirtualInv, v \in VGPUs, <1>4, <2>2, <2>3
<1>20. HandOf(v)' BY ONLY <1>6 DEF HandOf
<1>21. ReadyOf(v)'
  <2>1. PICK s \in Pool : s = Current(v) /\ s = Current(v)' BY <1>12, PoolParts
  <2>2. Busy(s)' <=> Busy(s) BY <1>4 DEF Busy
  <2>3. Busy(s) /\ vgpu[v].engine = "Compute" => Stands(h, w, s)'
    <3>1. CASE \E i \in Int : Stands(h, i, s)
      <4>1. PICK i \in Int : Stands(h, i, s) BY ONLY <3>1
      <4>2. PICK k \in Int : InRing(h, k) \in Air /\ (Lowers(InRing(h, k)) = s \/ AwaitsAt(InRing(h, k), s))
        BY ONLY <4>1 DEF Stands
      <4>3. k <= w BY ONLY <1>3, <4>2
      <4>4. Stands(h, w, s) BY ONLY <4>2, <4>3 DEF Stands
      <4> QED BY ONLY <1>11, <4>4, s \in Pool
    <3>2. CASE AwaitsAt(p, s)
      <4>1. AwaitsAt(n, s)' BY ONLY <1>10, <3>2 DEF AwaitsAt, Keeps
      <4>2. w \in Int /\ w <= w BY ONLY <1>3
      <4> QED BY ONLY <1>2, <1>14, <4>1, <4>2 DEF Stands, AwaitsAt, InRing
    <3>3. Busy(s) /\ vgpu[v].engine = "Compute" => (\E i \in Int : Stands(h, i, s)) \/ AwaitsAt(p, s)
      BY ONLY <1>1, <1>6, <2>1 DEF ReadyOf
    <3> QED BY ONLY <3>1, <3>2, <3>3
  <2>4. Ph(v)' # "signalDma" BY <1>5
  <2> QED BY ONLY <1>3, <1>4, <1>6, <1>12, <2>1, <2>2, <2>3, <2>4 DEF ReadyOf, Busy
<1>22. Busy(<<v, vgpu'[v].chunk>>) => Ph(v)' \in {"reserveChunk", "writeChunk", "nextChunk"}
  BY ONLY <1>4, <1>5, <1>6
<1>23. InHand(v) # n BY ONLY <1>2, PlacesApart
<1>24. CalmDevice(v, p, n)
  BY ONLY <1>12, <1>15, <1>17, <1>18, <1>19, <1>20, <1>21, <1>22, <1>23 DEF CalmDevice
<1> QED BY ONLY CalmKeeps, VirtualAssumptions, VirtualInv, VirtualInv', AirInv, v \in VGPUs, <1>10,
     <1>16, <1>24

(* The packet is stored. *)
LEMMA WriteKeeps ==
  ASSUME VirtualAssumptions, VirtualInv, VirtualInv', AirInv, NEW v \in VGPUs, Write(v)
  PROVE  AirInv'
<1>1. PICK h, w : h = Hq(v) /\ w = my[v].index OBVIOUS
<1>2. PICK n : n = InRing(h, w) /\ n = SpotOf(v) BY WriteMoves, <1>1
<1>3. /\ Moves(v, n, n) /\ Flight'[n] = my[v].packet /\ SpotOf(v)' = InHand(v) /\ Holding(v) /\ ~HoldPlan(todo'[v])
      /\ w \in Int
  <2>1. w \in Int BY <1>1 DEF VirtualInv, Basic, Types, MyRecord
  <2> QED BY <1>2, <2>1, WriteMoves
<1>4. Flight[n] = my[v].packet /\ n \in Air /\ n \in Air' BY ONLY <1>3 DEF Moves
<1>5. /\ Frame(v) /\ SameCommands /\ todo[v] # <<>> /\ my'[v].cmd = my[v].cmd
      /\ UNCHANGED <<setup, created, signal, dma, done>>
  <2>1. ~(GrowList(v) \/ ReuseSignal(v)) BY DEF Write, GrowList, ReuseSignal, Do
  <2> QED BY <2>1, HostFrame DEF Host, Write
<1>6. /\ \/ Ph(v) = "writeLast" /\ Ph(v)' = "idle"
         \/ Ph(v) = "writeCopy" /\ Ph(v)' = "copyWait"
         \/ Ph(v) = "writeFlush" /\ Ph(v)' = "waitCurrent"
         \/ Ph(v) = "writeWait" /\ Ph(v)' = "kernel"
         \/ Ph(v) = "writeChunk" /\ Ph(v)' = "nextChunk"
  BY PlainPhases DEF VirtualInv
<1>7. /\ PacketOf(v) /\ DeviceOf(v) /\ EventOf(v) /\ ReadyOf(v) /\ (todo'[v] = <<>> <=> Ph(v)' = "idle")
      /\ Busy(<<v, vgpu[v].chunk>>) => Ph(v) \in {"reserveChunk", "writeChunk", "nextChunk"}
  BY CallFacts, CallFactsNext
<1>8. PICK pk : pk = my[v].packet OBVIOUS
<1>9. /\ my'[v].packet = Nothing
      /\ vgpu'[v].list = vgpu[v].list /\ vgpu'[v].current = vgpu[v].current /\ vgpu'[v].engine = vgpu[v].engine
      /\ vgpu'[v].external = vgpu[v].external /\ vgpu'[v].chunk = vgpu[v].chunk
      /\ pk.kind = "kernel" => vgpu'[v].pending = TRUE
      /\ pk.kind = "barrier" => vgpu'[v].pending \in {FALSE, vgpu[v].pending}
  <2>1. my \in [VGPUs -> MyRecord] /\ vgpu \in [VGPUs -> VirtualDevice] BY DEF VirtualInv, Basic, Types
  <2> QED BY <2>1, <1>8 DEF Write, MyRecord, VirtualDevice
<1>10. PICK s \in Pool : s = Current(v) /\ s = Current(v)' BY <1>9, PoolParts DEF Current
<1>11. s # NoTicket.signal /\ s \in Own(v) /\ s \in Own(v)' BY <1>9, <1>10, PoolParts, SignalKinds DEF Own
<1>12. /\ Ph(v) \in {"writeCopy", "writeFlush"} => pk.signal.signal = s /\ pk.kind = "barrier"
       /\ Ph(v) = "writeLast" => pk.cmd = my[v].cmd /\ (pk.signal.signal = s \/ (pk.kind = "kernel" /\ pk.signal = NoTicket))
       /\ Ph(v) # "writeLast" => pk.cmd = None
       /\ Ph(v) \in {"writeWait", "writeChunk"} => pk.kind = "barrier"
       /\ pk.kind \in {"kernel", "barrier"}
  <2>1. pk.kind \in {"kernel", "barrier"} BY <1>8 DEF VirtualInv, Basic, Types, MyRecord, Packet
  <2> QED BY ONLY <1>6, <1>7, <1>8, <1>10, <2>1 DEF PacketOf, InReserve, InSignal, InWrite
<1>13. Calm(v, n, n) /\ Keeps(n, n)
  <2>1. Keeps(n, n) /\ Flight'[n] = Flight[n] BY ONLY <1>3, <1>4 DEF Keeps
  <2>2. todo'[v] # <<>> => Flight'[n].cmd = None BY ONLY <1>3, <1>6, <1>7, <1>8, <1>12
  <2> QED BY ONLY <1>3, <1>5, <1>9, <2>1, <2>2 DEF Calm, SameCommands
<1>14. \A r \in Pool : \A g, j : Stands(g, j, r) => Stands(g, j, r)'
  BY ONLY VirtualAssumptions, <1>3, <1>13, MovesStands
<1>15. CalmPlaces(v, n, n)
  <2>1. n = InRing(h, w) /\ KindInv /\ h \in HwQueues BY <1>1, <1>2, PoolParts DEF AirInv
  <2>2. Flight[n].kind = "kernel" => Flight[n].deps = {} BY ONLY <1>3, <1>4, <2>1 DEF KindInv
  <2> QED BY ONLY <1>3, <1>4, <1>5, <2>2 DEF CalmPlaces
<1>16. StillBehind(v, n)
  <2> SUFFICES ASSUME NEW g, NEW j, InRing(g, j) \in Air', CallBehind(v, g, j)
               PROVE  \/ command[my[v].cmd].waits = {}
                      \/ CallBehind(v, g, j)'
                      \/ Flight'[n].cmd = my[v].cmd /\ \E k \in Int : k >= j /\ n = InRing(g, k)
    BY DEF StillBehind
  <2>1. g = h /\ j \in Int /\ j <= w
    <3>1. g = Hq(v) /\ Ahead(v, j) BY ONLY <1>6, CallBehind(v, g, j) DEF CallBehind
    <3>2. j \in Int BY BothAir DEF AirFacts
    <3> QED BY ONLY <1>1, <1>3, <3>1, <3>2 DEF Ahead
  <2>2. CASE Ph(v) = "writeLast"
    <3>1. w >= j /\ n = InRing(g, w) /\ w \in Int BY ONLY <1>2, <1>3, <2>1
    <3>2. Flight'[n].cmd = my[v].cmd BY ONLY <1>3, <1>8, <1>12, <2>2
    <3> QED BY ONLY <3>1, <3>2
  <2>3. CASE Ph(v) = "writeFlush" BY ONLY <1>7, <2>3 DEF EventOf
  <2>4. CASE Ph(v) \in {"writeCopy", "writeWait", "writeChunk"}
    <3>1. Ph(v) = "writeCopy" => LowFrom(h, j, s)'
      <4>1. Flight'[InRing(h, w)].signal.signal = s \/ Ph(v) # "writeCopy" BY ONLY <1>2, <1>3, <1>8, <1>12
      <4>2. w >= j /\ w \in Int /\ InRing(h, w) \in Air' BY ONLY <1>2, <1>3, <1>4, <2>1
      <4> QED BY ONLY <4>1, <4>2 DEF LowFrom, Lowers, InRing
    <3>2. Ahead(v, j)' /\ Hq(v)' = h /\ todo'[v] # <<>>
      BY <1>1, <1>3, <1>5, <1>6, <1>7, <2>4 DEF Ahead, Holding, Hq
    <3> QED BY ONLY <1>6, <1>10, <2>1, <2>4, <3>1, <3>2 DEF CallBehind
  <2> QED BY ONLY <1>6, <2>2, <2>3, <2>4
<1>17. PacketOf(v)'
  BY ONLY <1>6, <1>9, NothingIs, VirtualAssumptions DEF PacketOf, InReserve, InSignal, InWrite
<1>18. DeviceOf(v)'
  <2>1. Ph(v) \in {"writeCopy", "writeFlush"} => ~vgpu[v].pending BY ONLY <1>7 DEF DeviceOf
  <2>2. Ph(v) \in {"writeCopy", "writeFlush"} => ~vgpu'[v].pending BY ONLY <1>9, <1>12, <2>1
  <2>3. Ph(v)' = "kernel" => vgpu'[v].engine = "Compute" BY ONLY <1>6, <1>7, <1>9 DEF DeviceOf, Resolved
  <2> QED BY ONLY <1>6, <2>2, <2>3 DEF DeviceOf, Resolved, InSignal
<1>19. EventOf(v)'
  <2>1. vgpu[v].external # {} => Ph(v)' \in Unresolved
    BY ONLY <1>6, <1>7 DEF EventOf, Unresolved, InFence, InBarrier
  <2>2. /\ Ph(v) # "writeLast" \/ Ph(v)' = "idle"
        /\ Ph(v)' \notin {"fenceCopy", "fenceFlush", "barrierLast", "barrierCopy", "barrierFlush"}
        /\ (Ph(v)' \in InFlush => Ph(v) \in InFlush)
    BY ONLY <1>6 DEF InFlush
  <2>3. CallInv /\ vgpu'[v].external \in {{}, vgpu[v].external} /\ (vgpu'[v].external # {} => Ph(v)' \in Unresolved)
    BY <1>9, <2>1 DEF AirInv
  <2> QED BY ONLY CalmEvent, VirtualAssumptions, VirtualInv, v \in VGPUs, <1>5, <2>2, <2>3
<1>20. HandOf(v)' /\ ReadyOf(v)'
  <2>1. HandOf(v)' BY ONLY EmptyHands, <1>9, NothingIs, VirtualAssumptions
  <2>2. /\ Ph(v) \notin InReserve /\ Ph(v)' # "signalDma" /\ signal' = signal /\ Current(v)' = Current(v)
        /\ Hq(v)' = Hq(v) /\ (vgpu'[v].engine = "Compute" => vgpu[v].engine = "Compute") /\ ~Holding(v)'
    BY <1>3, <1>5, <1>6, <1>9 DEF InReserve, Current, Hq, Holding
  <2> QED BY ONLY <2>1, <2>2, <1>7, <1>14, StayReady, v \in VGPUs, VirtualAssumptions, VirtualInv
<1>21. ~Signalled(v) /\ (vgpu[v].pending \/ Ph(v) \in Computes) => ~Signalled(v)' /\ (vgpu'[v].pending \/ Ph(v)' \in Computes)
  <2>1. Ph(v) \in {"writeCopy", "writeFlush"} => Signalled(v) BY ONLY <1>8, <1>11, <1>12 DEF Signalled
  <2>2. Ph(v) = "writeLast" /\ ~Signalled(v) => vgpu'[v].pending = TRUE
    BY ONLY <1>8, <1>9, <1>11, <1>12 DEF Signalled
  <2>3. Ph(v) \in {"writeWait", "writeChunk"} => Ph(v)' \in Computes BY ONLY <1>6 DEF Computes
  <2>4. ~Signalled(v)' BY ONLY <1>6 DEF Signalled
  <2> QED BY ONLY <1>6, <2>1, <2>2, <2>3, <2>4
<1>22. Quiet(v)' => \E k \in Int : /\ n = InRing(Hq(v), k) /\ Lowers(n)' \in Own(v)'
                                   /\ \A j \in Int : Ahead(v, j) => j <= k
  <2>1. Quiet(v)' => pk.signal.signal = s BY ONLY <1>6, <1>9, <1>12 DEF Quiet, InFence
  <2>2. Quiet(v)' => Lowers(n)' \in Own(v)'
    <3>1. Flight'[n].signal.signal = pk.signal.signal BY ONLY <1>3, <1>8
    <3> QED BY ONLY <1>11, <2>1, <3>1 DEF Lowers
  <2> QED BY ONLY <1>1, <1>2, <1>3, <2>2 DEF Ahead
<1>23. /\ Busy(<<v, vgpu'[v].chunk>>) => Ph(v)' \in {"reserveChunk", "writeChunk", "nextChunk"}
       /\ InHand(v) # n /\ Flight'[n] = Flight[n]
  <2>1. InHand(v) # n /\ Flight'[n] = Flight[n] BY ONLY <1>2, <1>3, <1>4, PlacesApart
  <2> QED BY ONLY <1>6, <1>7, <1>9, <2>1
<1>24. CalmDevice(v, n, n) BY ONLY <1>16, <1>17, <1>18, <1>19, <1>20, <1>21, <1>22, <1>23 DEF CalmDevice
<1> QED BY ONLY CalmKeeps, VirtualAssumptions, VirtualInv, VirtualInv', AirInv, v \in VGPUs, <1>13,
     <1>15, <1>24

(* A copy is given to an engine. *)
LEMMA StartCopyKeeps ==
  ASSUME VirtualAssumptions, VirtualInv, VirtualInv', AirInv, NEW v \in VGPUs, StartCopy(v)
  PROVE  AirInv'
<1>1. PICK pk, c, x, p, q : /\ pk = my[v].packet /\ c = my[v].cmd
                            /\ x = [cmd |-> c, deps |-> pk.deps, signal |-> pk.signal]
                            /\ p = InHand(v) /\ q = InDma(x)
  OBVIOUS
<1>2. /\ Moves(v, p, q) /\ Flight'[q] = x /\ SpotOf(v) = p /\ dma' = dma \cup {x} /\ ~Holding(v) /\ ~HoldPlan(todo'[v])
  BY <1>1, StartCopyMoves DEF AirInv
<1>3. Flight[p] = pk /\ p \in Air BY ONLY <1>1, <1>2 DEF Moves
<1>4. /\ Frame(v) /\ SameCommands /\ todo[v] # <<>> /\ my'[v].cmd = c
      /\ UNCHANGED <<setup, created, signal, done, vgpu>>
  <2>1. ~(GrowList(v) \/ ReuseSignal(v)) BY DEF StartCopy, GrowList, ReuseSignal, Do
  <2> QED BY <1>1, <2>1, HostFrame DEF Host, StartCopy
<1>5. Ph(v) = "copy" /\ Ph(v)' = "idle" BY PlainPhases DEF VirtualInv
<1>6. /\ PacketOf(v) /\ DeviceOf(v) /\ EventOf(v) /\ ReadyOf(v) /\ HandOf(v) /\ todo'[v] = <<>>
      /\ ~Busy(<<v, vgpu[v].chunk>>)
  BY <1>5, CallFacts, CallFactsNext
<1>7. PICK s : s = Current(v) OBVIOUS
<1>8. pk.cmd = None /\ pk.signal.signal = s BY ONLY <1>1, <1>5, <1>6, <1>7 DEF PacketOf
<1>9. x.cmd = c /\ x.deps = pk.deps /\ x.signal = pk.signal BY ONLY <1>1
<1>10. my'[v].packet = Nothing
  <2>1. my \in [VGPUs -> MyRecord] BY DEF VirtualInv, Basic, Types
  <2> QED BY <2>1 DEF StartCopy, MyRecord
<1>11. Calm(v, p, q) /\ Keeps(p, q)
  <2>1. Keeps(p, q) /\ Flight'[q].signal = Flight[p].signal BY ONLY <1>2, <1>3, <1>8, <1>9 DEF Keeps
  <2>2. /\ Flight'[q].cmd = my[v].cmd /\ Ph(v) # "reserveChunk"
        /\ \A t \in Flight'[q].deps : t \in Flight[p].deps
    BY ONLY <1>1, <1>2, <1>3, <1>5, <1>9
  <2> QED BY ONLY <1>1, <1>2, <1>4, <1>6, <2>1, <2>2 DEF Calm, SameCommands
<1>12. /\ \A u \in Signals : \A g, j : LowFrom(g, j, u) => LowFrom(g, j, u)'
       /\ \A r \in Pool : \A g, j : Stands(g, j, r) => Stands(g, j, r)'
  BY ONLY VirtualAssumptions, <1>2, <1>11, MovesLowFrom, MovesStands
<1>13. \A h, i : q # InRing(h, i) BY ONLY <1>1, PlacesApart
<1>14. CalmPlaces(v, p, q)
  <2>1. command[x.cmd].queue = v BY <1>1, <1>4, <1>9 DEF VirtualInv, Basic, InCall
  <2>2. \A t \in x.deps : Follow(v, t.signal, x.signal.signal)
    BY ONLY <1>1, <1>2, <1>5, <1>6, <1>7, <1>8, <1>9 DEF HandOf, InReserve
  <2>3. \A y : y \in dma' /\ y \notin dma => y = x BY ONLY <1>2
  <2> QED BY ONLY <1>13, <2>1, <2>2, <2>3 DEF CalmPlaces
<1>15. StillBehind(v, q)
  <2> SUFFICES ASSUME NEW g, NEW j, CallBehind(v, g, j)
               PROVE  \E y \in dma' : y.cmd = my[v].cmd /\ \E t \in y.deps : LowFrom(g, j, t.signal)'
    BY DEF StillBehind
  <2>1. PICK t \in pk.deps : LowFrom(g, j, t.signal)
    BY ONLY <1>1, <1>5, CallBehind(v, g, j) DEF CallBehind
  <2>2. PICK u \in Signals : u = t.signal BY <1>3, <2>1, SignalKinds DEF AirInv, SignalInv, FreshOf
  <2>3. LowFrom(g, j, u)' BY ONLY <1>12, <2>1, <2>2
  <2> QED
    <3>1. t \in x.deps /\ LowFrom(g, j, t.signal)' BY ONLY <1>9, <2>1, <2>2, <2>3 DEF LowFrom
    <3>2. x \in dma' /\ x.cmd = my[v].cmd BY ONLY <1>1, <1>2, <1>9
    <3> QED BY ONLY <3>1, <3>2
<1>16. PacketOf(v)' /\ DeviceOf(v)'
  <2>1. PacketOf(v)'
    BY ONLY <1>5, <1>10, NothingIs, VirtualAssumptions
       DEF PacketOf, InReserve, InSignal, InWrite
  <2>2. DeviceOf(v)' BY ONLY <1>5 DEF DeviceOf, Resolved, InSignal
  <2> QED BY ONLY <2>1, <2>2
<1>17. EventOf(v)'
  <2>1. vgpu'[v].external = {} BY ONLY <1>4, <1>5, <1>6 DEF EventOf, Unresolved, InFence, InBarrier
  <2>2. /\ Ph(v)' = "idle" /\ Ph(v)' \notin InFlush
        /\ Ph(v)' \notin {"fenceCopy", "fenceFlush", "barrierLast", "barrierCopy", "barrierFlush"}
    BY ONLY <1>5 DEF InFlush
  <2>3. CallInv /\ vgpu'[v].external \in {{}, vgpu[v].external} /\ my'[v].cmd = my[v].cmd
    BY <1>1, <1>4, <2>1 DEF AirInv
  <2> QED BY ONLY CalmEvent, VirtualAssumptions, VirtualInv, v \in VGPUs, <1>4, <2>1, <2>2, <2>3
<1>18. HandOf(v)' /\ ReadyOf(v)'
  <2>1. HandOf(v)' BY ONLY EmptyHands, <1>10, NothingIs, VirtualAssumptions
  <2>2. /\ Ph(v) \notin InReserve /\ Ph(v)' # "signalDma" /\ signal' = signal /\ Current(v)' = Current(v)
        /\ Hq(v)' = Hq(v) /\ (vgpu'[v].engine = "Compute" => vgpu[v].engine = "Compute") /\ ~Holding(v)'
    BY <1>2, <1>4, <1>5 DEF InReserve, Current, Hq, Holding
  <2> QED BY ONLY <2>1, <2>2, <1>6, <1>12, StayReady, v \in VGPUs, VirtualAssumptions, VirtualInv
<1>19. ~(vgpu[v].pending \/ Ph(v) \in Computes) /\ Quiet(v)
  <2>1. ~vgpu[v].pending BY ONLY <1>5, <1>6 DEF DeviceOf
  <2> QED BY ONLY <1>5, <2>1 DEF Computes, InBarrier, InReserve, InSignal, InWrite, Quiet
<1>20. ~Busy(<<v, vgpu'[v].chunk>>) /\ Ph(v) # "reserveChunk" BY ONLY <1>4, <1>5, <1>6
<1>21. CalmDevice(v, p, q) BY ONLY <1>13, <1>15, <1>16, <1>17, <1>18, <1>19, <1>20 DEF CalmDevice
<1> QED BY ONLY CalmKeeps, VirtualAssumptions, VirtualInv, VirtualInv', AirInv, v \in VGPUs, <1>11,
     <1>14, <1>21

----------------------------------------
(* Signals that are armed or lowered by a call.
   What is in the air of the others has nothing to do with signal s. *)
OthersKeep(p, s) ==
  \A a \in Air : a # p =>
    /\ HasSignal(a) => \A u : u = Lowers(a) => Now(u)' = Now(u) /\ Busy(u)'
    /\ \A t \in Flight[a].deps : Now(t.signal)' = Now(t.signal)
    /\ Lowers(a) # s

(* What arming a signal changes. *)
LEMMA ArmedIs ==
  ASSUME VirtualAssumptions, VirtualInv, NEW s \in Signals, Arm(s)
  PROVE  /\ Armed(s) = Now(s)' /\ Busy(s)' /\ Armed(s).signal = s /\ Armed(s) # NoTicket
         /\ \A u \in Signals : u # s => Now(u)' = Now(u) /\ (Busy(u)' <=> Busy(u))
<1>1. signal \in [Signals -> [value : {0, 1}, uses : Nat]] /\ s # None
  BY Kinds DEF VirtualInv, Basic, Types
<1> QED BY <1>1 DEF Arm, Armed, Now, Busy, NoTicket

(* The barrier that guards a chunk. *)
LEMMA ArmChunkKeeps ==
  ASSUME VirtualAssumptions, VirtualInv, VirtualInv', AirInv, NEW v \in VGPUs, Alloc(v),
         ~(vgpu[v].used < ChunkSize)
  PROVE  AirInv'
<1>1. PICK ck, p, k0 : ck = <<v, k0>> /\ p = InHand(v) /\ k0 = vgpu[v].chunk OBVIOUS
<1>2. k0 \in Chunks /\ ck \in Signals /\ ck \notin Pool /\ ck # NoTicket.signal
  BY <1>1, PlacesOf, SignalKinds DEF VirtualInv
<1>3. /\ Frame(v) /\ SameCommands /\ todo[v] # <<>> /\ my'[v].cmd = my[v].cmd /\ vgpu' = vgpu
      /\ UNCHANGED <<setup, created, command, ring, dma, done>>
  <2>1. ~(GrowList(v) \/ ReuseSignal(v)) BY DEF Alloc, GrowList, ReuseSignal, Do
  <2> QED BY <2>1, HostFrame DEF Host, Alloc
<1>4. Arm(ck) /\ my'[v].packet = [Nothing EXCEPT !.signal = Armed(ck)]
  <2>1. my \in [VGPUs -> MyRecord] BY DEF VirtualInv, Basic, Types
  <2> QED BY <2>1, <1>1 DEF Alloc, MyRecord
<1>5. Ph(v) = "alloc" /\ Ph(v)' = "reserveChunk" BY AllocPhases DEF VirtualInv
<1>6. /\ todo'[v] # <<>> /\ ~Holding(v) /\ ~HoldPlan(todo'[v]) /\ ~Holding(v)' /\ my[v].packet = Nothing
      /\ DeviceOf(v) /\ EventOf(v) /\ ReadyOf(v) /\ ~Busy(ck)
  BY <1>1, <1>5, CallFacts, CallFactsNext DEF PacketOf, InReserve, InSignal, InWrite, Holding
<1>7. /\ Armed(ck) = Now(ck)' /\ Busy(ck)' /\ Armed(ck).signal = ck /\ Armed(ck) # NoTicket
      /\ \A u \in Signals : u # ck => Now(u)' = Now(u) /\ (Busy(u)' <=> Busy(u))
  BY ONLY ArmedIs, VirtualAssumptions, VirtualInv, <1>2, <1>4
<1>8. /\ my'[v].packet.deps = {} /\ my'[v].packet.signal = Armed(ck) /\ my'[v].packet.cmd = None /\ my'[v].packet.kind = "barrier"
  <2>1. PICK t, k : t = Armed(ck) /\ k = [Nothing EXCEPT !.signal = t] OBVIOUS
  <2>2. k.deps = {} /\ k.signal = t /\ k.cmd = None /\ k.kind = "barrier" BY ONLY <2>1, NewPacketIs
  <2> QED BY ONLY <1>4, <2>1, <2>2
<1>9. /\ Moves(v, p, p) /\ Flight'[p] = my'[v].packet /\ SpotOf(v)' = p /\ p \in Air /\ p \in Air' /\ Flight[p] = Nothing
  <2>1. SpotOf(v) = p BY ONLY <1>1, <1>6 DEF SpotOf
  <2>2. Moves(v, p, p) /\ Flight'[p] = my'[v].packet /\ SpotOf(v)' = p BY StayMoves, <1>3, <1>6, <2>1
  <2> QED BY ONLY <2>2, <1>6 DEF Moves
<1>10. /\ SignalInv /\ ListInv /\ CmdInv /\ CallInv /\ WaitInv /\ OrderInv /\ ChunkInv /\ KindInv
       /\ \A a \in Air : Flight[a].cmd # None => Flight[a].cmd \in 1..created
  BY DEF AirInv, CmdInv
<1>11. /\ \A w \in VGPUs : Own(w)' = Own(w) /\ Hq(w)' = Hq(w) /\ Current(w)' = Current(w)
       /\ \A w \in VGPUs : \A r, s : Follow(w, r, s)' <=> Follow(w, r, s)
  BY <1>3 DEF Own, Hq, Current, Follow
<1>12. /\ \A s \in Pool : s \in Signals /\ s # ck /\ s # None /\ Now(s)' = Now(s) /\ (Busy(s)' <=> Busy(s))
  BY ONLY <1>2, <1>7, SignalKinds, VirtualAssumptions
<1>13. OthersKeep(p, ck)
  <2> SUFFICES ASSUME NEW a \in Air, a # p
               PROVE  /\ HasSignal(a) => \A u : u = Lowers(a) => Now(u)' = Now(u) /\ Busy(u)'
                      /\ \A t \in Flight[a].deps : Now(t.signal)' = Now(t.signal)
                      /\ Lowers(a) # ck
    BY DEF OthersKeep
  <2>1. FreshOf(a) BY ONLY <1>10, a \in Air DEF SignalInv
  <2>2. Lowers(a) # ck BY ONLY <1>2, <1>6, <1>10, a \in Air, LowersIs, VirtualAssumptions
  <2>3. ASSUME HasSignal(a), NEW u, u = Lowers(a) PROVE Now(u)' = Now(u) /\ Busy(u)'
    BY ONLY <1>7, <2>1, <2>2, <2>3 DEF FreshOf
  <2>4. ASSUME NEW t \in Flight[a].deps PROVE Now(t.signal)' = Now(t.signal)
    <3>1. PICK u \in Pool : u = t.signal BY ONLY <2>1, <2>4 DEF FreshOf
    <3> QED BY ONLY <1>12, <3>1 DEF Now
  <2> QED BY ONLY <2>2, <2>3, <2>4
<1>14. Lowers(p)' = ck /\ HasSignal(p)' /\ Flight[p].signal = NoTicket /\ Flight[p].cmd = None /\ Lowers(p) = None
  BY ONLY <1>7, <1>8, <1>9, NothingIs, VirtualAssumptions DEF Lowers, HasSignal
<1>15. SignalInv'
  <2>1. FreshOf(p)'
    <3>1. Flight'[p].signal = Now(ck)' /\ Flight'[p].deps = {} BY ONLY <1>7, <1>8, <1>9
    <3> QED BY ONLY <1>2, <1>7, <1>14, <3>1 DEF FreshOf, Now, Busy
  <2>2. HomeOf(p)' BY ONLY <1>1, <1>2, <1>14, v \in VGPUs DEF HomeOf, InHand
  <2>3. \A u \in Own(v) : Busy(u) => u \in Own(v)' BY ONLY <1>11, v \in VGPUs
  <2> QED BY ONLY VirtualAssumptions, VirtualInv, VirtualInv', <1>9, <1>10, <1>13, <1>14, <2>1, <2>2,
       <2>3, v \in VGPUs, MovesSignals
       DEF OthersKeep
<1>16. ListInv' BY ONLY <1>3, <1>10 DEF ListInv, Own
<1>17. CmdInv'
  <2>1. /\ Flight'[p].cmd = None
        /\ \A c \in Commands \ (1..created) : command'[c].hwEvent = command[c].hwEvent
    BY ONLY <1>3, <1>8, <1>9
  <2> QED
    BY ONLY VirtualAssumptions, VirtualInv, VirtualInv', <1>3, <1>9, <1>10, <2>1, v \in VGPUs,
       MovesCommands
<1>18. KeepsCommands BY ONLY <1>3 DEF KeepsCommands
<1>19. CallInv'
  <2>1. PacketOf(v)' BY ONLY <1>5, <1>8 DEF PacketOf, InReserve, InSignal, InWrite
  <2>2. DeviceOf(v)' BY ONLY <1>5 DEF DeviceOf, Resolved, InSignal
  <2>3. EventOf(v)'
    <3>1. /\ Ph(v)' \in Unresolved /\ Ph(v) # "writeLast" /\ Ph(v)' \notin InFlush
          /\ Ph(v)' \notin {"fenceCopy", "fenceFlush", "barrierLast"} /\ Ph(v)' \notin {"barrierCopy", "barrierFlush"}
          /\ vgpu'[v].external \in {{}, vgpu[v].external}
      BY ONLY <1>3, <1>5 DEF Unresolved, InFlush
    <3> QED BY ONLY CalmEvent, VirtualAssumptions, VirtualInv, v \in VGPUs, <1>3, <1>10, <3>1
  <2> QED
    BY ONLY VirtualAssumptions, VirtualInv, VirtualInv', <1>3, <1>10, <1>18, <2>1, <2>2, <2>3,
       v \in VGPUs, MovesCalls
<1>20. /\ \A u \in Signals : \A g, j : LowFrom(g, j, u) => LowFrom(g, j, u)'
       /\ \A r \in Pool : \A g, j : Stands(g, j, r) => Stands(g, j, r)'
  BY ONLY <1>1, <1>9, VirtualAssumptions, MovesLowFrom, MovesStands
<1>21. Ph(v)' \in Computes /\ ~Signalled(v)' /\ \A j : Ahead(v, j)'
  BY ONLY <1>5, <1>6 DEF Computes, InReserve, Signalled, Ahead
<1>22. WaitInv'
  <2>1. StillBehind(v, p) BY ONLY ActiveStay, v \in VGPUs, <1>3, <1>6, <1>11, <1>21
  <2>2. StillWaits(v)
    <3> SUFFICES ASSUME NEW h, NEW j, NEW s \in Pool, OwnWait(v, h, j, s)
                 PROVE  OwnWait(v, h, j, s)'
      BY DEF StillWaits
    <3>1. CASE s = Current(v) /\ OpenFor(v, j)
      BY ONLY <1>11, <1>21, <3>1, v \in VGPUs, OwnWait(v, h, j, s) DEF OwnWait, OpenFor
    <3>2. CASE \E u \in Own(v) : Follow(v, s, u) /\ LowFrom(h, j, u)
      <4>1. PICK u \in Own(v) : Follow(v, s, u) /\ LowFrom(h, j, u) BY ONLY <3>2
      <4>2. u \in Signals BY PoolParts
      <4>3. LowFrom(h, j, u)' /\ u \in Own(v)' /\ Follow(v, s, u)' /\ Hq(v)' = Hq(v)
        BY ONLY <1>11, <1>20, <4>1, <4>2, v \in VGPUs
      <4> QED BY ONLY <4>3, OwnWait(v, h, j, s) DEF OwnWait
    <3> QED BY ONLY <3>1, <3>2, OwnWait(v, h, j, s) DEF OwnWait
  <2>3. HandOf(v)' /\ Flight'[p].deps = {} BY ONLY <1>8, <1>9, EmptyHands
  <2>4. \A x \in dma : \A t \in x.deps : command[x.cmd].queue = v /\ Follow(v, t.signal, x.signal.signal)
           => Follow(v, t.signal, x.signal.signal)'
    BY ONLY <1>11, v \in VGPUs
  <2> QED BY ONLY VirtualAssumptions, VirtualInv, VirtualInv', AirInv, <1>1, <1>3, <1>9, <1>18, <2>1,
       <2>2, <2>3, <2>4, v \in VGPUs, MovesWaits
<1>23. FallInv'
  <2>1. \A w \in VGPUs : \A r, s \in Pool : Follow(w, r, s)' /\ Busy(r)' =>
           \/ /\ Follow(w, r, s) /\ Busy(r) /\ (Busy(s) => Busy(s)')
              /\ Lowers(p)' = s => Keeps(p, p) /\ Lowers(p) = s
           \/ Busy(s)' /\ \A a \in Air' : Lowers(a)' = s => Stays(a, r)'
    BY ONLY <1>11, <1>12, <1>14
  <2> QED BY ONLY VirtualAssumptions, <1>1, <1>9, <1>10, <2>1, v \in VGPUs, MovesFall DEF OrderInv
<1>24. ReadyOf(v)'
  <2>1. PICK s \in Pool : s = Current(v) /\ s = Current(v)' BY <1>11, PoolParts
  <2>2. Busy(s)' <=> Busy(s) BY ONLY <1>12, s \in Pool
  <2>3. PICK h : h = Hq(v) /\ h = Hq(v)' BY <1>11
  <2>4. Busy(s) /\ vgpu[v].engine = "Compute" => \E i \in Int : Stands(h, i, s)'
    BY ONLY <1>5, <1>6, <1>20, <2>1, <2>3 DEF ReadyOf, InReserve
  <2> QED BY ONLY <1>3, <1>5, <1>6, <2>1, <2>2, <2>3, <2>4 DEF ReadyOf, Busy
<1>25. CoverOf(v)'
  <2>1. ~Quiet(v)' BY ONLY <1>5 DEF Quiet, InFence
  <2>2. \A u \in Own(v) : Busy(u) => u \in Own(v)' BY ONLY <1>11, v \in VGPUs
  <2> QED
    BY ONLY VirtualAssumptions, VirtualInv, VirtualInv', <1>1, <1>9, <1>10, <1>18, <2>1, <2>2,
       v \in VGPUs, StaysCovered
<1>26. OrderInv'
  <2>1. ASSUME NEW w \in VGPUs, w # v PROVE ReadyOf(w)' /\ CoverOf(w)'
    <3>1. Busy(Current(w))' => Busy(Current(w))
      <4>1. PICK s \in Pool : s = Current(w) /\ s = Current(w)' BY <1>11, PoolParts
      <4> QED BY ONLY <1>12, <4>1 DEF Busy
    <3>2. Belongs(w, p)' => p = p /\ Belongs(w, p)
      <4>1. Flight'[p].cmd = None /\ \A k : Lowers(p)' # <<w, k>> BY ONLY <1>1, <1>8, <1>9, <1>14, <2>1
      <4> QED BY ONLY <4>1 DEF Belongs
    <3> QED BY ONLY VirtualAssumptions, VirtualInv, VirtualInv', <1>1, <1>9, <1>10, <1>18, <2>1,
         <3>1, <3>2, v \in VGPUs, OthersReady
  <2> QED BY ONLY <1>23, <1>24, <1>25, <2>1 DEF OrderInv
<1>27. ChunkInv'
  <2>1. \A w \in VGPUs, k \in Chunks : Busy(<<w, k>>)' => Busy(<<w, k>>) \/ Lowers(p)' = <<w, k>>
    <3>1. \A w \in VGPUs, k \in Chunks : <<w, k>> \in Signals BY SignalKinds
    <3>2. ASSUME NEW w \in VGPUs, NEW k \in Chunks, Busy(<<w, k>>)', <<w, k>> # ck
          PROVE Busy(<<w, k>>)
      <4>1. PICK u \in Signals : u = <<w, k>> /\ u # ck BY ONLY <3>1, <3>2
      <4>2. Busy(u)' BY ONLY <3>2, <4>1 DEF Busy
      <4> QED BY ONLY <1>7, <4>1, <4>2
    <3> QED BY ONLY <1>14, <3>2
  <2>2. \A w \in VGPUs, k \in Chunks : w # v => Lowers(p)' # <<w, k>> \/ Busy(<<w, k>>)
    BY ONLY <1>1, <1>14
  <2>3. \A w \in VGPUs, k \in Chunks : Lowers(p) # <<w, k>> BY <1>2, <1>14, SignalKinds
  <2> QED
    <3>1. Busy(<<v, vgpu[v].chunk>>)' => Ph(v)' \in {"reserveChunk", "writeChunk", "nextChunk"}
      BY ONLY <1>5
    <3>2. \A k \in Chunks : InHand(v) = p /\ Lowers(p)' = <<v, k>> => Ph(v)' = "reserveChunk" BY ONLY <1>5
    <3>3. \A w \in VGPUs, k \in Chunks : Lowers(p) = <<w, k>> => Lowers(p)' = <<w, k>> BY ONLY <2>3
    <3> QED BY ONLY VirtualAssumptions, VirtualInv, VirtualInv', <1>9, <1>10, <2>1, <2>2, <3>1, <3>2,
         <3>3, v \in VGPUs, MovesChunks
<1>28. KindInv'
  <2>1. \A h, i : p # InRing(h, i) BY ONLY <1>1, PlacesApart
  <2> QED BY ONLY VirtualAssumptions, <1>9, <1>10, <2>1, MovesKinds
<1> QED BY ONLY <1>15, <1>16, <1>17, <1>19, <1>22, <1>26, <1>27, <1>28 DEF AirInv

(* The signal of a copy that fails is lowered, and the one before it is
   the current one again. *)
LEMMA CopyFailsKeeps ==
  ASSUME VirtualAssumptions, VirtualInv, VirtualInv', AirInv, NEW v \in VGPUs, CopyFails(v)
  PROVE  AirInv'
<1>1. PICK p, l, c, k : p = InHand(v) /\ l = vgpu[v].list /\ c = vgpu[v].current /\ k = IF c = 1 THEN Len(l) ELSE c - 1
  OBVIOUS
<1>2. PICK s0 : s0 = Current(v) /\ s0 = l[c] BY <1>1 DEF Current
<1>3. l \in Seq(Pool) /\ Len(l) \in Nat \ {0, 1, 2} /\ c \in 1..Len(l) /\ s0 \in Pool /\ s0 \in Signals /\ s0 \in Own(v) /\ Distinct(l)
  <2>1. /\ vgpu[v].list \in Seq(Pool) /\ vgpu[v].current \in 1..Len(vgpu[v].list) /\ Len(vgpu[v].list) \in Nat \ {0, 1, 2}
        /\ Current(v) \in Pool /\ Current(v) \in Own(v) /\ Current(v) \in Signals
    BY PoolParts
  <2>2. Distinct(vgpu[v].list) BY DEF AirInv, ListInv
  <2> QED BY ONLY <1>1, <1>2, <2>1, <2>2
<1>4. /\ Frame(v) /\ SameCommands /\ todo[v] # <<>> /\ my'[v].cmd = my[v].cmd
      /\ UNCHANGED <<setup, created, command, ring, dma, done>>
  <2>1. ~(GrowList(v) \/ ReuseSignal(v)) BY DEF CopyFails, GrowList, ReuseSignal, Do
  <2> QED BY <2>1, HostFrame DEF Host, CopyFails
<1>5. /\ my'[v].packet = Nothing /\ vgpu'[v].list = l /\ vgpu'[v].current = k /\ vgpu'[v].engine = vgpu[v].engine
      /\ vgpu'[v].external = vgpu[v].external /\ vgpu'[v].chunk = vgpu[v].chunk
      /\ signal' = [signal EXCEPT ![s0].value = 0]
  <2>1. my \in [VGPUs -> MyRecord] /\ vgpu \in [VGPUs -> VirtualDevice] BY DEF VirtualInv, Basic, Types
  <2> QED BY <2>1, <1>1, <1>2 DEF CopyFails, MyRecord, VirtualDevice
<1>6. Ph(v) = "copy" /\ Ph(v)' = "alloc" BY FailPhases DEF VirtualInv
<1>7. /\ todo'[v] # <<>> /\ ~Holding(v) /\ ~HoldPlan(todo'[v]) /\ ~Holding(v)'
      /\ PacketOf(v) /\ DeviceOf(v) /\ EventOf(v) /\ ~Busy(<<v, vgpu[v].chunk>>)
  BY <1>6, CallFacts, CallFactsNext DEF InSignal, InWrite, Holding
<1>8. /\ \A u \in Signals : Now(u)' = Now(u) /\ (Busy(u)' <=> Busy(u) /\ u # s0)
  <2>1. signal \in [Signals -> [value : {0, 1}, uses : Nat]] BY DEF VirtualInv, Basic, Types
  <2> QED BY ONLY <1>3, <1>5, <2>1 DEF Now, Busy
<1>9. /\ Moves(v, p, p) /\ Flight'[p] = Nothing /\ SpotOf(v)' = p /\ p \in Air /\ p \in Air' /\ Flight[p] = my[v].packet
  <2>1. SpotOf(v) = p BY ONLY <1>1, <1>7 DEF SpotOf
  <2>2. Holding(v) => my'[v].index = my[v].index BY ONLY <1>7
  <2>3. Moves(v, p, p) /\ Flight'[p] = my'[v].packet /\ SpotOf(v)' = p
    BY StayMoves, <1>4, <1>7, <2>1, <2>2
  <2> QED BY ONLY <2>3, <1>5 DEF Moves
<1>10. /\ SignalInv /\ ListInv /\ CmdInv /\ CallInv /\ WaitInv /\ OrderInv /\ ChunkInv /\ KindInv
       /\ \A a \in Air : Flight[a].cmd # None => Flight[a].cmd \in 1..created
  BY DEF AirInv, CmdInv
<1>11. /\ \A w \in VGPUs : Own(w)' = Own(w) /\ Hq(w)' = Hq(w)
       /\ \A w \in VGPUs : w # v => Current(w)' = Current(w) /\ \A r, s : Follow(w, r, s)' <=> Follow(w, r, s)
  <2>1. \A w \in VGPUs : vgpu'[w].list = vgpu[w].list /\ (w # v => vgpu'[w] = vgpu[w])
    BY ONLY <1>1, <1>4, <1>5 DEF Frame
  <2> QED BY ONLY <1>4, <2>1 DEF Own, Hq, Current, Follow
<1>12. Lowers(p) = s0 /\ Lowers(p)' = None /\ ~HasSignal(p)' /\ (\A a \in Air : a # p => Lowers(a) # s0)
  <2>1. Lowers(p) = s0 BY ONLY <1>2, <1>6, <1>7, <1>9 DEF PacketOf, Lowers
  <2>2. Lowers(p)' = None /\ ~HasSignal(p)'
    BY ONLY <1>9, NothingIs, VirtualAssumptions DEF Lowers, HasSignal
  <2> QED BY ONLY <1>3, <1>9, <1>10, <2>1, <2>2, LowersIs, VirtualAssumptions
<1>13. \A s \in Pool : s \in Signals /\ s # None BY ONLY SignalKinds, VirtualAssumptions
<1>14. SignalInv'
  <2>1. FreshOf(p)' /\ HomeOf(p)'
    BY ONLY <1>9, <1>12, NothingIs, VirtualAssumptions DEF FreshOf, HomeOf, HasSignal
  <2>2. ASSUME NEW a \in Air, a # p
        PROVE  /\ HasSignal(a) => \A u : u = Lowers(a) => Now(u)' = Now(u) /\ Busy(u)'
               /\ \A t \in Flight[a].deps : Now(t.signal)' = Now(t.signal)
    <3>1. FreshOf(a) /\ Lowers(a) # s0 BY ONLY <1>10, <1>12, <2>2 DEF SignalInv
    <3>2. ASSUME HasSignal(a), NEW u, u = Lowers(a) PROVE Now(u)' = Now(u) /\ Busy(u)'
      BY ONLY <1>8, <3>1, <3>2 DEF FreshOf
    <3>3. ASSUME NEW t \in Flight[a].deps PROVE Now(t.signal)' = Now(t.signal)
      <4>1. PICK u \in Pool : u = t.signal BY ONLY <3>1, <3>3 DEF FreshOf
      <4> QED BY ONLY <1>8, <1>13, <4>1 DEF Now
    <3> QED BY ONLY <3>2, <3>3
  <2>3. \A u \in Own(v) : Busy(u) => u \in Own(v)' BY ONLY <1>11, v \in VGPUs
  <2>4. \A a \in Air : a # p /\ HasSignal(p)' => Lowers(a) # Lowers(p)' BY ONLY <1>12
  <2> QED
    BY ONLY VirtualAssumptions, VirtualInv, VirtualInv', <1>9, <1>10, <2>1, <2>2, <2>3, <2>4,
       v \in VGPUs, MovesSignals
<1>15. ListInv'
  <2>1. \A w \in VGPUs : vgpu'[w].list = vgpu[w].list BY ONLY <1>1, <1>4, <1>5 DEF Frame
  <2> QED BY ONLY <1>10, <2>1 DEF ListInv, Own
<1>16. CmdInv'
  <2>1. /\ Flight'[p].cmd = None
        /\ \A d \in Commands \ (1..created) : command'[d].hwEvent = command[d].hwEvent
    BY ONLY <1>4, <1>9, NothingIs, VirtualAssumptions
  <2> QED
    BY ONLY VirtualAssumptions, VirtualInv, VirtualInv', <1>4, <1>9, <1>10, <2>1, v \in VGPUs,
       MovesCommands
<1>17. KeepsCommands BY ONLY <1>4 DEF KeepsCommands
<1>18. CallInv'
  <2>1. PacketOf(v)'
    BY ONLY <1>5, <1>6, NothingIs, VirtualAssumptions
       DEF PacketOf, InReserve, InSignal, InWrite
  <2>2. DeviceOf(v)' BY ONLY <1>6 DEF DeviceOf, Resolved, InSignal
  <2>3. EventOf(v)'
    <3>1. /\ Ph(v)' \in Unresolved /\ Ph(v) # "writeLast" /\ Ph(v)' \notin InFlush
          /\ Ph(v)' \notin {"fenceCopy", "fenceFlush", "barrierLast"} /\ Ph(v)' \notin {"barrierCopy", "barrierFlush"}
          /\ vgpu'[v].external \in {{}, vgpu[v].external}
      BY ONLY <1>5, <1>6 DEF Unresolved, InFlush
    <3> QED BY ONLY CalmEvent, VirtualAssumptions, VirtualInv, v \in VGPUs, <1>4, <1>10, <3>1
  <2> QED
    BY ONLY VirtualAssumptions, VirtualInv, VirtualInv', <1>4, <1>10, <1>17, <2>1, <2>2, <2>3,
       v \in VGPUs, MovesCalls
<1>19. \A u \in Signals : \A g, j : LowFrom(g, j, u) => LowFrom(g, j, u)'
  BY ONLY <1>1, <1>9, VirtualAssumptions, MovesLowFrom
<1>20. Ph(v)' \in Computes /\ (\A j : Ahead(v, j)') /\ ~(vgpu[v].pending \/ Ph(v) \in Computes)
  <2>1. ~vgpu[v].pending BY ONLY <1>6, <1>7 DEF DeviceOf
  <2> QED BY ONLY <1>6, <1>7, <2>1 DEF Computes, InReserve, InBarrier, InSignal, InWrite, Ahead
<1>21. /\ \A r, s : Follow(v, r, s) => Follow(v, r, s)' \/ s = s0
       /\ \A r, s : Follow(v, r, s)' => r = s0 \/ (Follow(v, r, s) /\ s # s0)
  <2>1. /\ k \in 1..Len(l)
        /\ \A r, s : Follows(l, c, r, s) => Follows(l, k, r, s) \/ s = l[c]
        /\ \A r, s : Follows(l, k, r, s) => Follows(l, c, r, s) \/ r = l[c]
    BY ONLY <1>1, <1>3, BackOrder
  <2>2. NextId(k, l) = c
    <3>1. NextId(k, l) = IF k = Len(l) THEN 1 ELSE k + 1 BY ONLY <1>3, <2>1, NextIdIs
    <3> QED BY ONLY <1>1, <1>3, <3>1
  <2>3. \A r, s : Follows(l, k, r, s) => s # l[c] BY ONLY <1>3, <2>1, <2>2, OrderFacts
  <2> QED BY ONLY <1>1, <1>2, <1>5, <2>1, <2>3 DEF Follow
<1>22. WaitInv'
  <2>1. StillBehind(v, p) BY ONLY ActiveStay, v \in VGPUs, <1>4, <1>7, <1>11, <1>20
  <2>2. StillWaits(v)
    <3> SUFFICES ASSUME NEW h, NEW j, NEW s \in Pool, OwnWait(v, h, j, s)
                 PROVE  OwnWait(v, h, j, s)'
      BY DEF StillWaits
    <3>1. PICK u \in Own(v) : Follow(v, s, u) /\ LowFrom(h, j, u)
      BY ONLY <1>20, OwnWait(v, h, j, s) DEF OwnWait, OpenFor
    <3>2. u # s0 BY ONLY <1>1, <1>12, <3>1, PlacesApart DEF LowFrom
    <3>3. u \in Signals BY PoolParts
    <3>4. LowFrom(h, j, u)' /\ u \in Own(v)' /\ Follow(v, s, u)' /\ Hq(v)' = Hq(v)
      BY ONLY <1>11, <1>19, <1>21, <3>1, <3>2, <3>3, v \in VGPUs
    <3> QED BY ONLY <3>4, OwnWait(v, h, j, s) DEF OwnWait
  <2>3. HandOf(v)' /\ Flight'[p].deps = {} BY ONLY <1>5, <1>9, EmptyHands, NothingIs, VirtualAssumptions
  <2>4. ASSUME NEW x \in dma, NEW t \in x.deps, Follow(v, t.signal, x.signal.signal)
        PROVE  Follow(v, t.signal, x.signal.signal)'
    <3>1. InDma(x) \in Air /\ Flight[InDma(x)] = x BY BothAir DEF AirFacts
    <3>2. x.signal.signal # s0 BY ONLY <1>1, <1>12, <3>1, PlacesApart DEF Lowers
    <3>3. PICK r, s : r = t.signal /\ s = x.signal.signal OBVIOUS
    <3>4. Follow(v, r, s)' BY ONLY <1>21, <2>4, <3>2, <3>3
    <3> QED BY ONLY <3>3, <3>4 DEF Follow
  <2> QED BY ONLY VirtualAssumptions, VirtualInv, VirtualInv', AirInv, <1>1, <1>4, <1>9, <1>17, <2>1,
       <2>2, <2>3, <2>4, v \in VGPUs, MovesWaits
<1>23. FallInv'
  <2>1. ASSUME NEW w \in VGPUs, NEW r \in Pool, NEW s \in Pool, Follow(w, r, s)', Busy(r)'
        PROVE  /\ Follow(w, r, s) /\ Busy(r) /\ (Busy(s) => Busy(s)')
               /\ Lowers(p)' = s => Keeps(p, p) /\ Lowers(p) = s
    <3>1. Busy(r) /\ r # s0 BY ONLY <1>8, <1>13, <2>1
    <3>2. CASE w = v BY ONLY <1>8, <1>12, <1>13, <1>21, <2>1, <3>1, <3>2
    <3>3. CASE w # v
      <4>1. Follow(w, r, s) BY ONLY <1>11, <2>1, <3>3
      <4>2. s \in Own(w) BY <4>1, PoolParts, OrderFacts, <1>10 DEF Follow, Own, ListInv
      <4>3. s # s0 BY ONLY <1>3, <1>10, <3>3, <4>2, w \in VGPUs, v \in VGPUs DEF ListInv
      <4> QED BY ONLY <1>8, <1>12, <1>13, <3>1, <4>1, <4>3, s \in Pool
    <3> QED BY ONLY <3>2, <3>3
  <2> QED BY ONLY VirtualAssumptions, <1>1, <1>9, <1>10, <2>1, v \in VGPUs, MovesFall DEF OrderInv
<1>24. ReadyOf(v)'
  <2>1. vgpu'[v].engine = "Sdma" BY ONLY <1>5, <1>6, <1>7 DEF DeviceOf
  <2> QED BY ONLY <1>6, <2>1 DEF ReadyOf
<1>25. CoverOf(v)'
  <2>1. ~Quiet(v)' BY ONLY <1>6 DEF Quiet, InFence
  <2>2. \A u \in Own(v) : Busy(u) => u \in Own(v)' BY ONLY <1>11, v \in VGPUs
  <2> QED
    BY ONLY VirtualAssumptions, VirtualInv, VirtualInv', <1>1, <1>9, <1>10, <1>17, <2>1, <2>2,
       v \in VGPUs, StaysCovered
<1>26. OrderInv'
  <2>1. ASSUME NEW w \in VGPUs, w # v PROVE ReadyOf(w)' /\ CoverOf(w)'
    <3>1. Busy(Current(w))' => Busy(Current(w))
      <4>1. PICK s \in Pool : s = Current(w) /\ s = Current(w)' BY <1>11, <2>1, PoolParts
      <4> QED BY ONLY <1>8, <1>13, <4>1 DEF Busy
    <3>2. ~Belongs(w, p)'
      <4>1. Flight'[p].cmd = None /\ \A j \in Chunks : Lowers(p)' # <<w, j>>
        BY <1>9, <1>12, NothingIs, SignalKinds
      <4> QED BY ONLY <4>1 DEF Belongs
    <3> QED BY ONLY VirtualAssumptions, VirtualInv, VirtualInv', <1>1, <1>9, <1>10, <1>17, <2>1,
         <3>1, <3>2, v \in VGPUs, OthersReady
  <2> QED BY ONLY <1>23, <1>24, <1>25, <2>1 DEF OrderInv
<1>27. ChunkInv'
  <2>1. \A w \in VGPUs, j \in Chunks : <<w, j>> \in Signals /\ <<w, j>> # s0 /\ <<w, j>> # None
    BY <1>3, SignalKinds
  <2>2. ASSUME NEW w \in VGPUs, NEW j \in Chunks, Busy(<<w, j>>)' PROVE Busy(<<w, j>>)
    <3>1. PICK u \in Signals : u = <<w, j>> BY ONLY <2>1
    <3>2. Busy(u)' BY ONLY <2>2, <3>1 DEF Busy
    <3> QED BY ONLY <1>8, <3>1, <3>2
  <2>3. \A w \in VGPUs, j \in Chunks : Lowers(p) # <<w, j>> /\ Lowers(p)' # <<w, j>> BY ONLY <1>12, <2>1
  <2>4. ~Busy(<<v, vgpu[v].chunk>>)'
    <3>1. PICK j \in Chunks : j = vgpu[v].chunk /\ j = vgpu'[v].chunk BY <1>5, PlacesOf DEF VirtualInv
    <3>2. PICK u \in Signals : u = <<v, j>> BY ONLY <2>1, v \in VGPUs
    <3> QED BY ONLY <1>7, <1>8, <3>1, <3>2 DEF Busy
  <2> QED
    BY ONLY VirtualAssumptions, VirtualInv, VirtualInv', <1>9, <1>10, <2>2, <2>3, <2>4,
       v \in VGPUs, MovesChunks
<1>28. KindInv'
  <2>1. \A h, i : p # InRing(h, i) BY ONLY <1>1, PlacesApart
  <2> QED BY ONLY VirtualAssumptions, <1>9, <1>10, <2>1, MovesKinds
<1> QED BY ONLY <1>14, <1>15, <1>16, <1>18, <1>22, <1>26, <1>27, <1>28 DEF AirInv

(* Nobody in the air has anything to do with signal s. *)
Unseen(s) == \A a \in Air : Lowers(a) # s /\ ~AwaitsAt(a, s)

(* That is so of a pool signal when no event retains it and whatever
   device may have it has no use for it. *)
LEMMA UnseenIs ==
  ASSUME VirtualAssumptions, VirtualInv, AirInv, NEW s \in Pool, Retaining(s) = {},
         \A w \in VGPUs : s \in Own(w) => ~Busy(s),
         \A w \in VGPUs : s # Current(w),
         \A w \in VGPUs : \A u \in Signals : Follow(w, s, u) => ~Busy(u)
  PROVE  Unseen(s)
<1>1. /\ SignalInv /\ WaitInv /\ CallInv BY DEF AirInv
<1>2. ASSUME NEW a \in Air PROVE Lowers(a) # s
  <2>1. SUFFICES ASSUME Lowers(a) = s PROVE FALSE OBVIOUS
  <2>2. HasSignal(a) /\ Busy(s)
    BY ONLY <1>1, <2>1, LowersIs, SignalKinds, VirtualAssumptions, s \in Pool, a \in Air
  <2>3. \E w \in VGPUs : s \in Own(w) BY <1>1, <2>1, <2>2, SignalKinds DEF SignalInv, HomeOf
  <2> QED BY ONLY <2>2, <2>3, \A w \in VGPUs : s \in Own(w) => ~Busy(s)
<1>3. \A h, j, w : w \in VGPUs => ~OwnWait(w, h, j, s)
  <2> SUFFICES ASSUME NEW h, NEW j, NEW w \in VGPUs, OwnWait(w, h, j, s) PROVE FALSE OBVIOUS
  <2>1. PICK u \in Own(w) : Follow(w, s, u) /\ LowFrom(h, j, u) BY DEF OwnWait
  <2>2. u \in Signals BY <2>1, PoolParts
  <2> QED
    BY ONLY <1>1, <2>1, <2>2, LowFromIs, VirtualAssumptions,
       \A x \in VGPUs : \A y \in Signals : Follow(x, s, y) => ~Busy(y), w \in VGPUs
<1>4. \A D \in SUBSET Commands : \A e \in D : command[e].hwEvent # s BY DEF Retaining
<1>5. \A c \in Commands : command[c].waits \subseteq Commands
  BY DEF VirtualInv, Basic, Types, CommandObject
<1>6. \A h, j : ~ExtWait(h, j, s) BY ONLY <1>4, <1>5 DEF ExtWait
<1>7. \A h \in HwQueues, i \in Int : InRing(h, i) \in Air => ~AwaitsAt(InRing(h, i), s)
  BY ONLY <1>1, <1>3, <1>6 DEF WaitInv, RingWaits, AwaitsAt
<1>8. AirFacts BY AirIs
<1>9. ASSUME NEW x \in dma PROVE ~AwaitsAt(InDma(x), s)
  <2>1. InDma(x) \in Air /\ Flight[InDma(x)] = x BY <1>8 DEF AirFacts
  <2> SUFFICES ASSUME AwaitsAt(InDma(x), s) PROVE FALSE OBVIOUS
  <2>2. PICK t \in x.deps : t.signal = s BY ONLY <2>1, AwaitsAt(InDma(x), s) DEF AwaitsAt
  <2>3. command[x.cmd].queue \in VGPUs /\ Follow(command[x.cmd].queue, s, x.signal.signal)
    BY ONLY <1>1, <2>2 DEF WaitInv, DmaWaits
  <2>4. x.signal # NoTicket
    BY DEF VirtualInv, Basic, Types, Copy, Ticket, NoTicket, VirtualAssumptions, NoneAssumption
  <2>5. Busy(x.signal.signal) /\ x.signal.signal \in Signals
    BY ONLY <1>1, <2>1, <2>4 DEF SignalInv, FreshOf, HasSignal, Lowers
  <2> QED BY ONLY <2>3, <2>5, \A y \in VGPUs : \A u \in Signals : Follow(y, s, u) => ~Busy(u)
<1>10. ASSUME NEW w \in VGPUs, ~Holding(w) PROVE ~AwaitsAt(InHand(w), s)
  <2>1. InHand(w) \in Air /\ Flight[InHand(w)] = my[w].packet BY <1>8, <1>10 DEF AirFacts
  <2> SUFFICES ASSUME AwaitsAt(InHand(w), s) PROVE FALSE OBVIOUS
  <2>2. PICK t \in my[w].packet.deps : t.signal = s BY ONLY <2>1, AwaitsAt(InHand(w), s) DEF AwaitsAt
  <2>3. s # Current(w) OBVIOUS
  <2>4. \/ Ph(w) \in InReserve /\ \E e \in command[my[w].cmd].waits : command[e].hwEvent = s
        \/ Ph(w) = "copy" /\ Follow(w, s, Current(w))
    BY ONLY <1>1, <1>10, <2>2, <2>3 DEF WaitInv, HandOf
  <2>5. CASE Ph(w) = "copy" /\ Follow(w, s, Current(w))
    <3>1. PacketOf(w) BY ONLY <1>1, <1>10 DEF CallInv
    <3>2. my[w].packet.signal.signal = Current(w) BY ONLY <2>5, <3>1 DEF PacketOf
    <3>3. PICK u \in Signals : u = Current(w) /\ Lowers(InHand(w)) = u BY <2>1, <3>2, PoolParts DEF Lowers
    <3>4. Busy(u) BY ONLY <1>1, <2>1, <3>3, LowersIs, VirtualAssumptions
    <3> QED
      BY ONLY <1>10, <2>5, <3>3, <3>4,
         \A y \in VGPUs : \A z \in Signals : Follow(y, s, z) => ~Busy(z)
  <2>6. CASE Ph(w) \in InReserve /\ \E e \in command[my[w].cmd].waits : command[e].hwEvent = s
    <3>1. todo[w] # <<>> BY <2>6, CallFacts DEF InReserve
    <3>2. my[w].cmd \in Commands BY <3>1, SetupFacts DEF VirtualInv, Basic, InCall, Types, Commands
    <3> QED BY ONLY <1>4, <1>5, <2>6, <3>2
  <2> QED BY ONLY <2>4, <2>5, <2>6
<1>11. ASSUME NEW a \in Air PROVE ~AwaitsAt(a, s)
  <2>1. \/ \E h \in HwQueues, i \in Int : a = InRing(h, i)
        \/ \E x \in dma : a = InDma(x)
        \/ \E w \in VGPUs : a = InHand(w) /\ ~Holding(w)
    BY ONLY <1>8, a \in Air DEF AirFacts
  <2> QED BY ONLY <1>7, <1>9, <1>10, <2>1, a \in Air
<1> QED BY ONLY <1>2, <1>11 DEF Unseen

(* A signal nobody uses becomes the current one, and the list stays in
   order. *)
Attaches(v, m, i, s) ==
  /\ Attach(v, m, i) /\ s = m[i] /\ s \in Pool /\ m \in Seq(Pool) /\ i \in 1..Len(m) /\ Distinct(m) /\ Unseen(s)
  /\ \A w \in VGPUs : w # v => s \notin Own(w)
  /\ (\A u : u \in Range(m) => u \in Own(v) \/ u = s) /\ s \in Range(m) /\ (\A u \in Own(v) : Busy(u) => u \in Range(m))
  /\ \A r, u : Follow(v, r, u) /\ Busy(u) => Follows(m, i, r, u)
  /\ \A r, u : Follows(m, i, r, u) => (Follow(v, r, u) /\ r # s /\ u # s) \/ (r = Current(v) /\ u = s)
  /\ Follows(m, i, Current(v), s) /\ Current(v) # s

(* The list of a device and the order of its signals. *)
LEMMA ListFacts ==
  ASSUME VirtualAssumptions, VirtualInv, AirInv, NEW v \in VGPUs, NEW l, NEW c,
         l = vgpu[v].list, c = vgpu[v].current
  PROVE  /\ l \in Seq(Pool) /\ Len(l) \in Nat \ {0, 1, 2} /\ c \in 1..Len(l) /\ Distinct(l)
         /\ Own(v) = Range(l) /\ Current(v) = l[c] /\ Current(v) \in Own(v) /\ NextPlace(v) = NextId(c, l)
         /\ Peeked(v) = l[NextId(NextId(c, l), l)]
         /\ \A r, s : Follow(v, r, s) <=> Follows(l, c, r, s)
         /\ \A r, s : Follow(v, r, s) => r \in Own(v)
<1>1. /\ vgpu[v].list \in Seq(Pool) /\ vgpu[v].current \in 1..Len(vgpu[v].list) /\ Len(vgpu[v].list) \in Nat \ {0, 1, 2}
      /\ Current(v) \in Own(v)
  BY PoolParts
<1>2. Distinct(vgpu[v].list) BY DEF AirInv, ListInv
<1>3. l \in Seq(Pool) /\ Len(l) \in Nat \ {0, 1, 2} /\ c \in 1..Len(l) /\ Distinct(l) /\ Current(v) \in Own(v)
  BY ONLY <1>1, <1>2, l = vgpu[v].list, c = vgpu[v].current
<1>4. /\ Own(v) = Range(l) /\ Current(v) = l[c] /\ NextPlace(v) = NextId(c, l)
      /\ Peeked(v) = l[NextId(NextId(c, l), l)]
      /\ \A r, s : Follow(v, r, s) <=> Follows(l, c, r, s)
  BY ONLY l = vgpu[v].list, c = vgpu[v].current DEF Own, Current, NextPlace, Peeked, Follow
<1>5. \A r, s : Follows(l, c, r, s) => r \in Range(l) BY ONLY <1>3, OrderFacts
<1> QED BY ONLY <1>3, <1>4, <1>5

(* Nothing refers to a signal that was not created yet. *)
LEMMA NewIsUnseen ==
  ASSUME VirtualAssumptions, VirtualInv, AirInv, NEW s \in Pool, ~Exists(s)
  PROVE  Unseen(s) /\ \A w \in VGPUs : s \notin Own(w)
<1>1. Retaining(s) = {} /\ \A w \in VGPUs : s \notin Own(w) BY DEF Exists, Own
<1>2. ASSUME NEW w \in VGPUs PROVE s # Current(w) /\ \A u : ~Follow(w, s, u)
  <2>1. s \notin Own(w) BY <1>1
  <2>2. Current(w) \in Own(w) /\ \A r, u : Follow(w, r, u) => r \in Own(w) BY ListFacts
  <2> QED BY ONLY <2>1, <2>2
<1> QED BY ONLY <1>1, <1>2, UnseenIs, VirtualAssumptions, VirtualInv, AirInv, s \in Pool

(* The next signal is a new one, *)
LEMMA GrowAttaches ==
  ASSUME VirtualAssumptions, VirtualInv, AirInv, NEW v \in VGPUs, GrowList(v)
  PROVE  \E m, i, s : Attaches(v, m, i, s)
<1>1. PICK l, c, s : l = vgpu[v].list /\ c = vgpu[v].current /\ s = NewSignal OBVIOUS
<1>0. PICK m \in Seq(Pool) : \E i \in 1..Len(m) :
           /\ Attach(v, m, i) /\ i = NextPlace(v) /\ m = InsertAt(l, i, s) /\ s \in Pool /\ ~Exists(s)
  <2>1. \E m \in Seq(Pool) : \E i \in 1..Len(m) :
           /\ Attach(v, m, i) /\ i = NextPlace(v) /\ m = InsertAt(vgpu[v].list, i, NewSignal)
           /\ NewSignal \in Pool /\ ~Exists(NewSignal)
    BY GrowListAttach DEF VirtualInv
  <2> QED BY ONLY <1>1, <2>1
<1>2. PICK i \in 1..Len(m) : Attach(v, m, i) /\ i = NextPlace(v) /\ m = InsertAt(l, i, s) /\ s \in Pool /\ ~Exists(s)
  BY ONLY <1>0
<1>3. /\ l \in Seq(Pool) /\ Len(l) \in Nat \ {0, 1, 2} /\ c \in 1..Len(l) /\ Distinct(l)
      /\ Own(v) = Range(l) /\ Current(v) = l[c] /\ i = NextId(c, l) /\ Current(v) \in Own(v)
      /\ \A r, u : Follow(v, r, u) <=> Follows(l, c, r, u)
  BY ONLY ListFacts, VirtualAssumptions, VirtualInv, AirInv, v \in VGPUs, <1>1, <1>2
<1>4. Unseen(s) /\ \A w \in VGPUs : s \notin Own(w)
  BY ONLY NewIsUnseen, VirtualAssumptions, VirtualInv, AirInv, <1>2
<1>5. /\ m[i] = s
      /\ \A r, u : Follows(l, c, r, u) => Follows(m, i, r, u)
      /\ \A r, u : Follows(m, i, r, u) => Follows(l, c, r, u) \/ (r = l[c] /\ u = s)
      /\ Follows(m, i, l[c], s)
      /\ \A u : u \in Range(m) <=> (u \in Range(l) \/ u = s)
      /\ Distinct(m)
  <2>1. s \notin Range(l) BY ONLY <1>3, <1>4, v \in VGPUs
  <2> QED BY ONLY <1>2, <1>3, <2>1, GrownOrder
<1>6. \A r, u : Follows(l, c, r, u) => r # s /\ u # s BY ONLY <1>3, <1>4, OrderFacts, v \in VGPUs
<1> QED BY ONLY <1>2, <1>3, <1>4, <1>5, <1>6, v \in VGPUs DEF Attaches

(* or one that has fallen, to which nothing refers any more. *)
LEMMA ReuseAttaches ==
  ASSUME VirtualAssumptions, VirtualInv, AirInv, NEW v \in VGPUs, ReuseSignal(v)
  PROVE  \E m, i, s : Attaches(v, m, i, s)
<1>1. PICK l, c, x : l = vgpu[v].list /\ c = vgpu[v].current /\ x = NewSignal OBVIOUS
<1>0. PICK m \in Seq(Pool) : \E i \in 1..Len(m) :
           /\ Attach(v, m, i) /\ i = NextPlace(v) /\ Len(m) = Len(l)
           /\ ~Busy(l[i]) /\ ~Busy(Peeked(v))
           /\ \/ m = l /\ Retaining(m[i]) = {}
              \/ m = [l EXCEPT ![i] = x] /\ x \in Pool /\ ~Exists(x)
  <2>1. \E m \in Seq(Pool) : \E i \in 1..Len(m) :
           /\ Attach(v, m, i) /\ i = NextPlace(v) /\ Len(m) = Len(vgpu[v].list)
           /\ ~Busy(vgpu[v].list[i]) /\ ~Busy(Peeked(v))
           /\ \/ m = vgpu[v].list /\ Retaining(m[i]) = {}
              \/ m = [vgpu[v].list EXCEPT ![i] = NewSignal] /\ NewSignal \in Pool /\ ~Exists(NewSignal)
    BY ReuseSignalAttach DEF VirtualInv
  <2> QED BY ONLY <1>1, <2>1
<1>2. PICK i \in 1..Len(m) :
           /\ Attach(v, m, i) /\ i = NextPlace(v) /\ Len(m) = Len(l)
           /\ ~Busy(l[i]) /\ ~Busy(Peeked(v))
           /\ \/ m = l /\ Retaining(m[i]) = {}
              \/ m = [l EXCEPT ![i] = x] /\ x \in Pool /\ ~Exists(x)
  BY ONLY <1>0
<1>3. /\ l \in Seq(Pool) /\ Len(l) \in Nat \ {0, 1, 2} /\ c \in 1..Len(l) /\ Distinct(l)
      /\ Own(v) = Range(l) /\ Current(v) = l[c] /\ i = NextId(c, l) /\ Current(v) \in Own(v)
      /\ Peeked(v) = l[NextId(i, l)]
      /\ \A r, u : Follow(v, r, u) <=> Follows(l, c, r, u)
  BY ONLY ListFacts, VirtualAssumptions, VirtualInv, AirInv, v \in VGPUs, <1>1, <1>2
<1>4. PICK s \in Pool : s = m[i] BY ONLY <1>2, ElementOfSeq
<1>5. /\ l[i] # l[c] /\ l[i] \in Range(l) /\ i \in 1..Len(l)
      /\ \A r, u : Follows(l, c, r, u) => r \in Range(l) /\ u \in Range(l) /\ u # l[i]
      /\ \A u : Follows(l, c, l[i], u) => ~Busy(u)
  <2>1. i \in 1..Len(l) BY ONLY <1>2
  <2>2. /\ l[i] # l[c] /\ \A r, u : Follows(l, c, r, u) => r \in Range(l) /\ u \in Range(l) /\ u # l[i]
        /\ \A u : Follows(l, c, l[i], u) => u = l[NextId(i, l)]
    BY ONLY <1>3, OrderFacts
  <2>3. l[i] \in Range(l) BY ONLY <1>3, <2>1 DEF Range
  <2> QED BY ONLY <1>2, <1>3, <2>1, <2>2, <2>3
<1>6. (s = l[i] /\ Retaining(s) = {}) \/ (s = x /\ ~Exists(s)) BY ONLY <1>2, <1>3, <1>4
<1>7. \A j \in 1..Len(l) : j # i => m[j] = l[j] BY ONLY <1>2, <1>3
<1>8. ASSUME NEW w \in VGPUs, w # v PROVE l[i] \notin Own(w) BY <1>3, <1>5, <1>8 DEF AirInv, ListInv
<1>9. Unseen(s) /\ (\A w \in VGPUs : w # v => s \notin Own(w)) /\ (s = l[i] \/ s \notin Range(l))
  <2>1. CASE s = l[i] /\ Retaining(s) = {}
    <3>1. ASSUME NEW w \in VGPUs
          PROVE (s \in Own(w) => ~Busy(s)) /\ s # Current(w) /\ \A u \in Signals : Follow(w, s, u) => ~Busy(u)
      <4>1. CASE w = v BY ONLY <1>2, <1>3, <1>5, <2>1, <4>1
      <4>2. CASE w # v
        <5>1. s \notin Own(w) BY ONLY <1>8, <2>1, <4>2, w \in VGPUs
        <5>2. Current(w) \in Own(w) /\ \A r, u : Follow(w, r, u) => r \in Own(w) BY ListFacts
        <5> QED BY ONLY <5>1, <5>2
      <4> QED BY ONLY <4>1, <4>2
    <3> QED BY ONLY <1>8, <2>1, <3>1, UnseenIs, VirtualAssumptions, VirtualInv, AirInv, s \in Pool
  <2>2. CASE ~Exists(s)
    BY ONLY <1>3, <2>2, NewIsUnseen, VirtualAssumptions, VirtualInv, AirInv, s \in Pool,
       v \in VGPUs
  <2> QED BY ONLY <1>6, <2>1, <2>2
<1>10. /\ \A r, u : Follows(l, c, r, u) => Follows(m, i, r, u) \/ r = l[i]
       /\ \A r, u : Follows(m, i, r, u) => Follows(l, c, r, u) \/ (r = l[c] /\ u = s)
       /\ \A u : u \in Range(m) => u \in Range(l) \/ u = s
       /\ \A u : u \in Range(l) => u \in Range(m) \/ u = l[i]
       /\ s \in Range(m) /\ Distinct(m)
  <2>1. m[i] = l[i] \/ m[i] \notin Range(l) BY ONLY <1>4, <1>9
  <2> QED BY ONLY <1>2, <1>3, <1>4, <1>7, <2>1, ReusedOrder
<1>11. \A r, u : Follows(m, i, r, u) => r # s BY ONLY <1>2, <1>3, <1>4, <1>10, OrderFacts
<1>12. Follows(m, i, l[c], s)
  <2>1. c # i /\ m[c] = l[c] /\ c \in 1..Len(m) BY ONLY <1>2, <1>3, <1>5, <1>7
  <2>2. NextId(c, m) = i BY ONLY <1>2, <1>3 DEF NextId
  <2> QED BY ONLY <1>4, <2>1, <2>2 DEF Follows
<1>13. \A r, u : Follow(v, r, u) /\ Busy(u) => Follows(m, i, r, u) BY ONLY <1>3, <1>5, <1>10
<1>14. \A r, u : Follows(m, i, r, u) => (Follow(v, r, u) /\ r # s /\ u # s) \/ (r = Current(v) /\ u = s)
  BY ONLY <1>3, <1>5, <1>9, <1>10, <1>11
<1>15. Current(v) # s BY ONLY <1>3, <1>5, <1>9
<1>16. /\ \A u : u \in Range(m) => u \in Own(v) \/ u = s
       /\ \A u \in Own(v) : Busy(u) => u \in Range(m)
  BY ONLY <1>2, <1>3, <1>10
<1> QED BY ONLY <1>2, <1>3, <1>4, <1>9, <1>10, <1>12, <1>13, <1>14, <1>15, <1>16 DEF Attaches

(* The next signal is taken. *)
LEMMA AttachKeeps ==
  ASSUME VirtualAssumptions, VirtualInv, VirtualInv', AirInv, NEW v \in VGPUs,
         GrowList(v) \/ ReuseSignal(v)
  PROVE  AirInv'
<1>1. PICK m, i, s0 : Attaches(v, m, i, s0)
  BY ONLY GrowAttaches, ReuseAttaches, VirtualAssumptions, VirtualInv, AirInv, v \in VGPUs,
     GrowList(v) \/ ReuseSignal(v)
<1>2. PICK p, pk, w, h, c0 : p = SpotOf(v) /\ pk = my[v].packet /\ w = my[v].index /\ h = Hq(v) /\ c0 = Current(v)
  OBVIOUS
<1>3. /\ Frame(v) /\ todo[v] # <<>> /\ my'[v].cmd = my[v].cmd
      /\ UNCHANGED <<setup, created, ring, dma, done>>
  <2>1. UNCHANGED <<setup, created, ring, dma, done>> BY ONLY <1>1 DEF Attaches, Attach
  <2> QED BY <2>1, HostFrame DEF Host
<1>4. /\ \/ Ph(v) = "signalLast" /\ Ph(v)' = "writeLast"
         \/ Ph(v) = "signalCopy" /\ Ph(v)' = "writeCopy"
         \/ Ph(v) = "signalFlush" /\ Ph(v)' = "writeFlush"
         \/ Ph(v) = "signalDma" /\ Ph(v)' = "copy"
  BY PlainPhases DEF VirtualInv
<1>5. /\ todo'[v] # <<>> /\ (Holding(v) <=> Ph(v) # "signalDma") /\ (HoldPlan(todo'[v]) <=> Holding(v)) /\ (Holding(v)' <=> Holding(v))
      /\ PacketOf(v) /\ DeviceOf(v) /\ EventOf(v) /\ ReadyOf(v) /\ HandOf(v) /\ ~Busy(<<v, vgpu[v].chunk>>)
  BY <1>4, CallFacts, CallFactsNext DEF InSignal, InWrite, Holding
<1>6. my \in [VGPUs -> MyRecord] /\ vgpu \in [VGPUs -> VirtualDevice] /\ command \in [Commands -> CommandObject]
  BY DEF VirtualInv, Basic, Types
<1>7. /\ my'[v].packet = [pk EXCEPT !.signal = Armed(s0)] /\ my'[v].index = w
      /\ vgpu'[v].list = m /\ vgpu'[v].current = i /\ vgpu'[v].engine = vgpu[v].engine /\ vgpu'[v].pending = vgpu[v].pending
      /\ vgpu'[v].external = vgpu[v].external /\ vgpu'[v].chunk = vgpu[v].chunk
      /\ Arm(s0)
  BY <1>1, <1>2, <1>6 DEF Attaches, Attach, MyRecord, VirtualDevice
<1>8. /\ s0 \in Pool /\ s0 \in Signals /\ s0 # None /\ Unseen(s0)
  BY ONLY <1>1, SignalKinds, VirtualAssumptions DEF Attaches
<1>9. /\ Armed(s0) = Now(s0)' /\ Busy(s0)' /\ Armed(s0).signal = s0 /\ Armed(s0) # NoTicket
      /\ \A u \in Signals : u # s0 => Now(u)' = Now(u) /\ (Busy(u)' <=> Busy(u))
  BY ONLY ArmedIs, VirtualAssumptions, VirtualInv, <1>7, <1>8
<1>10. /\ my'[v].packet.deps = pk.deps /\ my'[v].packet.signal = Armed(s0) /\ my'[v].packet.cmd = pk.cmd
       /\ my'[v].packet.kind = pk.kind
  <2>1. pk \in Packet BY <1>2, <1>6 DEF MyRecord
  <2> QED BY ONLY <1>7, <2>1 DEF Packet
<1>11. /\ pk.signal = NoTicket /\ pk.cmd \in {None, my[v].cmd} /\ (Ph(v) # "signalLast" => pk.cmd = None)
       /\ (Ph(v) = "signalLast" => pk.cmd = my[v].cmd)
       /\ (pk.kind = "kernel" => pk.deps = {}) /\ (Ph(v) \in {"signalCopy", "signalFlush"} => pk.kind = "barrier")
  BY ONLY <1>2, <1>4, <1>5 DEF PacketOf
<1>12. /\ Moves(v, p, p) /\ Flight'[p] = my'[v].packet /\ SpotOf(v)' = p /\ p \in Air /\ p \in Air' /\ Flight[p] = pk
  <2>1. Moves(v, p, p) /\ Flight'[p] = my'[v].packet /\ SpotOf(v)' = p
    BY StayMoves, <1>2, <1>3, <1>5, <1>7
  <2> QED BY ONLY <2>1, <1>2 DEF Moves
<1>13. /\ SignalInv /\ ListInv /\ CmdInv /\ CallInv /\ WaitInv /\ OrderInv /\ ChunkInv /\ KindInv
       /\ \A a \in Air : Flight[a].cmd # None => Flight[a].cmd \in 1..created
  BY DEF AirInv, CmdInv
<1>14. /\ \A u : u \in Own(v)' => u \in Own(v) \/ u = s0
       /\ s0 \in Own(v)' /\ (\A u \in Own(v) : Busy(u) => u \in Own(v)') /\ Current(v)' = s0 /\ Hq(v)' = h
       /\ \A r, u : Follow(v, r, u) /\ Busy(u) => Follow(v, r, u)'
       /\ \A r, u : Follow(v, r, u)' => (Follow(v, r, u) /\ r # s0 /\ u # s0) \/ (r = c0 /\ u = s0)
       /\ Follow(v, c0, s0)' /\ c0 # s0
  BY ONLY <1>1, <1>2, <1>3, <1>7 DEF Attaches, Own, Current, Hq, Follow
<1>15. \A x \in VGPUs : x # v => /\ Own(x)' = Own(x) /\ Current(x)' = Current(x) /\ s0 \notin Own(x)
                                  /\ \A r, u : Follow(x, r, u)' <=> Follow(x, r, u)
  <2>1. \A x \in VGPUs : x # v => s0 \notin Own(x) BY ONLY <1>1 DEF Attaches
  <2> QED BY ONLY <1>3, <2>1, OthersStay, v \in VGPUs
<1>16. Keeps(p, p) /\ Lowers(p)' = s0 /\ HasSignal(p)'
  BY ONLY <1>9, <1>10, <1>11, <1>12 DEF Keeps, Lowers, HasSignal
<1>17. \A a \in Air : /\ Lowers(a) # s0 /\ FreshOf(a)
                      /\ \A t \in Flight[a].deps : t.signal # s0 /\ t.signal \in Signals /\ t.signal \in Pool
  <2>1. \A a \in Air : Lowers(a) # s0 /\ \A t \in Flight[a].deps : t.signal # s0
    BY ONLY <1>8 DEF Unseen, AwaitsAt
  <2>2. \A a \in Air : FreshOf(a) /\ \A t \in Flight[a].deps : t.signal \in Pool
    BY ONLY <1>13 DEF SignalInv, FreshOf
  <2> QED BY ONLY <2>1, <2>2, SignalKinds, VirtualAssumptions
<1>18. SignalInv'
  <2>1. FreshOf(p)'
    <3>1. Flight'[p].signal = Now(s0)' BY ONLY <1>9, <1>10, <1>12
    <3>2. ASSUME NEW t \in Flight'[p].deps PROVE t = Now(t.signal)' /\ t.signal \in Pool
      <4>1. t \in Flight[p].deps BY ONLY <1>10, <1>12, <3>2
      <4>2. PICK u \in Signals : u = t.signal /\ u # s0 /\ u \in Pool /\ t = Now(u)
        BY ONLY <1>12, <1>17, <4>1 DEF FreshOf
      <4> QED BY ONLY <1>9, <4>2 DEF Now
    <3> QED BY ONLY <1>8, <1>9, <1>16, <3>1, <3>2 DEF FreshOf, Now, Busy
  <2>2. HomeOf(p)' BY ONLY <1>14, <1>16, v \in VGPUs DEF HomeOf
  <2>3. ASSUME NEW a \in Air, a # p
        PROVE  /\ HasSignal(a) => \A u : u = Lowers(a) => Now(u)' = Now(u) /\ Busy(u)'
               /\ \A t \in Flight[a].deps : Now(t.signal)' = Now(t.signal)
    <3>1. ASSUME HasSignal(a), NEW u, u = Lowers(a) PROVE Now(u)' = Now(u) /\ Busy(u)'
      BY ONLY <1>9, <1>17, <2>3, <3>1 DEF FreshOf
    <3>2. ASSUME NEW t \in Flight[a].deps PROVE Now(t.signal)' = Now(t.signal)
      <4>1. PICK u \in Signals : u = t.signal /\ u # s0 BY ONLY <1>17, <2>3, <3>2
      <4> QED BY ONLY <1>9, <4>1 DEF Now
    <3> QED BY ONLY <3>1, <3>2
  <2>4. \A a \in Air : a # p /\ HasSignal(p)' => Lowers(a) # Lowers(p)' BY ONLY <1>16, <1>17
  <2>5. \A u \in Own(v) : Busy(u) => u \in Own(v)' BY ONLY <1>14
  <2> QED BY ONLY VirtualAssumptions, VirtualInv, VirtualInv', <1>12, <1>13, <2>1, <2>2, <2>3, <2>4,
       <2>5, v \in VGPUs, MovesSignals
<1>19. ListInv'
  <2>1. \A x \in VGPUs : Distinct(vgpu'[x].list)
    BY ONLY <1>1, <1>3, <1>7, <1>13 DEF Attaches, Frame, ListInv
  <2>2. ASSUME NEW x \in VGPUs, NEW y \in VGPUs, x # y PROVE Own(x)' \cap Own(y)' = {}
    <3>1. ASSUME NEW z \in VGPUs, z # v PROVE Own(v)' \cap Own(z)' = {}
      BY ONLY <1>13, <1>14, <1>15, <3>1, v \in VGPUs DEF ListInv
    <3> QED BY ONLY <1>13, <1>15, <2>2, <3>1 DEF ListInv
  <2> QED BY ONLY <2>1, <2>2 DEF ListInv, Distinct
<1>20. my[v].cmd \in 1..created /\ my[v].cmd \in Commands
  BY <1>3, SetupFacts DEF VirtualInv, Basic, InCall, Types, Commands
<1>21. /\ \A d \in Commands : /\ command'[d].queue = command[d].queue /\ command'[d].op = command[d].op
                              /\ command'[d].waits = command[d].waits
                              /\ command'[d].hwEvent = command[d].hwEvent \/ (d = my[v].cmd /\ Ph(v) = "signalLast")
       /\ \A d \in Commands \ (1..created) : command'[d].hwEvent = command[d].hwEvent
       /\ command[my[v].cmd].hwEvent = None
  <2>1. \/ command' = command
        \/ my[v].cmd # None /\ Ph(v) = "signalLast" /\ command' = [command EXCEPT ![my[v].cmd].hwEvent = s0]
    BY ONLY <1>1, <1>2, <1>11 DEF Attaches, Attach
  <2>2. command[my[v].cmd].hwEvent = None BY ONLY <1>4, <1>5 DEF EventOf
  <2>3. \A d \in Commands : /\ command'[d].queue = command[d].queue /\ command'[d].op = command[d].op
                            /\ command'[d].waits = command[d].waits
                            /\ command'[d].hwEvent = command[d].hwEvent \/ (d = my[v].cmd /\ Ph(v) = "signalLast")
    BY ONLY <1>6, <1>20, <2>1 DEF CommandObject
  <2> QED BY ONLY <1>20, <2>2, <2>3
<1>22. KeepsCommands
  <2>1. None \notin Pool BY SignalKinds
  <2> QED BY ONLY <1>3, <1>21, <2>1 DEF KeepsCommands
<1>23. CmdInv'
  <2>1. Flight'[p].cmd \in {None, Flight[p].cmd, my[v].cmd} BY ONLY <1>10, <1>12
  <2> QED
    BY ONLY VirtualAssumptions, VirtualInv, VirtualInv', <1>3, <1>12, <1>13, <1>21, <2>1,
       v \in VGPUs, MovesCommands
<1>24. CallInv'
  <2>1. PacketOf(v)'
    <3>1. Ph(v) = "signalLast" => my'[v].packet.cmd = my'[v].cmd BY ONLY <1>3, <1>10, <1>11
    <3>2. /\ my'[v].packet.signal.signal = Current(v)' /\ (Ph(v) # "signalLast" => my'[v].packet.cmd = None)
          /\ my'[v].packet.kind = "kernel" => my'[v].packet.deps = {}
          /\ Ph(v) \in {"signalCopy", "signalFlush"} => my'[v].packet.kind = "barrier"
      BY ONLY <1>9, <1>10, <1>11, <1>14
    <3> QED BY ONLY <1>4, <3>1, <3>2 DEF PacketOf, InReserve, InSignal, InWrite
  <2>2. DeviceOf(v)' BY ONLY <1>4, <1>5, <1>7 DEF DeviceOf, Resolved, InSignal
  <2>3. EventOf(v)'
    <3>1. vgpu'[v].external = {} BY ONLY <1>4, <1>5, <1>7 DEF EventOf, Unresolved, InFence, InBarrier
    <3>2. Ph(v)' # "writeLast" => command'[my[v].cmd].hwEvent = None BY ONLY <1>4, <1>20, <1>21
    <3>3. Ph(v)' = "writeFlush" => command'[my[v].cmd].waits = {}
      BY ONLY <1>4, <1>5, <1>20, <1>21 DEF EventOf
    <3> QED BY ONLY <1>3, <1>4, <3>1, <3>2, <3>3 DEF EventOf, InFence, InBarrier
  <2>4. \A d \in Commands : d # my[v].cmd => command'[d].hwEvent = command[d].hwEvent BY ONLY <1>21
  <2> QED BY ONLY VirtualAssumptions, VirtualInv, VirtualInv', <1>3, <1>13, <1>22, <2>1, <2>2, <2>3,
       <2>4, v \in VGPUs, MovesCalls
<1>25. /\ \A u \in Signals : \A g, j : LowFrom(g, j, u) => LowFrom(g, j, u)'
       /\ \A r \in Pool : \A g, j : Stands(g, j, r) => Stands(g, j, r)'
  BY ONLY <1>12, <1>16, VirtualAssumptions, MovesLowFrom, MovesStands
<1>26. /\ Ph(v) = "signalDma" => /\ p = InHand(v) /\ ~Holding(v) /\ ~(vgpu[v].pending \/ Ph(v) \in Computes)
                                 /\ vgpu[v].engine = "Sdma" /\ ~vgpu[v].pending
       /\ Ph(v) # "signalDma" => /\ p = InRing(h, w) /\ Holding(v) /\ Ph(v)' \in Computes /\ Ph(v) \in InSignal
                                 /\ vgpu[v].engine = "Compute" /\ w \in Int /\ h \in HwQueues
  <2>1. w \in Int /\ h \in HwQueues BY <1>2, <1>6, PoolParts DEF MyRecord
  <2>2. /\ Ph(v) = "signalDma" => /\ p = InHand(v) /\ ~Holding(v)
        /\ Ph(v) # "signalDma" => p = InRing(h, w) /\ Holding(v)
    BY ONLY <1>2, <1>5 DEF SpotOf
  <2>3. /\ Ph(v) = "signalDma" => /\ ~vgpu[v].pending /\ vgpu[v].engine = "Sdma" /\ Ph(v) \notin Computes
        /\ Ph(v) # "signalDma" => Ph(v)' \in Computes /\ Ph(v) \in InSignal /\ vgpu[v].engine = "Compute"
    BY ONLY <1>4, <1>5
       DEF DeviceOf, Resolved, Computes, InBarrier, InReserve, InSignal, InWrite
  <2> QED BY ONLY <2>1, <2>2, <2>3
<1>27. WaitInv'
  <2>1. StillBehind(v, p)
    <3>1. CASE Ph(v) # "signalDma"
      <4>1. \A g, j : InRing(g, j) \in Air' /\ Ahead(v, j) /\ g = Hq(v) => Ahead(v, j)'
        BY ONLY <1>12 DEF Moves
      <4>2. Hq(v)' = Hq(v) BY ONLY <1>2, <1>14
      <4> QED BY ONLY ActiveStay, v \in VGPUs, <1>3, <1>26, <3>1, <4>1, <4>2
    <3>2. CASE Ph(v) = "signalDma"
      <4> SUFFICES ASSUME NEW g, NEW j, CallBehind(v, g, j) PROVE CallBehind(v, g, j)' BY DEF StillBehind
      <4>1. PICK t \in pk.deps : LowFrom(g, j, t.signal)
        BY ONLY <1>2, <3>2, CallBehind(v, g, j) DEF CallBehind
      <4>2. PICK u \in Signals : u = t.signal BY ONLY <1>12, <1>17, <4>1
      <4>3. LowFrom(g, j, u)' /\ t \in my'[v].packet.deps BY ONLY <1>10, <1>25, <4>1, <4>2
      <4>4. g = Hq(v)' BY ONLY <1>2, <1>14, CallBehind(v, g, j) DEF CallBehind
      <4> QED BY ONLY <1>4, <1>5, <3>2, <4>2, <4>3, <4>4 DEF CallBehind, LowFrom
    <3> QED BY ONLY <3>1, <3>2
  <2>2. StillWaits(v)
    <3> SUFFICES ASSUME NEW g, NEW j, NEW s \in Pool, InRing(g, j) \in Air',
                        OwnWait(v, g, j, s)
                 PROVE  OwnWait(v, g, j, s)'
      BY DEF StillWaits
    <3>0. g = h BY ONLY <1>2, OwnWait(v, g, j, s) DEF OwnWait
    <3>1. CASE s = Current(v) /\ OpenFor(v, j)
      <4>1. Ph(v) # "signalDma" BY ONLY <1>26, <3>1 DEF OpenFor
      <4>2. j \in Int BY BothAir DEF AirFacts
      <4>3. w >= j BY ONLY <1>2, <1>26, <3>1, <4>1, <4>2 DEF OpenFor, Ahead
      <4>4. InRing(h, w) \in Air' /\ Lowers(InRing(h, w))' = s0
        BY ONLY <1>12, <1>16, <1>26, <4>1 DEF Lowers
      <4>5. LowFrom(h, j, s0)' BY ONLY <1>26, <4>1, <4>3, <4>4 DEF LowFrom, Lowers, InRing
      <4> QED BY ONLY <1>2, <1>14, <3>0, <3>1, <4>5 DEF OwnWait
    <3>2. CASE \E u \in Own(v) : Follow(v, s, u) /\ LowFrom(g, j, u)
      <4>1. PICK u \in Own(v) : Follow(v, s, u) /\ LowFrom(g, j, u) BY ONLY <3>2
      <4>2. u \in Signals BY PoolParts
      <4>3. Busy(u) BY ONLY <1>13, <4>1, <4>2, LowFromIs, VirtualAssumptions
      <4>4. LowFrom(g, j, u)' /\ u \in Own(v)' /\ Follow(v, s, u)' /\ Hq(v)' = h
        BY ONLY <1>14, <1>25, <4>1, <4>2, <4>3
      <4> QED BY ONLY <3>0, <4>4 DEF OwnWait
    <3> QED BY ONLY <3>1, <3>2, OwnWait(v, g, j, s) DEF OwnWait
  <2>3. HandOf(v)'
    <3>1. ASSUME Ph(v) = "signalDma", NEW t \in my'[v].packet.deps
          PROVE Follow(v, t.signal, Current(v))'
      <4>1. t.signal = c0 BY ONLY <1>2, <1>5, <1>10, <3>1 DEF HandOf, InReserve
      <4> QED BY ONLY <1>14, <4>1 DEF Follow
    <3> QED BY ONLY <1>4, <1>5, <3>1 DEF HandOf, Follow, Current
  <2>4. ASSUME NEW x \in dma, NEW t \in x.deps, Follow(v, t.signal, x.signal.signal)
        PROVE  Follow(v, t.signal, x.signal.signal)'
    <3>1. InDma(x) \in Air /\ Flight[InDma(x)] = x BY BothAir DEF AirFacts
    <3>2. x.signal # NoTicket
      BY DEF VirtualInv, Basic, Types, Copy, Ticket, NoTicket, VirtualAssumptions,
         NoneAssumption
    <3>3. PICK r, u : r = t.signal /\ u = x.signal.signal OBVIOUS
    <3>4. Busy(u) BY ONLY <1>17, <3>1, <3>2, <3>3 DEF FreshOf, HasSignal, Lowers
    <3>5. Follow(v, r, u)' BY ONLY <1>14, <2>4, <3>3, <3>4
    <3> QED BY ONLY <3>3, <3>5 DEF Follow
  <2>5. \A t \in Flight'[p].deps : t.signal \in Pool /\ t \in Flight[p].deps BY ONLY <1>10, <1>12, <1>17
  <2> QED BY ONLY VirtualAssumptions, VirtualInv, VirtualInv', AirInv, <1>3, <1>12, <1>16, <1>22,
       <2>1, <2>2, <2>3, <2>4, <2>5,
       v \in VGPUs, MovesWaits
<1>28. FallInv'
  <2>1. ASSUME NEW x \in VGPUs, NEW r \in Pool, NEW s \in Pool, Follow(x, r, s)', Busy(r)'
        PROVE  \/ /\ Follow(x, r, s) /\ Busy(r) /\ (Busy(s) => Busy(s)')
                  /\ Lowers(p)' = s => Keeps(p, p) /\ Lowers(p) = s
               \/ Busy(s)' /\ \A a \in Air' : Lowers(a)' = s => Stays(a, r)'
    <3>0. r \in Signals /\ s \in Signals BY ONLY SignalKinds, VirtualAssumptions, r \in Pool, s \in Pool
    <3>1. CASE Follow(x, r, s) /\ r # s0 /\ s # s0 BY ONLY <1>9, <1>16, <2>1, <3>0, <3>1
    <3>2. CASE x = v /\ r = c0 /\ s = s0
      <4>1. Busy(c0) BY ONLY <1>9, <1>14, <2>1, <3>0, <3>2
      <4>2. ASSUME NEW a \in Air', Lowers(a)' = s0 PROVE a = p
        <5>1. \/ a = p
              \/ a = InHand(v) /\ Flight'[a] = Nothing
              \/ a \in Air /\ Flight'[a] = Flight[a]
          BY ONLY <1>12, <4>2 DEF Moves
        <5>2. Nothing.signal.signal # s0 BY ONLY <1>8, NothingIs, VirtualAssumptions
        <5> QED BY ONLY <1>17, <4>2, <5>1, <5>2 DEF Lowers
      <4>3. CASE Ph(v) = "signalDma"
        <5>1. AwaitsAt(p, c0) BY ONLY <1>2, <1>5, <1>26, <4>1, <4>3 DEF ReadyOf
        <5>2. AwaitsAt(p, c0)' BY ONLY <1>10, <1>12, <5>1 DEF AwaitsAt
        <5>3. Stays(p, c0)' BY ONLY <5>2 DEF Stays, AwaitsAt
        <5> QED BY ONLY <1>9, <3>2, <4>2, <5>3 DEF Stays
      <4>4. CASE Ph(v) # "signalDma"
        <5>1. Stands(h, w, c0) BY ONLY <1>2, <1>26, <1>5, <4>1, <4>4 DEF ReadyOf
        <5>2. c0 \in Pool BY ONLY <3>2, r \in Pool
        <5>3. Stands(h, w, c0)' BY ONLY <1>25, <5>1, <5>2
        <5>4. h \in HwQueues /\ w \in Int /\ p = InRing(h, w) BY ONLY <1>26, <4>4
        <5>5. Stays(p, c0)' BY ONLY <5>3, <5>4 DEF Stays, InRing
        <5> QED BY ONLY <1>9, <3>2, <4>2, <5>5 DEF Stays
      <4> QED BY ONLY <4>3, <4>4
    <3>3. CASE x # v
      <4>1. Follow(x, r, s) /\ s0 \notin Own(x) BY ONLY <1>15, <2>1, <3>3
      <4>2. r \in Own(x) BY ONLY ListFacts, VirtualAssumptions, VirtualInv, AirInv, x \in VGPUs, <4>1
      <4>3. Follow(x, r, s) => s \in Own(x) BY <1>13, PoolParts, OrderFacts DEF Follow, Own, ListInv
      <4> QED BY ONLY <1>9, <1>16, <2>1, <3>0, <4>1, <4>2, <4>3
    <3> QED BY ONLY <1>14, <2>1, <3>1, <3>2, <3>3
  <2> QED BY ONLY VirtualAssumptions, <1>12, <1>13, <1>16, <2>1, v \in VGPUs, MovesFall DEF OrderInv
<1>29. ReadyOf(v)'
  <2>1. CASE Ph(v) = "signalDma" BY ONLY <1>4, <1>7, <1>26, <2>1 DEF ReadyOf
  <2>2. CASE Ph(v) # "signalDma"
    <3>1. InRing(h, w) \in Air' /\ Lowers(InRing(h, w))' = s0 BY ONLY <1>12, <1>16, <1>26, <2>2 DEF Lowers
    <3>2. w \in Int /\ w <= w BY ONLY <1>26, <2>2
    <3>3. Stands(h, w, s0)' BY ONLY <3>1, <3>2 DEF Stands, Lowers, InRing
    <3>4. Holding(v)' /\ Ph(v)' # "signalDma" /\ my'[v].index = w /\ Hq(v)' = h /\ Current(v)' = s0
      BY ONLY <1>4, <1>5, <1>7, <1>14, <1>26, <2>2
    <3> QED BY ONLY <3>3, <3>4 DEF ReadyOf, Stands
  <2> QED BY ONLY <2>1, <2>2
<1>30. CoverOf(v)'
  <2>1. Quiet(v)' => Ph(v) = "signalDma" BY ONLY <1>4 DEF Quiet, InFence
  <2>2. Quiet(v)' => Quiet(v) /\ \A g, n : p # InRing(g, n) BY ONLY <1>26, <2>1, PlacesApart DEF Quiet
  <2>3. \A u \in Own(v) : Busy(u) => u \in Own(v)' BY ONLY <1>14
  <2> QED BY ONLY VirtualAssumptions, VirtualInv, VirtualInv', <1>12, <1>13, <1>16, <1>22, <2>2,
       <2>3, v \in VGPUs, StaysCovered
<1>31. OrderInv'
  <2>1. ASSUME NEW x \in VGPUs, x # v PROVE ReadyOf(x)' /\ CoverOf(x)'
    <3>1. Busy(Current(x))' => Busy(Current(x))
      <4>1. PICK s \in Signals : s = Current(x) /\ s = Current(x)' /\ s \in Own(x)
        BY <1>15, <2>1, PoolParts
      <4>2. s # s0 BY ONLY <1>15, <2>1, <4>1
      <4> QED BY ONLY <1>9, <4>1, <4>2 DEF Busy
    <3>2. Belongs(x, p)' => p = p /\ Belongs(x, p)
      <4>1. \A k \in Chunks : Flight'[p].signal.signal # <<x, k>>
        BY ONLY <1>8, <1>9, <1>10, <1>12, <2>1, SignalKinds, VirtualAssumptions
      <4>2. Flight'[p].cmd \in {None, Flight[p].cmd, my[v].cmd} /\ \A d \in Commands : command'[d].queue = command[d].queue
        BY ONLY <1>10, <1>12, <1>21
      <4> QED
        BY ONLY VirtualAssumptions, VirtualInv, <1>3, <1>12, <1>13, <2>1, <4>1, <4>2,
           v \in VGPUs, BelongsStays
    <3> QED BY ONLY VirtualAssumptions, VirtualInv, VirtualInv', <1>12, <1>13, <1>16, <1>22, <2>1,
         <3>1, <3>2, v \in VGPUs, OthersReady
  <2> QED BY ONLY <1>28, <1>29, <1>30, <2>1 DEF OrderInv
<1>32. ChunkInv'
  <2>1. \A x \in VGPUs, j \in Chunks : <<x, j>> \in Signals /\ <<x, j>> # s0 /\ <<x, j>> # None
    BY <1>8, SignalKinds
  <2>2. ASSUME NEW x \in VGPUs, NEW j \in Chunks, Busy(<<x, j>>)' PROVE Busy(<<x, j>>)
    <3>1. PICK u \in Signals : u = <<x, j>> /\ u # s0 BY ONLY <2>1
    <3>2. Busy(u)' BY ONLY <2>2, <3>1 DEF Busy
    <3> QED BY ONLY <1>9, <3>1, <3>2
  <2>3. \A x \in VGPUs, j \in Chunks : Lowers(p) # <<x, j>> /\ Lowers(p)' # <<x, j>>
    BY ONLY <1>11, <1>12, <1>16, <2>1, NothingIs, VirtualAssumptions DEF Lowers
  <2>4. ~Busy(<<v, vgpu[v].chunk>>)'
    <3>1. PICK j \in Chunks : j = vgpu[v].chunk /\ j = vgpu'[v].chunk BY <1>7, PlacesOf DEF VirtualInv
    <3>2. PICK u \in Signals : u = <<v, j>> /\ u # s0 BY ONLY <2>1, v \in VGPUs
    <3> QED BY ONLY <1>5, <1>9, <3>1, <3>2 DEF Busy
  <2> QED
    BY ONLY VirtualAssumptions, VirtualInv, VirtualInv', <1>12, <1>13, <2>2, <2>3, <2>4,
       v \in VGPUs, MovesChunks
<1>33. KindInv'
  <2>1. Flight'[p].kind = "kernel" => Flight'[p].deps = {} BY ONLY <1>10, <1>11, <1>12
  <2> QED BY ONLY VirtualAssumptions, <1>12, <1>13, <2>1, MovesKinds
<1> QED BY ONLY <1>18, <1>19, <1>23, <1>24, <1>27, <1>31, <1>32, <1>33 DEF AirInv

----------------------------------------
(* Steps that leave alone what is in the air. *)
Still ==
  /\ \A a : a \in Air' <=> a \in Air
  /\ \A a \in Air : Flight'[a] = Flight[a]
  /\ setup' = setup /\ signal' = signal /\ dma' = dma
  /\ \A v \in VGPUs : vgpu'[v].list = vgpu[v].list /\ vgpu'[v].current = vgpu[v].current

(* When nothing moves and no signal changes, the places and waits are the
   same, *)
LEMMA StillFacts ==
  ASSUME Still
  PROVE  /\ \A a \in Air : Lowers(a)' = Lowers(a) /\ (HasSignal(a)' <=> HasSignal(a))
         /\ \A a \in Air : \A s : AwaitsAt(a, s)' <=> AwaitsAt(a, s)
         /\ \A s : Now(s)' = Now(s) /\ (Busy(s)' <=> Busy(s))
         /\ \A v : Hq(v)' = Hq(v)
         /\ \A v \in VGPUs : Own(v)' = Own(v) /\ Current(v)' = Current(v)
         /\ \A v \in VGPUs : \A r, s : Follow(v, r, s)' <=> Follow(v, r, s)
         /\ \A h, j, u : LowFrom(h, j, u)' <=> LowFrom(h, j, u)
         /\ \A h, j, u : Stands(h, j, u)' <=> Stands(h, j, u)
<1>1. /\ \A a : a \in Air' <=> a \in Air
      /\ \A a \in Air : Flight'[a] = Flight[a]
      /\ setup' = setup /\ signal' = signal
      /\ \A v \in VGPUs : vgpu'[v].list = vgpu[v].list /\ vgpu'[v].current = vgpu[v].current
  BY DEF Still
<1>2. \A a \in Air : Lowers(a)' = Lowers(a) /\ (HasSignal(a)' <=> HasSignal(a))
  BY ONLY <1>1 DEF Lowers, HasSignal
<1>3. \A a \in Air : \A s : AwaitsAt(a, s)' <=> AwaitsAt(a, s) BY ONLY <1>1 DEF AwaitsAt
<1>4. \A s : Now(s)' = Now(s) /\ (Busy(s)' <=> Busy(s)) BY ONLY <1>1 DEF Now, Busy
<1>5. \A v : Hq(v)' = Hq(v) BY ONLY <1>1 DEF Hq
<1>6. \A v \in VGPUs : Own(v)' = Own(v) /\ Current(v)' = Current(v) BY ONLY <1>1 DEF Own, Current
<1>7. \A v \in VGPUs : \A r, s : Follow(v, r, s)' <=> Follow(v, r, s) BY ONLY <1>1 DEF Follow
<1>8. \A h, j, u : LowFrom(h, j, u)' <=> LowFrom(h, j, u) BY ONLY <1>1, <1>2 DEF LowFrom, InRing
<1>9. \A h, j, u : Stands(h, j, u)' <=> Stands(h, j, u) BY ONLY <1>1, <1>2, <1>3 DEF Stands, InRing
<1> QED BY ONLY <1>2, <1>3, <1>4, <1>5, <1>6, <1>7, <1>8, <1>9

(* and the signals, lists and their order stay as they are. *)
LEMMA StillKeepsSignals ==
  ASSUME AirInv, Still
  PROVE  SignalInv' /\ ListInv' /\ KindInv' /\ FallInv'
<1>0. /\ \A a : a \in Air' <=> a \in Air
      /\ \A a \in Air : Flight'[a] = Flight[a]
      /\ \A v \in VGPUs : vgpu'[v].list = vgpu[v].list
  BY DEF Still
<1>1. /\ \A a \in Air : Lowers(a)' = Lowers(a) /\ (HasSignal(a)' <=> HasSignal(a))
      /\ \A a \in Air : \A s : AwaitsAt(a, s)' <=> AwaitsAt(a, s)
      /\ \A s : Now(s)' = Now(s) /\ (Busy(s)' <=> Busy(s))
      /\ \A v : Hq(v)' = Hq(v)
      /\ \A v \in VGPUs : Own(v)' = Own(v)
      /\ \A v \in VGPUs : \A r, s : Follow(v, r, s)' <=> Follow(v, r, s)
      /\ \A h, j, u : Stands(h, j, u)' <=> Stands(h, j, u)
  BY StillFacts
<1>2. SignalInv /\ ListInv /\ KindInv /\ FallInv BY DEF AirInv, OrderInv
<1>3. SignalInv'
  <2>1. ASSUME NEW b \in Air PROVE FreshOf(b)' /\ HomeOf(b)'
    <3>1. FreshOf(b) /\ HomeOf(b) BY ONLY <1>2, b \in Air DEF SignalInv
    <3>2. FreshOf(b)' BY ONLY <1>0, <1>1, <3>1, b \in Air DEF FreshOf
    <3>3. HomeOf(b)' BY ONLY <1>0, <1>1, <3>1, b \in Air DEF HomeOf, InHand, InRing
    <3> QED BY ONLY <3>2, <3>3
  <2>2. \A b, c \in Air' : HasSignal(b)' /\ Lowers(b)' = Lowers(c)' => b = c
    BY ONLY <1>0, <1>1, <1>2 DEF SignalInv
  <2> QED BY ONLY <1>0, <2>1, <2>2 DEF SignalInv
<1>4. ListInv' BY ONLY <1>0, <1>1, <1>2 DEF ListInv
<1>5. KindInv' BY ONLY <1>0, <1>2 DEF KindInv, InRing
<1>6. FallInv'
  <2>1. \A a \in Air : \A r \in Pool : Stays(a, r) => Stays(a, r)' BY ONLY <1>1 DEF Stays, InRing
  <2> QED BY ONLY <1>0, <1>1, <1>2, <2>1 DEF FallInv
<1> QED BY ONLY <1>3, <1>4, <1>5, <1>6

(* What is behind a place of a ring is for an unfinished command. *)
LEMMA BehindIs ==
  ASSUME VirtualAssumptions, VirtualInv, CmdInv, NEW d \in Commands, NEW h, NEW j,
         Behind(d, h, j)
  PROVE  d \in (1..created) \ done
<1>1. d # None BY Kinds
<1>2. CASE \E k \in Int : k >= j /\ InRing(h, k) \in Air /\ Flight[InRing(h, k)].cmd = d
  BY ONLY <1>1, <1>2, CmdInv DEF CmdInv
<1>3. CASE \E v \in VGPUs : my[v].cmd = d /\ CallBehind(v, h, j)
  <2>1. PICK v \in VGPUs : my[v].cmd = d /\ todo[v] # <<>> BY ONLY <1>3 DEF CallBehind
  <2>2. d \in 1..created BY <2>1 DEF VirtualInv, Basic, InCall
  <2> QED BY ONLY <2>1, <2>2, CmdInv DEF CmdInv
<1>4. CASE \E x \in dma : x.cmd = d /\ \E t \in x.deps : LowFrom(h, j, t.signal)
  <2>1. PICK x \in dma : x.cmd = d BY ONLY <1>4
  <2>2. InDma(x) \in Air /\ Flight[InDma(x)] = x BY AirIs DEF AirFacts
  <2> QED BY ONLY <1>1, <2>1, <2>2, CmdInv DEF CmdInv
<1> QED BY ONLY Behind(d, h, j), <1>2, <1>3, <1>4 DEF Behind

(* The devices stay as they are, and an event gives up its signal at most
   when whoever waits for it is done. *)
LEMMA RestKeeps ==
  ASSUME VirtualAssumptions, VirtualInv, VirtualInv', AirInv, Still,
         UNCHANGED <<created, vgpu, done, todo, my>>,
         \A c \in Commands : /\ command'[c].queue = command[c].queue /\ command'[c].op = command[c].op
                             /\ command'[c].waits = command[c].waits,
         \A c \in Commands :
           \/ command'[c].hwEvent = command[c].hwEvent
           \/ command'[c].hwEvent = None /\ \A d \in Commands : c \in command[d].waits => d \in done
  PROVE  AirInv'
<1>0. /\ \A a : a \in Air' <=> a \in Air
      /\ \A a \in Air : Flight'[a] = Flight[a]
      /\ setup' = setup /\ vgpu' = vgpu /\ todo' = todo /\ my' = my /\ created' = created /\ done' = done /\ dma' = dma
  BY DEF Still
<1>1. /\ \A a \in Air : Lowers(a)' = Lowers(a)
      /\ \A a \in Air : \A s : AwaitsAt(a, s)' <=> AwaitsAt(a, s)
      /\ \A s : Busy(s)' <=> Busy(s)
      /\ \A h, j, u : LowFrom(h, j, u)' <=> LowFrom(h, j, u)
      /\ \A h, j, u : Stands(h, j, u)' <=> Stands(h, j, u)
  BY StillFacts
<1>2. /\ \A v : /\ Ph(v)' = Ph(v) /\ Own(v)' = Own(v) /\ Current(v)' = Current(v) /\ Hq(v)' = Hq(v)
                /\ (Holding(v)' <=> Holding(v)) /\ SpotOf(v)' = SpotOf(v) /\ (Quiet(v)' <=> Quiet(v))
      /\ \A v, j : (OpenFor(v, j)' <=> OpenFor(v, j)) /\ (Ahead(v, j)' <=> Ahead(v, j))
      /\ \A v, r, s : Follow(v, r, s)' <=> Follow(v, r, s)
  BY <1>0, DevicesStay
<1>3. SignalInv' /\ ListInv' /\ KindInv' /\ FallInv' BY StillKeepsSignals
<1>4. CmdInv /\ CallInv /\ WaitInv /\ OrderInv /\ ChunkInv BY DEF AirInv
<1>5. None \notin Commands /\ command \in [Commands -> CommandObject]
  BY Kinds DEF VirtualInv, Basic, Types
<1>6. ASSUME NEW d \in Commands, d \notin done, NEW e \in command[d].waits
      PROVE  e \in Commands /\ command'[e].hwEvent = command[e].hwEvent
  <2>1. e \in Commands BY ONLY <1>5, d \in Commands, e \in command[d].waits DEF CommandObject
  <2> QED BY <1>6, <2>1
<1>7. \A v \in VGPUs : todo[v] # <<>> => my[v].cmd \in Commands /\ my[v].cmd \notin done
  <2>1. \A v \in VGPUs : todo[v] # <<>> => my[v].cmd \in 1..created /\ created \in Nat /\ created <= MaxCommands
    BY SetupFacts DEF VirtualInv, Basic, InCall, Types
  <2>2. MaxCommands \in Nat BY SetupFacts DEF VirtualInv, Basic, Types
  <2>3. \A v \in VGPUs : todo[v] # <<>> => my[v].cmd \in Commands BY ONLY <2>1, <2>2 DEF Commands
  <2> QED BY ONLY <1>4, <2>3 DEF CmdInv
<1>8. CmdInv'
  <2>1. \A a \in Air' : Flight'[a].cmd # None => Flight'[a].cmd \in (1..created') \ done'
    BY ONLY <1>0, <1>4 DEF CmdInv
  <2>2. \A a, b \in Air' : Flight'[a].cmd # None /\ Flight'[a].cmd = Flight'[b].cmd => a = b
    BY ONLY <1>0, <1>4 DEF CmdInv
  <2>3. \A v \in VGPUs : todo'[v] # <<>> =>
          my'[v].cmd \notin done' /\ \A a \in Air' : Flight'[a].cmd = my'[v].cmd => a = SpotOf(v)
    BY ONLY <1>0, <1>4 DEF CmdInv
  <2>4. ASSUME NEW c \in Commands \ (1..created)
        PROVE c \notin done' /\ command'[c].hwEvent = None
    <3>1. c \notin done /\ command[c].hwEvent = None
      BY ONLY <1>4, c \in Commands \ (1..created) DEF CmdInv
    <3>2. command'[c].hwEvent = command[c].hwEvent \/ command'[c].hwEvent = None OBVIOUS
    <3> QED BY ONLY <1>0, <3>1, <3>2
  <2> QED BY ONLY <1>0, <1>2, <2>1, <2>2, <2>3, <2>4 DEF CmdInv
<1>9. CallInv'
  <2>1. \A v \in VGPUs : PacketOf(v) /\ DeviceOf(v) /\ EventOf(v) BY ONLY <1>4 DEF CallInv
  <2>2. \A v \in VGPUs : PacketOf(v)' BY ONLY <1>0, <1>2, <2>1 DEF PacketOf
  <2>3. \A v \in VGPUs : DeviceOf(v)' BY ONLY <1>0, <1>2, <2>1 DEF DeviceOf
  <2>4. ASSUME NEW v \in VGPUs PROVE EventOf(v)'
    <3>1. CASE Ph(v) = "idle"
      BY ONLY <1>0, <1>2, <2>1, <3>1, v \in VGPUs DEF EventOf, Unresolved, InFence, InBarrier
    <3>2. ASSUME Ph(v) # "idle" PROVE EventOf(v)'
      <4>0. todo[v] # <<>> BY <3>2, CallFacts
      <4>1. PICK c \in Commands : c = my[v].cmd /\ c \notin done BY ONLY <1>7, <4>0, v \in VGPUs
      <4>2. /\ command'[c].waits = command[c].waits /\ command'[c].op = command[c].op
            /\ \A e \in command[c].waits : command'[e].hwEvent = command[e].hwEvent
        BY <1>6, <4>1
      <4>3. command[c].hwEvent = None => command'[c].hwEvent = None BY <4>1
      <4>4. {command'[e].hwEvent : e \in command'[c].waits} = {command[e].hwEvent : e \in command[c].waits}
        BY ONLY <4>2
      <4> QED BY ONLY <1>0, <1>2, <2>1, <4>1, <4>2, <4>3, <4>4, v \in VGPUs DEF EventOf
    <3> QED BY <3>1, <3>2
  <2> QED BY ONLY <2>2, <2>3, <2>4 DEF CallInv
<1>10. ASSUME NEW d \in Commands, NEW h, NEW j, Behind(d, h, j)
       PROVE Behind(d, h, j)' /\ d \notin done
  <2>1. d \notin done BY <1>4, <1>10, BehindIs
  <2>2. \A v : CallBehind(v, h, j) => CallBehind(v, h, j)' BY ONLY <1>0, <1>1, <1>2 DEF CallBehind
  <2>3. Behind(d, h, j)' BY ONLY <1>0, <1>1, <1>10, <2>2 DEF Behind, InRing
  <2> QED BY ONLY <2>1, <2>3
<1>11. ASSUME NEW h, NEW j, NEW s, ExtWait(h, j, s) PROVE ExtWait(h, j, s)'
  <2>1. PICK d \in Commands : Behind(d, h, j) /\ \E e \in command[d].waits : command[e].hwEvent = s
    BY ONLY <1>11 DEF ExtWait
  <2>2. PICK e \in command[d].waits : command[e].hwEvent = s BY ONLY <2>1
  <2>3. Behind(d, h, j)' /\ command'[e].hwEvent = s /\ e \in command'[d].waits
    <3>1. Behind(d, h, j)' /\ d \notin done BY ONLY <1>10, <2>1, d \in Commands
    <3>2. command'[e].hwEvent = command[e].hwEvent
      BY ONLY <1>6, <3>1, d \in Commands, e \in command[d].waits
    <3>3. e \in command'[d].waits BY d \in Commands, e \in command[d].waits
    <3> QED BY ONLY <2>2, <3>1, <3>2, <3>3
  <2> QED BY ONLY <2>3, d \in Commands DEF ExtWait
<1>12. \A v, h, j, s : OwnWait(v, h, j, s) => OwnWait(v, h, j, s)' BY ONLY <1>1, <1>2 DEF OwnWait
<1>13. WaitInv'
  <2>1. RingWaits' BY ONLY <1>0, <1>4, <1>11, <1>12 DEF WaitInv, RingWaits, InRing
  <2>2. DmaWaits'
    <3>1. \A x \in dma : x.cmd \in Commands BY DEF VirtualInv, Basic, Types, Copy
    <3>2. \A x \in dma : command'[x.cmd].queue = command[x.cmd].queue BY <3>1
    <3> QED BY ONLY <1>0, <1>2, <1>4, <3>2 DEF WaitInv, DmaWaits
  <2>3. ASSUME NEW v \in VGPUs PROVE HandOf(v)'
    <3>1. HandOf(v) BY ONLY <1>4, v \in VGPUs DEF WaitInv
    <3>2. Ph(v) \in InReserve => todo[v] # <<>> BY CallFacts DEF InReserve
    <3>3. Ph(v) \in InReserve => /\ command'[my[v].cmd].waits = command[my[v].cmd].waits
                                /\ \A e \in command[my[v].cmd].waits : command'[e].hwEvent = command[e].hwEvent
      BY <1>6, <1>7, <3>2
    <3> QED BY ONLY <1>0, <1>2, <3>1, <3>3 DEF HandOf
  <2> QED BY ONLY <2>1, <2>2, <2>3 DEF WaitInv
<1>14. ASSUME NEW v \in VGPUs PROVE ReadyOf(v)' /\ CoverOf(v)'
  <2>1. ReadyOf(v) /\ CoverOf(v) BY ONLY <1>4, v \in VGPUs DEF OrderInv
  <2>2. PICK s, h : s = Current(v) /\ h = Hq(v) OBVIOUS
  <2>3. s = Current(v)' /\ h = Hq(v)' BY ONLY <1>2, <2>2
  <2>4. ~Holding(v) => InHand(v) \in Air BY AirIs DEF AirFacts
  <2>5. Ph(v) \in InReserve \cup {"signalDma"} => ~Holding(v)
    BY CallFacts DEF InReserve, InSignal, InWrite
  <2>6. ReadyOf(v)'
    <3>1. Ph(v) \in InReserve \cup {"signalDma"} => (AwaitsAt(InHand(v), s)' <=> AwaitsAt(InHand(v), s))
      BY ONLY <1>1, <2>4, <2>5
    <3> QED BY ONLY <1>0, <1>1, <1>2, <2>1, <2>2, <2>3, <3>1 DEF ReadyOf, InHand, Busy
  <2>7. CoverOf(v)'
    <3>1. \A a \in Air : Belongs(v, a)' => Belongs(v, a)
      <4>1. \A a \in Air : Flight[a].cmd # None => Flight[a].cmd \in Commands
        <5>1. created \in Nat /\ MaxCommands \in Nat /\ created <= MaxCommands
          BY SetupFacts DEF VirtualInv, Basic, Types
        <5> QED BY ONLY <1>4, <5>1 DEF CmdInv, Commands
      <4> QED BY <1>0, <1>1, <4>1 DEF Belongs
    <3> QED BY ONLY <1>0, <1>1, <1>2, <2>1, <2>2, <2>3, <3>1 DEF CoverOf, InRing
  <2> QED BY ONLY <2>6, <2>7
<1>15. ChunkInv'
  <2>1. signal' = signal BY DEF Still
  <2>2. \A v \in VGPUs : (Busy(<<v, vgpu[v].chunk>>))' => Busy(<<v, vgpu[v].chunk>>)
    BY ONLY <1>0, <2>1 DEF Busy
  <2>3. \A v \in VGPUs, k \in Chunks : Busy(<<v, k>>)' => \E a \in Air' : Lowers(a)' = <<v, k>>
    BY ONLY <1>0, <1>1, <1>4 DEF ChunkInv
  <2>4. \A v \in VGPUs, k \in Chunks : InHand(v) \in Air' /\ Lowers(InHand(v))' = <<v, k>> => Ph(v)' = "reserveChunk"
    BY ONLY <1>0, <1>1, <1>2, <1>4 DEF ChunkInv
  <2> QED BY ONLY <1>0, <1>2, <1>4, <2>2, <2>3, <2>4 DEF ChunkInv, InHand
<1> QED BY ONLY <1>3, <1>8, <1>9, <1>13, <1>14, <1>15 DEF AirInv, OrderInv

(* A step of this kind. *)
LEMMA SameAir ==
  ASSUME VirtualAssumptions, VirtualInv, VirtualInv', setup' = setup, signal' = signal,
         ring' = ring, dma' = dma,
         \A v \in VGPUs : /\ vgpu'[v].list = vgpu[v].list /\ vgpu'[v].current = vgpu[v].current
                          /\ (HoldPlan(todo'[v]) <=> Holding(v))
                          /\ my'[v].packet = my[v].packet /\ my'[v].index = my[v].index
  PROVE  Still
<1>1. \A h \in HwQueues, i \in Int :
        /\ InRing(h, i) \in Air' <=> InRing(h, i) \in Air
        /\ InRing(h, i) \in Air => Flight'[InRing(h, i)] = Flight[InRing(h, i)]
  <2> SUFFICES ASSUME NEW h \in HwQueues, NEW i \in Int
               PROVE  /\ InRing(h, i) \in Air' <=> InRing(h, i) \in Air
                      /\ InRing(h, i) \in Air => Flight'[InRing(h, i)] = Flight[InRing(h, i)]
    OBVIOUS
  <2>1. \A w \in VGPUs : HeldAt(h, i, w)' <=> HeldAt(h, i, w) BY DEF HeldAt, Holding, Hq
  <2> QED BY <2>1, OneRing
<1>2. \A w \in VGPUs : /\ HoldPlan(todo'[w]) <=> Holding(w)
                       /\ ~Holding(w) => my'[w].packet = my[w].packet
  OBVIOUS
<1>3. PICK S : S = {} OBVIOUS
<1>4. Steady(S)
  <2>1. \A x : x \in dma' <=> x \in dma OBVIOUS
  <2> QED BY ONLY VirtualAssumptions, VirtualInv, VirtualInv', <1>1, <1>2, <2>1, SteadyFrom
<1> QED BY <1>3, <1>4 DEF Steady, Still

(* A kernel starts, an event is deleted, nothing happens. *)
LEMMA StartKernelKeeps ==
  ASSUME VirtualAssumptions, VirtualInv, VirtualInv', AirInv, NEW h \in HwQueues,
         StartKernel(h)
  PROVE  AirInv'
<1>1. Steady({}) /\ setup' = setup /\ todo' = todo /\ my' = my BY StartKernelEffect
<1>2. UNCHANGED <<created, command, vgpu, signal, dma, done>> BY DEF StartKernel
<1>3. Still BY <1>1, <1>2 DEF Steady, Still
<1> QED BY <1>1, <1>2, <1>3, RestKeeps

(* A command that is done gives up its event. *)
LEMMA ReleaseEventKeeps ==
  ASSUME VirtualAssumptions, VirtualInv, VirtualInv', AirInv, NEW c \in Commands,
         ReleaseEvent(c)
  PROVE  AirInv'
<1>1. UNCHANGED <<setup, created, vgpu, memory, signal, ring, dma, done, todo, my>> BY DEF ReleaseEvent
<1>2. Still BY <1>1, SameAir DEF Holding
<1>3. command \in [Commands -> CommandObject] /\ command' = [command EXCEPT ![c].hwEvent = None]
      /\ \A d \in Commands : c \in command[d].waits => d \in done
  BY DEF ReleaseEvent, VirtualInv, Basic, Types
<1>4. \A e \in Commands : /\ command'[e].queue = command[e].queue /\ command'[e].op = command[e].op
                          /\ command'[e].waits = command[e].waits
                          /\ e # c => command'[e].hwEvent = command[e].hwEvent
                          /\ e = c => command'[e].hwEvent = None
  BY ONLY <1>3 DEF CommandObject
<1>5. \A e \in Commands :
        \/ command'[e].hwEvent = command[e].hwEvent
        \/ command'[e].hwEvent = None /\ \A d \in Commands : e \in command[d].waits => d \in done
  BY ONLY <1>3, <1>4
<1>6. /\ UNCHANGED <<created, vgpu, done, todo, my>>
      /\ \A e \in Commands : /\ command'[e].queue = command[e].queue /\ command'[e].op = command[e].op
                             /\ command'[e].waits = command[e].waits
  BY ONLY <1>1, <1>4
<1> QED BY ONLY RestKeeps, VirtualAssumptions, VirtualInv, VirtualInv', AirInv, <1>2, <1>5, <1>6

(* Nothing happens. *)
LEMMA StutterKeeps ==
  ASSUME VirtualAssumptions, VirtualInv, VirtualInv', AirInv, UNCHANGED vars
  PROVE  AirInv'
<1>1. UNCHANGED <<setup, created, command, vgpu, memory, signal, ring, dma, done, todo, my>> BY DEF vars
<1>2. Still BY <1>1, SameAir DEF Holding
<1> QED BY <1>1, <1>2, RestKeeps

(* What a call that begins changes. *)
LEMMA SubmitFacts ==
  ASSUME VirtualAssumptions, VirtualInv, AirInv, NEW v \in VGPUs, NEW op \in Operations,
         NEW W \in SUBSET Commands,
         Submit(v, op, W), NEW c, c = created + 1
  PROVE  /\ c \in Commands /\ c \notin 1..created /\ created \in Nat /\ created' = c
         /\ UNCHANGED <<setup, signal, ring, dma, done>>
         /\ \A w \in VGPUs : /\ vgpu'[w].list = vgpu[w].list /\ vgpu'[w].current = vgpu[w].current
                             /\ vgpu'[w].pending = vgpu[w].pending /\ vgpu'[w].engine = vgpu[w].engine
                             /\ vgpu'[w].chunk = vgpu[w].chunk
                             /\ my'[w].packet = my[w].packet /\ my'[w].index = my[w].index
         /\ \A w \in VGPUs : w # v => todo'[w] = todo[w] /\ my'[w] = my[w] /\ vgpu'[w] = vgpu[w]
         /\ my'[v].cmd = c /\ vgpu[v].external = {} /\ vgpu'[v].external = {command[e].hwEvent : e \in W}
         /\ \A d \in Commands : /\ command'[d].hwEvent = command[d].hwEvent
                                /\ d # c => command'[d] = command[d]
         /\ command'[c].op = op /\ command'[c].waits = W /\ (op = "flush" => W = {})
<1>1. created \in Nat /\ MaxCommands \in Nat /\ created < MaxCommands
  BY SetupFacts DEF VirtualInv, Basic, Types, Submit
<1>2. c \in Commands /\ c \notin 1..created BY ONLY <1>1, c = created + 1 DEF Commands
<1>3. /\ command \in [Commands -> CommandObject] /\ vgpu \in [VGPUs -> VirtualDevice] /\ my \in [VGPUs -> MyRecord]
      /\ todo \in [VGPUs -> StepSeqs]
  BY DEF VirtualInv, Basic, Types
<1>4. /\ created' = c /\ UNCHANGED <<setup, signal, ring, dma, done>>
      /\ command' = [command EXCEPT ![c].queue = v, ![c].op = op, ![c].waits = W]
      /\ vgpu' = IF op = "flush" THEN vgpu ELSE [vgpu EXCEPT ![v].external = {command[e].hwEvent : e \in W}]
      /\ todo' = [todo EXCEPT ![v] = Call[op]] /\ my' = [my EXCEPT ![v].cmd = c]
      /\ (op = "flush" => W = {})
  BY DEF Submit
<1>5. vgpu[v].external = {}
  <2>1. Ph(v) = "idle" BY SubmitPhases DEF VirtualInv
  <2>2. EventOf(v) BY CallFacts
  <2> QED BY ONLY <2>1, <2>2 DEF EventOf, Unresolved, InFence, InBarrier
<1>6. /\ \A w \in VGPUs : /\ vgpu'[w].list = vgpu[w].list /\ vgpu'[w].current = vgpu[w].current
                          /\ vgpu'[w].pending = vgpu[w].pending /\ vgpu'[w].engine = vgpu[w].engine
                          /\ vgpu'[w].chunk = vgpu[w].chunk
      /\ \A w \in VGPUs : w # v => vgpu'[w] = vgpu[w]
      /\ vgpu'[v].external = {command[e].hwEvent : e \in W}
  <2>1. PICK X : X = {command[e].hwEvent : e \in W} OBVIOUS
  <2>2. CASE op = "flush" BY ONLY <1>4, <1>5, <2>1, <2>2
  <2>3. ASSUME op # "flush" PROVE vgpu' = [vgpu EXCEPT ![v].external = X] BY ONLY <1>4, <2>1, <2>3
  <2>4. CASE op # "flush"
    <3>1. vgpu'[v] = [vgpu[v] EXCEPT !.external = X] /\ \A w \in VGPUs : w # v => vgpu'[w] = vgpu[w]
      BY ONLY <1>3, <2>3, <2>4, v \in VGPUs
    <3>2. /\ vgpu'[v].list = vgpu[v].list /\ vgpu'[v].current = vgpu[v].current
          /\ vgpu'[v].pending = vgpu[v].pending /\ vgpu'[v].engine = vgpu[v].engine
          /\ vgpu'[v].chunk = vgpu[v].chunk /\ vgpu'[v].external = X
      <4>1. vgpu[v] \in VirtualDevice BY ONLY <1>3, v \in VGPUs
      <4> QED BY ONLY <3>1, <4>1 DEF VirtualDevice
    <3> QED BY ONLY <2>1, <3>1, <3>2
  <2> QED BY ONLY <2>2, <2>4
<1>7. /\ \A w \in VGPUs : my'[w].packet = my[w].packet /\ my'[w].index = my[w].index
      /\ \A w \in VGPUs : w # v => todo'[w] = todo[w] /\ my'[w] = my[w]
      /\ my'[v].cmd = c
  BY ONLY <1>3, <1>4, v \in VGPUs DEF MyRecord
<1>8. /\ \A d \in Commands : /\ command'[d].hwEvent = command[d].hwEvent
                             /\ d # c => command'[d] = command[d]
      /\ command'[c].op = op /\ command'[c].waits = W
  BY ONLY <1>2, <1>3, <1>4 DEF CommandObject
<1> QED BY ONLY <1>1, <1>2, <1>4, <1>5, <1>6, <1>7, <1>8

(* A call begins. *)
LEMMA SubmitKeeps ==
  ASSUME VirtualAssumptions, VirtualInv, VirtualInv', AirInv, NEW v \in VGPUs,
         NEW op \in Operations,
         NEW W \in SUBSET Commands, Submit(v, op, W)
  PROVE  AirInv'
<1>1. PICK c : c = created + 1 OBVIOUS
<1>2. /\ c \in Commands /\ c \notin 1..created /\ created \in Nat /\ created' = c
      /\ UNCHANGED <<setup, signal, ring, dma, done>>
      /\ \A w \in VGPUs : /\ vgpu'[w].list = vgpu[w].list /\ vgpu'[w].current = vgpu[w].current
                          /\ vgpu'[w].pending = vgpu[w].pending /\ vgpu'[w].engine = vgpu[w].engine
                          /\ vgpu'[w].chunk = vgpu[w].chunk
                          /\ my'[w].packet = my[w].packet /\ my'[w].index = my[w].index
      /\ \A w \in VGPUs : w # v => todo'[w] = todo[w] /\ my'[w] = my[w] /\ vgpu'[w] = vgpu[w]
      /\ my'[v].cmd = c /\ vgpu[v].external = {} /\ vgpu'[v].external = {command[e].hwEvent : e \in W}
      /\ \A d \in Commands : /\ command'[d].hwEvent = command[d].hwEvent
                             /\ d # c => command'[d] = command[d]
      /\ command'[c].op = op /\ command'[c].waits = W /\ (op = "flush" => W = {})
  BY ONLY SubmitFacts, <1>1, VirtualAssumptions, VirtualInv, AirInv, v \in VGPUs,
     op \in Operations, W \in SUBSET Commands, Submit(v, op, W)
<1>3. /\ Ph(v) = "idle" /\ Ph(v)' \in {"alloc", "barrierLast", "fenceCopy", "fenceFlush"}
      /\ Ph(v)' = "fenceFlush" <=> op = "flush"
      /\ Ph(v)' = "barrierLast" => op \in {"marker", "nop"}
      /\ Ph(v)' = "fenceCopy" => op = "copy"
  BY SubmitPhases DEF VirtualInv
<1>4. ~Holding(v) /\ ~HoldPlan(todo'[v]) /\ ~Holding(v)' /\ todo[v] = <<>> /\ todo'[v] # <<>>
  <2>1. ~Holding(v) /\ todo[v] = <<>> BY <1>3, CallFacts DEF InSignal, InWrite
  <2>2. ~HoldPlan(todo'[v]) /\ todo'[v] # <<>> BY <1>3, CallFactsNext DEF InSignal, InWrite
  <2> QED BY ONLY <2>1, <2>2 DEF Holding
<1>5. Still BY <1>2, <1>4, SameAir DEF Holding
<1>6. Frame(v) BY ONLY <1>2 DEF Frame
<1>7. SignalInv' /\ ListInv' /\ KindInv' /\ FallInv' BY <1>5, StillKeepsSignals
<1>8. /\ \A a : a \in Air' <=> a \in Air
      /\ \A a \in Air : Flight'[a] = Flight[a]
      /\ setup' = setup /\ dma' = dma /\ signal' = signal /\ done' = done
  BY <1>2, <1>5 DEF Still
<1>9. /\ \A a \in Air : Lowers(a)' = Lowers(a)
      /\ \A a \in Air : \A s : AwaitsAt(a, s)' <=> AwaitsAt(a, s)
      /\ \A s : Busy(s)' <=> Busy(s)
      /\ \A w : Hq(w)' = Hq(w)
      /\ \A w \in VGPUs : Own(w)' = Own(w) /\ Current(w)' = Current(w)
      /\ \A w \in VGPUs : \A r, s : Follow(w, r, s)' <=> Follow(w, r, s)
      /\ \A h, j, u : LowFrom(h, j, u)' <=> LowFrom(h, j, u)
      /\ \A h, j, u : Stands(h, j, u)' <=> Stands(h, j, u)
  BY <1>5, StillFacts
<1>10. \A w \in VGPUs : w # v =>
         /\ Ph(w)' = Ph(w) /\ (Holding(w)' <=> Holding(w)) /\ SpotOf(w)' = SpotOf(w) /\ (Quiet(w)' <=> Quiet(w))
         /\ \A j : (OpenFor(w, j)' <=> OpenFor(w, j)) /\ (Ahead(w, j)' <=> Ahead(w, j))
  BY <1>6, OthersStay
<1>11. CmdInv /\ CallInv /\ WaitInv /\ OrderInv /\ ChunkInv BY DEF AirInv
<1>12. None \notin Commands /\ command \in [Commands -> CommandObject] /\ MaxCommands \in Nat /\ created <= MaxCommands
  BY Kinds, SetupFacts DEF VirtualInv, Basic, Types
<1>13. \A w \in VGPUs : todo[w] # <<>> => my[w].cmd \in 1..created /\ my[w].cmd # c /\ my[w].cmd \in Commands
  <2>1. \A w \in VGPUs : todo[w] # <<>> => my[w].cmd \in 1..created BY DEF VirtualInv, Basic, InCall
  <2> QED BY ONLY <1>2, <1>12, <2>1 DEF Commands
<1>15. \A w \in VGPUs : PacketOf(w) /\ DeviceOf(w) /\ EventOf(w) BY ONLY <1>11 DEF CallInv
<1>16. my[v].packet = Nothing /\ my'[v].packet = Nothing
  <2>1. my[v].packet = Nothing BY ONLY <1>3, <1>15, v \in VGPUs DEF PacketOf, InReserve, InSignal, InWrite
  <2> QED BY ONLY <1>2, <2>1, v \in VGPUs
<1>17. CmdInv'
  <2>1. \A a \in Air' : Flight'[a].cmd # None => Flight'[a].cmd \in (1..created') \ done' /\ Flight'[a].cmd # c
    <3>1. \A a \in Air : Flight[a].cmd # None => Flight[a].cmd \in (1..created) \ done
      BY ONLY <1>11 DEF CmdInv
    <3>2. 1..created \subseteq 1..created' BY ONLY <1>1, <1>2
    <3> QED BY ONLY <1>2, <1>8, <3>1, <3>2
  <2>2. \A a, b \in Air' : Flight'[a].cmd # None /\ Flight'[a].cmd = Flight'[b].cmd => a = b
    BY ONLY <1>8, <1>11 DEF CmdInv
  <2>3. c \notin done BY ONLY <1>2, <1>11 DEF CmdInv
  <2>4. ASSUME NEW w \in VGPUs, todo'[w] # <<>>
        PROVE  my'[w].cmd \notin done' /\ \A a \in Air' : Flight'[a].cmd = my'[w].cmd => a = SpotOf(w)'
    <3>1. CASE w = v BY ONLY <1>2, <1>8, <1>12, <2>1, <2>3, <3>1
    <3>2. CASE w # v BY ONLY <1>2, <1>8, <1>10, <1>11, <2>4, <3>2, w \in VGPUs DEF CmdInv
    <3> QED BY ONLY <3>1, <3>2
  <2>5. \A d \in Commands \ (1..created') : d \notin done' /\ command'[d].hwEvent = None
    <3>1. 1..created \subseteq 1..created' BY ONLY <1>1, <1>2
    <3> QED BY ONLY <1>2, <1>8, <1>11, <3>1 DEF CmdInv
  <2> QED BY ONLY <2>1, <2>2, <2>4, <2>5 DEF CmdInv
<1>18. CallInv'
  <2>1. ASSUME NEW w \in VGPUs, w # v PROVE PacketOf(w)' /\ DeviceOf(w)' /\ EventOf(w)'
    <3>1. Ph(w)' = Ph(w) /\ my'[w] = my[w] /\ vgpu'[w] = vgpu[w] /\ Current(w)' = Current(w)
      BY ONLY <1>2, <1>9, <1>10, <2>1
    <3>2. PacketOf(w)' /\ DeviceOf(w)' BY ONLY <1>15, <3>1, w \in VGPUs DEF PacketOf, DeviceOf
    <3>3. ASSUME Ph(w) = "idle" PROVE EventOf(w)'
      <4>1. vgpu[w].external = {}
        BY ONLY <1>15, <3>3, w \in VGPUs DEF EventOf, Unresolved, InFence, InBarrier
      <4>2. Ph(w)' = "idle" /\ vgpu'[w].external = {} BY ONLY <3>1, <3>3, <4>1
      <4> QED BY ONLY <4>2 DEF EventOf
    <3>4. ASSUME Ph(w) # "idle" PROVE EventOf(w)'
      <4>1. todo[w] # <<>> BY <3>4, CallFacts
      <4>2. PICK d \in Commands : d = my[w].cmd /\ d # c BY ONLY <1>13, <4>1, w \in VGPUs
      <4>3. command'[d] = command[d] /\ \A e \in command[d].waits : command'[e].hwEvent = command[e].hwEvent
        BY ONLY <1>2, <1>12, <4>2 DEF CommandObject
      <4>4. {command'[e].hwEvent : e \in command'[d].waits} = {command[e].hwEvent : e \in command[d].waits}
        BY ONLY <4>3
      <4> QED BY ONLY <1>15, <3>1, <4>2, <4>3, <4>4, w \in VGPUs DEF EventOf
    <3> QED BY ONLY <3>2, <3>3, <3>4
  <2>2. PacketOf(v)'
    BY ONLY <1>3, <1>16, NothingIs, VirtualAssumptions
       DEF PacketOf, InReserve, InSignal, InWrite
  <2>3. DeviceOf(v)' BY ONLY <1>3 DEF DeviceOf, Resolved, InSignal
  <2>4. EventOf(v)'
    <3>1. command'[c].hwEvent = None BY ONLY <1>2, <1>11 DEF CmdInv
    <3>2. {command'[e].hwEvent : e \in command'[c].waits} = {command[e].hwEvent : e \in W}
      BY ONLY <1>2, W \in SUBSET Commands
    <3>4. Ph(v)' \in Unresolved BY ONLY <1>3 DEF Unresolved, InFence, InBarrier
    <3>5. Ph(v)' = "fenceFlush" => command'[c].waits = {} BY ONLY <1>2, <1>3
    <3> QED BY ONLY <1>2, <1>3, <3>1, <3>2, <3>4, <3>5 DEF EventOf
  <2> QED BY ONLY <2>1, <2>2, <2>3, <2>4 DEF CallInv
<1>19. \A j : Ahead(v, j)' BY ONLY <1>4 DEF Ahead
<1>20. ASSUME NEW w \in VGPUs, NEW h, NEW j, CallBehind(w, h, j)
       PROVE CallBehind(w, h, j)' /\ my'[w] = my[w]
  <2>1. w # v BY ONLY <1>4, <1>20 DEF CallBehind
  <2> QED BY ONLY <1>2, <1>9, <1>10, <1>20, <2>1 DEF CallBehind
<1>21. ASSUME NEW h, NEW j, NEW s, ExtWait(h, j, s) PROVE ExtWait(h, j, s)'
  <2>1. PICK d \in Commands : Behind(d, h, j) /\ \E e \in command[d].waits : command[e].hwEvent = s
    BY ONLY <1>21 DEF ExtWait
  <2>2. PICK e \in command[d].waits : command[e].hwEvent = s BY ONLY <2>1
  <2>3. d # c BY <1>2, <1>11, <2>1, BehindIs
  <2>4. Behind(d, h, j)' BY ONLY <1>8, <1>9, <1>20, <2>1 DEF Behind, InRing
  <2>5. command'[e].hwEvent = s /\ e \in command'[d].waits
    BY ONLY <1>2, <1>12, <2>2, <2>3, d \in Commands, e \in command[d].waits DEF CommandObject
  <2> QED BY ONLY <2>4, <2>5, d \in Commands DEF ExtWait
<1>22. ASSUME NEW w \in VGPUs, NEW h, NEW j, NEW s, OwnWait(w, h, j, s)
       PROVE OwnWait(w, h, j, s)'
  <2>1. OpenFor(w, j) => OpenFor(w, j)'
    <3>1. CASE w # v BY ONLY <1>10, <3>1, w \in VGPUs
    <3>2. CASE w = v
      BY ONLY <1>2, <1>3, <1>19, <3>2, v \in VGPUs
         DEF OpenFor, Signalled, Computes, InBarrier, InReserve, InSignal, InWrite
    <3> QED BY ONLY <3>1, <3>2
  <2> QED BY ONLY <1>9, <1>22, <2>1 DEF OwnWait
<1>23. WaitInv'
  <2>1. RingWaits' BY ONLY <1>8, <1>11, <1>21, <1>22 DEF WaitInv, RingWaits, InRing
  <2>2. DmaWaits'
    <3>1. ASSUME NEW x \in dma PROVE command'[x.cmd] = command[x.cmd]
      <4>1. InDma(x) \in Air /\ Flight[InDma(x)] = x BY AirIs DEF AirFacts
      <4>2. x.cmd \in Commands BY DEF VirtualInv, Basic, Types, Copy
      <4>3. x.cmd \in 1..created BY ONLY <1>11, <1>12, <4>1, <4>2 DEF CmdInv
      <4> QED BY ONLY <1>2, <4>2, <4>3
    <3> QED BY ONLY <1>8, <1>9, <1>11, <3>1 DEF WaitInv, DmaWaits
  <2>3. ASSUME NEW w \in VGPUs, w # v PROVE HandOf(w)'
    <3>1. HandOf(w) BY ONLY <1>11, w \in VGPUs DEF WaitInv
    <3>2. Ph(w) \in InReserve => todo[w] # <<>> BY CallFacts DEF InReserve
    <3>3. Ph(w) \in InReserve => /\ command'[my[w].cmd].waits = command[my[w].cmd].waits
                                /\ \A e \in command[my[w].cmd].waits : command'[e].hwEvent = command[e].hwEvent
      BY ONLY <1>2, <1>12, <1>13, <3>2, w \in VGPUs DEF CommandObject
    <3>4. Ph(w)' = Ph(w) /\ my'[w] = my[w] /\ Current(w)' = Current(w) /\ (Holding(w)' <=> Holding(w))
          /\ \A r, s : Follow(w, r, s)' <=> Follow(w, r, s)
      BY ONLY <1>2, <1>9, <1>10, <2>3
    <3> QED BY ONLY <3>1, <3>3, <3>4 DEF HandOf
  <2>4. HandOf(v)' BY ONLY EmptyHands, <1>16, NothingIs, VirtualAssumptions
  <2> QED BY ONLY <2>1, <2>2, <2>3, <2>4 DEF WaitInv
<1>24. \A w \in VGPUs : ReadyOf(w)'
  <2>1. ReadyOf(v)'
    <3>1. Ph(v) \notin InReserve /\ Ph(v)' # "signalDma" /\ (vgpu'[v].engine = "Compute" => vgpu[v].engine = "Compute")
          /\ Current(v)' = Current(v) /\ Hq(v)' = Hq(v)
          /\ \A r \in Pool : \A h, j : Stands(h, j, r) => Stands(h, j, r)'
      BY ONLY <1>2, <1>3, <1>9, v \in VGPUs DEF InReserve
    <3>2. ReadyOf(v) BY ONLY <1>11, v \in VGPUs DEF OrderInv
    <3> QED BY ONLY StayReady, <1>4, <1>8, <3>1, <3>2, v \in VGPUs, VirtualAssumptions, VirtualInv
  <2>2. ASSUME NEW w \in VGPUs, w # v PROVE ReadyOf(w)'
    <3>1. ReadyOf(w) BY ONLY <1>11, w \in VGPUs DEF OrderInv
    <3>2. PICK s, h : s = Current(w) /\ h = Hq(w) OBVIOUS
    <3>3. /\ s = Current(w)' /\ h = Hq(w)' /\ Ph(w)' = Ph(w) /\ my'[w] = my[w] /\ vgpu'[w] = vgpu[w]
          /\ (Holding(w)' <=> Holding(w))
      BY ONLY <1>2, <1>9, <1>10, <2>2, <3>2
    <3>4. ~Holding(w) => InHand(w) \in Air BY AirIs DEF AirFacts
    <3>5. Ph(w) \in InReserve \cup {"signalDma"} => ~Holding(w)
      BY CallFacts DEF InReserve, InSignal, InWrite
    <3>6. Ph(w) \in InReserve \cup {"signalDma"} => (AwaitsAt(InHand(w), s)' <=> AwaitsAt(InHand(w), s))
      BY ONLY <1>9, <3>4, <3>5
    <3> QED BY ONLY <1>9, <3>1, <3>2, <3>3, <3>6 DEF ReadyOf, InHand, Busy
  <2> QED BY ONLY <2>1, <2>2
<1>25. ASSUME NEW w \in VGPUs PROVE CoverOf(w)'
  <2>1. \A a \in Air : Belongs(w, a)' => Belongs(w, a)
    <3>1. \A a \in Air : Flight[a].cmd # None => Flight[a].cmd \in Commands /\ Flight[a].cmd # c
      BY ONLY <1>2, <1>11, <1>12 DEF CmdInv, Commands
    <3> QED BY ONLY <1>2, <1>8, <1>9, <3>1 DEF Belongs
  <2>2. (Quiet(w)' => Quiet(w)) /\ \A j : Ahead(w, j) => Ahead(w, j)'
    <3>1. CASE w = v BY ONLY <1>2, <1>3, <1>19, <3>1, v \in VGPUs DEF Quiet
    <3>2. CASE w # v BY ONLY <1>10, <3>2, w \in VGPUs
    <3> QED BY ONLY <3>1, <3>2
  <2>3. CoverOf(w) /\ Hq(w)' = Hq(w) /\ Own(w)' = Own(w) BY ONLY <1>9, <1>11, w \in VGPUs DEF OrderInv
  <2>4. PICK h : h = Hq(w) OBVIOUS
  <2> QED BY ONLY <1>8, <1>9, <2>1, <2>2, <2>3, <2>4 DEF CoverOf, InRing
<1>26. ChunkInv'
  <2>1. \A w \in VGPUs : (Busy(<<w, vgpu[w].chunk>>))' => Busy(<<w, vgpu[w].chunk>>) BY ONLY <1>2 DEF Busy
  <2>2. \A w \in VGPUs : (Busy(<<w, vgpu[w].chunk>>))' => Ph(w)' \in {"reserveChunk", "writeChunk", "nextChunk"}
    BY ONLY <1>3, <1>10, <1>11, <2>1 DEF ChunkInv
  <2>3. \A w \in VGPUs, k \in Chunks : Busy(<<w, k>>)' => \E a \in Air' : Lowers(a)' = <<w, k>>
    BY ONLY <1>8, <1>9, <1>11 DEF ChunkInv
  <2>4. \A w \in VGPUs, k \in Chunks : InHand(w) \in Air' /\ Lowers(InHand(w))' = <<w, k>> => Ph(w)' = "reserveChunk"
    BY ONLY <1>3, <1>8, <1>9, <1>10, <1>11 DEF ChunkInv
  <2> QED BY ONLY <2>2, <2>3, <2>4 DEF ChunkInv, InHand
<1> QED BY ONLY <1>7, <1>17, <1>18, <1>23, <1>24, <1>25, <1>26 DEF AirInv, OrderInv

(* Every step of a call keeps the invariant, *)
LEMMA HostKeeps ==
  ASSUME VirtualAssumptions, VirtualInv, VirtualInv', AirInv, NEW v \in VGPUs, Host(v)
  PROVE  AirInv'
<1>1. CASE Alloc(v) BY <1>1, AllocKeeps, ArmChunkKeeps
<1>2. CASE NextChunk(v) BY <1>2, NextChunkKeeps
<1>3. CASE BlockingWait(v) BY <1>3, BlockingWaitKeeps
<1>4. CASE Barrier(v) BY <1>4, BarrierKeeps
<1>5. CASE CopyWait(v) BY <1>5, CopyWaitKeeps
<1>6. CASE GrowList(v) \/ ReuseSignal(v) BY <1>6, AttachKeeps
<1>7. CASE Reserve(v) \/ Kernel(v) BY <1>7, TakeKeeps
<1>8. CASE Write(v) BY <1>8, WriteKeeps
<1>9. CASE Fence(v) BY <1>9, FenceKeeps
<1>10. CASE WaitCurrent(v) BY <1>10, WaitCurrentKeeps
<1>11. CASE StartCopy(v) BY <1>11, StartCopyKeeps
<1>12. CASE CopyFails(v) BY <1>12, CopyFailsKeeps
<1> QED
  BY ONLY Host(v), <1>1, <1>2, <1>3, <1>4, <1>5, <1>6, <1>7, <1>8, <1>9, <1>10, <1>11, <1>12
     DEF Host

(* every step that finishes something on the GPU, *)
LEMMA FinishKeeps ==
  ASSUME VirtualAssumptions, VirtualInv, VirtualInv', AirInv, NEW a, Finishes(a)
  PROVE  AirInv'
BY FinishKeepsSignals, FinishKeepsWaits DEF AirInv

(* and every step. *)
LEMMA NextAir ==
  ASSUME VirtualAssumptions, VirtualInv, VirtualInv', AirInv, [Next]_vars
  PROVE  AirInv'
<1>1. ASSUME NEW c \in Commands, ReleaseEvent(c) PROVE AirInv' BY <1>1, ReleaseEventKeeps
<1>2. ASSUME NEW v \in VGPUs, NEW op \in Operations,
             NEW W \in {{}} \cup {{e} : e \in Commands}, Submit(v, op, W)
      PROVE  AirInv'
  <2>1. W \in SUBSET Commands OBVIOUS
  <2> QED BY <1>2, <2>1, SubmitKeeps
<1>3. ASSUME NEW v \in VGPUs, Host(v) PROVE AirInv' BY <1>3, HostKeeps
<1>4. ASSUME NEW h \in HwQueues, Processor(h) PROVE AirInv'
  <2>1. CASE StartKernel(h) BY <2>1, StartKernelKeeps
  <2>2. CASE EndKernel(h) BY <2>2, EndKernelFinishes, FinishKeeps
  <2>3. CASE PassBarrier(h) BY <2>3, PassBarrierFinishes, FinishKeeps
  <2> QED BY ONLY <1>4, <2>1, <2>2, <2>3 DEF Processor
<1>5. ASSUME NEW x \in dma, RunCopy(x) PROVE AirInv' BY <1>5, RunCopyFinishes, FinishKeeps
<1>6. CASE UNCHANGED vars BY <1>6, StutterKeeps
<1> QED BY ONLY [Next]_vars, <1>1, <1>2, <1>3, <1>4, <1>5, <1>6 DEF Next, Application, Dma

(* The lists of the devices begin as parts of the pool that have nothing
   in common. *)
LEMMA InitLists ==
  ASSUME VirtualAssumptions, Init
  PROVE  ListInv
<1>1. setup \in Setups /\ \A v \in VGPUs : vgpu[v].list = InitialList(v) BY DEF Init
<1>2. ListSize \in Nat BY <1>1, SetupFacts
<1>3. \A v \in VGPUs : /\ Len(InitialList(v)) = ListSize
                       /\ \A i \in 1..ListSize : InitialList(v)[i] = <<"pool", (Order(v) - 1) * ListSize + i>>
  BY <1>1, InitialLists
<1>4. \A v \in VGPUs : Order(v) \in Nat \ {0} BY OrderIsOne
<1>5. ASSUME NEW m \in Nat \ {0}, NEW n \in Nat \ {0}, m < n, NEW i \in 1..ListSize,
             NEW j \in 1..ListSize
      PROVE  (m - 1) * ListSize + i # (n - 1) * ListSize + j
  <2>1. PICK k \in Nat : k = n - 1 /\ m <= k BY ONLY <1>5
  <2>2. m * ListSize <= k * ListSize /\ m * ListSize \in Nat /\ k * ListSize \in Nat
    BY ONLY <1>2, <2>1, Monotone, m \in Nat \ {0}
  <2>3. PICK z \in Nat : z = m - 1 BY ONLY m \in Nat \ {0}
  <2>4. m * ListSize = z * ListSize + ListSize /\ z * ListSize \in Nat BY ONLY <1>2, <2>3, m \in Nat \ {0}
  <2> QED BY ONLY <1>2, <2>1, <2>2, <2>3, <2>4, i \in 1..ListSize, j \in 1..ListSize
<1>6. ASSUME NEW v \in VGPUs, NEW w \in VGPUs, NEW i \in 1..ListSize, NEW j \in 1..ListSize,
             InitialList(v)[i] = InitialList(w)[j]
      PROVE  v = w /\ i = j
  <2>1. (Order(v) - 1) * ListSize + i = (Order(w) - 1) * ListSize + j
    BY ONLY <1>3, <1>6, v \in VGPUs, w \in VGPUs, i \in 1..ListSize, j \in 1..ListSize
  <2>2. PICK m \in Nat \ {0}, n \in Nat \ {0} : m = Order(v) /\ n = Order(w)
    BY ONLY <1>4, v \in VGPUs, w \in VGPUs
  <2>3. ~(m < n) /\ ~(n < m) BY ONLY <1>5, <2>1, <2>2, i \in 1..ListSize, j \in 1..ListSize
  <2>4. m = n BY ONLY <2>3, m \in Nat \ {0}, n \in Nat \ {0}
  <2>5. v = w BY <2>2, <2>4, OrderIsOne
  <2>6. PICK z \in Int : z = (Order(v) - 1) * ListSize BY ONLY <1>2, <2>2, m \in Nat \ {0}
  <2>7. i = j BY ONLY <2>1, <2>2, <2>4, <2>6, z \in Int, i \in 1..ListSize, j \in 1..ListSize
  <2> QED BY ONLY <2>5, <2>7
<1>7. \A v \in VGPUs : Distinct(vgpu[v].list) BY ONLY <1>1, <1>3, <1>6 DEF Distinct
<1>8. ASSUME NEW v \in VGPUs, NEW w \in VGPUs, v # w PROVE Own(v) \cap Own(w) = {}
  <2> SUFFICES ASSUME NEW s \in Own(v), s \in Own(w) PROVE FALSE OBVIOUS
  <2>1. PICK i \in 1..ListSize : s = InitialList(v)[i] BY <1>1, <1>3, InitialLists DEF Own, Range
  <2>2. PICK j \in 1..ListSize : s = InitialList(w)[j] BY <1>1, <1>3, InitialLists DEF Own, Range
  <2> QED
    BY ONLY <1>6, <1>8, <2>1, <2>2, v \in VGPUs, w \in VGPUs, i \in 1..ListSize,
       j \in 1..ListSize
<1> QED BY ONLY <1>7, <1>8 DEF ListInv

(* At the start nothing is in the air. *)
LEMMA InitAir ==
  ASSUME VirtualAssumptions, Init
  PROVE  AirInv
<1>1. VirtualInv BY InitBasic, InitRing DEF VirtualInv
<1>2. /\ created = 0 /\ dma = {} /\ done = {}
      /\ \A c \in Commands : command[c].hwEvent = None
      /\ \A v \in VGPUs : vgpu[v].external = {} /\ vgpu[v].engine = "Unknown" /\ todo[v] = <<>> /\ my[v].packet = Nothing
      /\ \A s \in Signals : ~Busy(s)
      /\ \A h \in HwQueues : ring[h].write = 0 /\ ring[h].read = 0 /\ ring[h].running = None
  BY DEF Init, Busy
<1>3. AirFacts BY <1>1, AirIs
<1>4. \A h, i : InRing(h, i) \notin Air
  <2> SUFFICES ASSUME NEW h, NEW i, InRing(h, i) \in Air PROVE FALSE OBVIOUS
  <2>1. h \in HwQueues BY ONLY <1>3, InRing(h, i) \in Air DEF AirFacts
  <2>2. i \in ring[h].read..ring[h].write - 1
    BY ONLY <1>2, <1>3, <2>1, InRing(h, i) \in Air DEF AirFacts, RingAir
  <2> QED BY ONLY <1>2, <2>1, <2>2
<1>5. \A a \in Air : Flight[a] = Nothing BY ONLY <1>2, <1>3, <1>4 DEF AirFacts
<1>6. /\ Nothing.cmd = None /\ Nothing.deps = {} /\ Nothing.signal = NoTicket /\ NoTicket.signal = None
  BY NothingIs
<1>7. /\ \A s \in Pool : s \in Signals /\ s # None /\ s # NoTicket.signal
      /\ \A v \in VGPUs, k \in Chunks : <<v, k>> \in Signals /\ <<v, k>> # NoTicket.signal
  BY SignalKinds
<1>8. \A v \in VGPUs : Ph(v) = "idle" BY <1>2, PhaseTable DEF Ph
<1>9. \A a \in Air : ~HasSignal(a) /\ Lowers(a) = NoTicket.signal BY ONLY <1>5, <1>6 DEF HasSignal, Lowers
<1>10. \A v \in VGPUs : Current(v) \in Signals /\ <<v, vgpu[v].chunk>> \in Signals
  BY <1>1, <1>7, PoolParts DEF VirtualDevice
<1>11. SignalInv BY ONLY <1>5, <1>6, <1>9 DEF SignalInv, FreshOf, HomeOf
<1>12. CmdInv BY ONLY <1>2, <1>5, <1>6 DEF CmdInv
<1>13. CallInv
  BY ONLY <1>2, <1>6, <1>8
     DEF CallInv, PacketOf, DeviceOf, EventOf, Resolved, InSignal, InReserve, InWrite
<1>14. WaitInv
  <2>1. \A v \in VGPUs : HandOf(v) BY ONLY <1>2, <1>6 DEF HandOf
  <2> QED BY ONLY <1>2, <1>4, <2>1 DEF WaitInv, RingWaits, DmaWaits
<1>15. OrderInv BY ONLY <1>2, <1>4, <1>7, <1>10 DEF OrderInv, FallInv, ReadyOf, CoverOf
<1>16. ChunkInv BY ONLY <1>2, <1>7, <1>9, <1>10 DEF ChunkInv
<1>17. KindInv BY ONLY <1>4 DEF KindInv
<1> QED BY <1>11, <1>12, <1>13, <1>14, <1>15, <1>16, <1>17, InitLists DEF AirInv

(* The invariant holds at all times. *)
LEMMA AirInvHolds == ASSUME VirtualAssumptions PROVE Spec => []AirInv
<1>1. Init => AirInv BY InitAir
<1>2. VirtualInv /\ VirtualInv' /\ AirInv /\ [Next]_vars => AirInv' BY NextAir
<1>3. Spec => []VirtualInv BY VirtualInvHolds
<1> QED BY <1>1, <1>2, <1>3, PTL DEF Spec

(* What InFlight names is in the air. *)
LEMMA InFlightIs ==
  ASSUME VirtualAssumptions, VirtualInv, NEW x \in InFlight, x # None
  PROVE  \E a \in Air : Flight[a] = x
<1>1. AirFacts BY AirIs
<1>2. ASSUME NEW h \in HwQueues, NEW k \in 0..RingSize - 1, x = ring[h].slot[k]
      PROVE \E a \in Air : Flight[a] = x
  <2>1. RingOf(h) BY DEF VirtualInv, RingOK
  <2>2. PICK i \in (ring[h].read..ring[h].write - 1) \ Indices(h) : i % RingSize = k
    BY ONLY <1>2, <2>1, k \in 0..RingSize - 1, x # None DEF RingOf, RingPart
  <2>3. InRing(h, i) \in Air /\ Flight[InRing(h, i)] = ring[h].slot[i % RingSize]
    BY ONLY <1>1, <2>2, h \in HwQueues DEF AirFacts, RingAir
  <2> QED BY ONLY <1>2, <2>2, <2>3
<1>3. ASSUME NEW h \in HwQueues, x = ring[h].running PROVE \E a \in Air : Flight[a] = x
  BY ONLY <1>1, <1>3, h \in HwQueues, x # None DEF AirFacts, RingAir
<1>4. ASSUME x \in dma PROVE \E a \in Air : Flight[a] = x BY ONLY <1>1, <1>4 DEF AirFacts
<1>5. ASSUME NEW v \in VGPUs, x = my[v].packet PROVE \E a \in Air : Flight[a] = x BY <1>5, SpotFacts
<1>6. \/ \E h \in HwQueues, k \in 0..RingSize - 1 : x = ring[h].slot[k]
      \/ \E h \in HwQueues : x = ring[h].running
      \/ x \in dma
      \/ \E v \in VGPUs : x = my[v].packet
  BY ONLY x \in InFlight DEF InFlight
<1> QED BY ONLY <1>2, <1>3, <1>4, <1>5, <1>6

(* No signal is used again while the GPU has yet to lower it for its last
   use or to look at that use, whichever devices and commands share rings
   and wait for each other's signals, and whether copies fail or lists
   grow. *)
THEOREM SignalsAreFresh == ASSUME VirtualAssumptions PROVE Spec => []SignalsFresh
<1>1. VirtualInv /\ AirInv => SignalsFresh
  <2> SUFFICES ASSUME VirtualInv, AirInv, NEW x \in InFlight \ {None},
                      NEW t \in x.deps \cup ({x.signal} \ {NoTicket})
               PROVE  t = Now(t.signal)
    BY DEF SignalsFresh
  <2>1. PICK a \in Air : Flight[a] = x BY InFlightIs
  <2>2. FreshOf(a) BY DEF AirInv, SignalInv
  <2> QED
    BY ONLY <2>1, <2>2, t \in x.deps \cup ({x.signal} \ {NoTicket})
       DEF FreshOf, HasSignal, Lowers
<1> QED BY <1>1, VirtualInvHolds, AirInvHolds, PTL

----------------------------------------
(* What has to end before something begins. *)

(* What is at a begins after what is at b has ended: it is behind b in the
   ring, or it waits for the signal that b lowers. *)
Needs(a, b) ==
  \/ \E h \in HwQueues, i, j \in Int : a = InRing(h, i) /\ b = InRing(h, j) /\ j < i
  \/ HasSignal(b) /\ AwaitsAt(a, Lowers(b))

(* That is so along a chain of places from b to a, or b is a, *)
Leads(b, a) ==
  \A B \in SUBSET Air : b \in B /\ (\A x \in B, y \in Air : Needs(y, x) => y \in B) => a \in B

(* and the chain has at least one link. *)
First(b, a) == \E x \in Air : Leads(b, x) /\ Needs(a, x)

(* A chain may have no link; chains go on *)
LEMMA LeadsSelf == ASSUME NEW a PROVE Leads(a, a)
BY DEF Leads

(* by a link, *)
LEMMA LeadsOn ==
  ASSUME NEW b, NEW x, NEW y \in Air, Leads(b, x), Needs(y, x)
  PROVE  Leads(b, y)
<1> SUFFICES ASSUME NEW B \in SUBSET Air, b \in B, \A u \in B, w \in Air : Needs(w, u) => w \in B
             PROVE  y \in B
  BY DEF Leads
<1>1. x \in B BY DEF Leads
<1> QED BY <1>1

(* so that one with a link is one. *)
LEMMA FirstLeads ==
  ASSUME NEW b, NEW a \in Air, First(b, a)
  PROVE  Leads(b, a)
BY LeadsOn DEF First

(* A chain to another place has a last link. *)
LEMMA LeadsLast ==
  ASSUME NEW b \in Air, NEW a, Leads(b, a), a # b
  PROVE  First(b, a) /\ a \in Air
<1>1. PICK B : B = {y \in Air : y = b \/ First(b, y)} OBVIOUS
<1>2. B \in SUBSET Air /\ b \in B BY ONLY <1>1, b \in Air
<1>3. ASSUME NEW x \in B, NEW y \in Air, Needs(y, x) PROVE y \in B
  <2>1. Leads(b, x) BY ONLY <1>1, x \in B, LeadsSelf, FirstLeads
  <2>2. First(b, y) BY ONLY <1>1, <1>3, <2>1 DEF First
  <2> QED BY ONLY <1>1, <2>2, y \in Air
<1>4. a \in B BY ONLY <1>2, <1>3, Leads(b, a) DEF Leads
<1> QED BY ONLY <1>1, <1>4, a # b

(* What moves from p to q. *)
Moved(a, p, q) == IF a = p THEN q ELSE a

(* A step that keeps the links keeps the chains. *)
LEMMA LeadsStay ==
  ASSUME NEW p, NEW q, NEW b \in Air, Moved(b, p, q) \in Air',
         \A x, y \in Air : Leads(b, x) /\ Needs(y, x) =>
           Moved(y, p, q) \in Air' /\ Needs(Moved(y, p, q), Moved(x, p, q))',
         NEW a, Leads(b, a)
  PROVE  a \in Air /\ Leads(Moved(b, p, q), Moved(a, p, q))'
<1>1. \A x, y \in Air : Leads(b, x) /\ Needs(y, x) => Leads(b, y) BY ONLY LeadsOn
<1>2. a \in Air BY ONLY LeadsLast, b \in Air, Leads(b, a)
<1>3. PICK b1, a1 : b1 = Moved(b, p, q) /\ a1 = Moved(a, p, q) OBVIOUS
<1>4. Leads(b1, a1)'
  <2> SUFFICES ASSUME NEW C \in SUBSET Air', b1 \in C,
                      \A x \in C, y \in Air' : Needs(y, x)' => y \in C
               PROVE  a1 \in C
    BY DEF Leads
  <2>1. PICK B : B = {x \in Air : Leads(b, x) /\ Moved(x, p, q) \in C} OBVIOUS
  <2>2. B \in SUBSET Air /\ b \in B BY ONLY <1>3, <2>1, b \in Air, b1 \in C, LeadsSelf
  <2>3. ASSUME NEW x \in B, NEW y \in Air, Needs(y, x) PROVE y \in B
    <3>1. x \in Air /\ Leads(b, x) /\ Moved(x, p, q) \in C BY ONLY <2>1, x \in B
    <3>2. PICK x1, y1 : x1 = Moved(x, p, q) /\ y1 = Moved(y, p, q) OBVIOUS
    <3>3. y1 \in Air' /\ Needs(y1, x1)'
      BY ONLY <2>3, <3>1, <3>2, \A u, w \in Air : Leads(b, u) /\ Needs(w, u) =>
           Moved(w, p, q) \in Air' /\ Needs(Moved(w, p, q), Moved(u, p, q))'
    <3>4. y1 \in C BY ONLY <3>1, <3>2, <3>3, \A u \in C, w \in Air' : Needs(w, u)' => w \in C
    <3> QED BY ONLY <1>1, <2>1, <2>3, <3>1, <3>2, <3>4
  <2>4. a \in B BY ONLY <2>2, <2>3, Leads(b, a) DEF Leads
  <2> QED BY ONLY <1>3, <2>1, <2>4
<1> QED BY ONLY <1>2, <1>3, <1>4

----------------------------------------
(* The order of a stream. *)

(* A call of the device is for the command. *)
Calling(v, d) == todo[v] # <<>> /\ my[v].cmd = d

(* What the device puts into its ring next begins after what is at b. *)
RingAfter(v, b) ==
  \/ \E k \in Int : InRing(Hq(v), k) \in Air /\ Ahead(v, k) /\ Leads(b, InRing(Hq(v), k))
  \/ Ph(v) \in InReserve /\ First(b, InHand(v))

(* Its current signal falls after the end of what is at b. *)
SignalAfter(v, b) == \E a \in Air : Lowers(a) = Current(v) /\ Leads(b, a)

(* What the device does next begins after that, by the order of the ring
   or by a wait for the signal. *)
After(v, b) ==
  /\ vgpu[v].engine = "Compute" => RingAfter(v, b)
  /\ vgpu[v].engine # "Compute" \/ Quiet(v) => SignalAfter(v, b)

(* An unfinished command is in a call or in the air. *)
Placed == \A d \in (1..created) \ done :
  (\E v \in VGPUs : Calling(v, d)) \/ \E a \in Air : Flight[a].cmd = d

(* The signal of an event is lowered by the command of the event. *)
Heard == \A e \in Commands : command[e].hwEvent \in Pool =>
  /\ e \notin done => \E a \in Air : Lowers(a) = command[e].hwEvent /\ Flight[a].cmd = e
  /\ \A a \in Air : Lowers(a) = command[e].hwEvent => Flight[a].cmd = e

(* A command waits for earlier ones. *)
Past == \A c \in 1..created : command[c].waits \subseteq 1..c - 1

(* The earlier commands of a device come before what it does next, *)
OldOf(v) == \A a \in Air :
  Flight[a].cmd # None /\ command[Flight[a].cmd].queue = v /\ ~Calling(v, Flight[a].cmd) => After(v, a)

(* and so do those its command waits for, once the waits are resolved. *)
WaitsOf(v) == todo[v] # <<>> => \A e \in command[my[v].cmd].waits \ done :
  \/ Ph(v) \in Unresolved /\ command[e].hwEvent \in vgpu[v].external
  \/ \E b \in Air : Flight[b].cmd = e /\ After(v, b)

(* What command c has to wait for. *)
Before(c) == command[c].waits \cup {d \in 1..c - 1 : command[d].queue = command[c].queue}

(* The GPU can begin a command only after all of that. *)
InOrder == \A a \in Air : Flight[a].cmd # None /\ (\A v : a # InHand(v)) =>
  \A d \in Before(Flight[a].cmd) \ done : \E b \in Air : Flight[b].cmd = d /\ First(b, a)

StreamInv == /\ Placed /\ Heard /\ Past /\ InOrder
             /\ \A v \in VGPUs : OldOf(v) /\ WaitsOf(v)

(* A place that begins after another is not free to begin. *)
LEMMA StreamIsOrdered ==
  ASSUME VirtualAssumptions, VirtualInv, AirInv, StreamInv
  PROVE  StreamOrder
<1> SUFFICES ASSUME NEW c \in Commands, MayBegin(c), NEW d \in Before(c) \ done PROVE FALSE
  BY DEF StreamOrder, Before
<1>1. AirFacts /\ SignalInv /\ InOrder BY AirIs DEF AirInv, StreamInv
<1>2. None \notin Commands BY Kinds
<1>3. \A a \in Air : HasSignal(a) => Busy(Lowers(a)) BY ONLY <1>1 DEF SignalInv, FreshOf
<1>4. ASSUME NEW a \in Air, Flight[a].cmd = c, \A v : a # InHand(v), \A x \in Air : ~Needs(a, x) PROVE FALSE
  BY ONLY <1>1, <1>2, <1>4, d \in Before(c) \ done, c \in Commands DEF InOrder, First
<1>5. CASE \E x \in dma : x.cmd = c /\ Satisfied(x.deps)
  <2>1. PICK x \in dma : x.cmd = c /\ Satisfied(x.deps) BY ONLY <1>5
  <2>2. InDma(x) \in Air /\ Flight[InDma(x)] = x /\ \A v : InDma(x) # InHand(v)
    BY ONLY <1>1, PlacesApart DEF AirFacts
  <2>3. \A s : AwaitsAt(InDma(x), s) => ~Busy(s) BY ONLY <2>1, <2>2 DEF AwaitsAt, Satisfied
  <2>4. \A y \in Air : ~Needs(InDma(x), y) BY ONLY <1>3, <2>3, PlacesApart DEF Needs
  <2> QED BY ONLY <1>4, <2>1, <2>2, <2>4
<1>6. CASE \E h \in HwQueues : AtHead(h) # None /\ AtHead(h).cmd = c /\ Ready(h, AtHead(h).kind)
  <2>1. PICK h \in HwQueues : AtHead(h) # None /\ AtHead(h).cmd = c /\ Ready(h, AtHead(h).kind)
    BY ONLY <1>6
  <2>2. PICK r : r = ring[h].read OBVIOUS
  <2>3. r \in Nat /\ ring[h].write \in Nat /\ ring[h].running = None /\ RingOf(h) /\ RingSize \in Nat \ {0, 1}
    BY <2>1, <2>2, SlotFacts, SetupFacts DEF Ready, VirtualInv, Basic, RingOK, Types
  <2>4. r % RingSize \in 0..RingSize - 1 /\ ring[h].slot[r % RingSize] # None
    BY <2>1, <2>2, SlotFacts DEF AtHead, VirtualInv, Basic
  <2>5. r < ring[h].write /\ r \notin Indices(h)
    <3>1. RingPart(r, ring[h].write, ring[h].slot, Indices(h)) /\ ring[h].slot \in [0..RingSize - 1 -> Packet \cup {None}]
      BY <2>2, <2>3, SlotFacts DEF RingOf, VirtualInv, Basic
    <3>2. None \notin Packet BY Kinds
    <3> QED BY ONLY <2>3, <2>4, <3>1, <3>2, RingConsume
  <2>6. InRing(h, r) \in Air /\ Flight[InRing(h, r)] = AtHead(h) /\ \A v : InRing(h, r) # InHand(v)
    BY ONLY <1>1, <2>2, <2>3, <2>5, PlacesApart, h \in HwQueues DEF AirFacts, RingAir, AtHead
  <2>7. \A j \in Int : InRing(h, j) \in Air => j >= r
    BY ONLY <1>1, <2>2, <2>3, h \in HwQueues DEF AirFacts, RingAir
  <2>8. \A s : AwaitsAt(InRing(h, r), s) => ~Busy(s) BY ONLY <2>1, <2>6 DEF AwaitsAt, Satisfied, Ready
  <2>9. \A y \in Air : ~Needs(InRing(h, r), y) BY ONLY <1>3, <2>3, <2>7, <2>8, PlacesApart DEF Needs
  <2> QED BY ONLY <1>4, <2>1, <2>6, <2>9
<1> QED BY ONLY <1>5, <1>6, MayBegin(c) DEF MayBegin

----------------------------------------
(* The order of a stream: steps of a device that move a packet. *)

(* The links stay, *)
LEMMA MovesNeeds ==
  ASSUME NEW v, NEW p, NEW q, Moves(v, p, q), Keeps(p, q), NEW x \in Air, NEW y \in Air, Needs(y, x)
  PROVE  /\ Moved(x, p, q) \in Air' /\ Moved(y, p, q) \in Air'
         /\ Needs(Moved(y, p, q), Moved(x, p, q))'
<1>1. \A a \in Air : /\ Moved(a, p, q) \in Air'
                     /\ HasSignal(a) => Flight'[Moved(a, p, q)].signal = Flight[a].signal
                     /\ Flight[a].deps \subseteq Flight'[Moved(a, p, q)].deps
  BY DEF Moves, Keeps, Moved, HasSignal
<1>2. \A h, i : InRing(h, i) \in Air => Moved(InRing(h, i), p, q) = InRing(h, i) BY DEF Moves, Moved
<1>3. CASE \E h \in HwQueues, i, j \in Int : y = InRing(h, i) /\ x = InRing(h, j) /\ j < i
  BY ONLY <1>1, <1>2, <1>3, x \in Air, y \in Air DEF Needs
<1>4. CASE HasSignal(x) /\ AwaitsAt(y, Lowers(x))
  <2>1. PICK x1, y1 : x1 = Moved(x, p, q) /\ y1 = Moved(y, p, q) OBVIOUS
  <2>2. PICK s : s = Lowers(x) OBVIOUS
  <2>3. HasSignal(x1)' /\ Lowers(x1)' = s BY ONLY <1>1, <1>4, <2>1, <2>2, x \in Air DEF HasSignal, Lowers
  <2>4. AwaitsAt(y1, s)' BY ONLY <1>1, <1>4, <2>1, <2>2, y \in Air DEF AwaitsAt
  <2> QED BY ONLY <1>1, <2>1, <2>3, <2>4, x \in Air, y \in Air DEF Needs
<1> QED BY ONLY <1>3, <1>4, Needs(y, x) DEF Needs

(* and so do the chains. *)
LEMMA MovesLeads ==
  ASSUME NEW v, NEW p, NEW q, Moves(v, p, q), Keeps(p, q), NEW b \in Air
  PROVE  /\ Moved(b, p, q) \in Air'
         /\ \A a : Leads(b, a) => a \in Air /\ Moved(a, p, q) \in Air' /\ Leads(Moved(b, p, q), Moved(a, p, q))'
         /\ \A a \in Air : First(b, a) => First(Moved(b, p, q), Moved(a, p, q))'
<1>1. \A a \in Air : Moved(a, p, q) \in Air' BY DEF Moves, Moved
<1>2. \A x, y \in Air : Needs(y, x) => Moved(y, p, q) \in Air' /\ Needs(Moved(y, p, q), Moved(x, p, q))'
  BY MovesNeeds
<1>3. \A a : Leads(b, a) => a \in Air /\ Leads(Moved(b, p, q), Moved(a, p, q))'
  BY ONLY <1>1, <1>2, LeadsStay, b \in Air
<1>4. ASSUME NEW a \in Air, First(b, a) PROVE First(Moved(b, p, q), Moved(a, p, q))'
  <2>1. PICK x \in Air : Leads(b, x) /\ Needs(a, x) BY ONLY <1>4 DEF First
  <2>2. PICK a1, b1, x1 : a1 = Moved(a, p, q) /\ b1 = Moved(b, p, q) /\ x1 = Moved(x, p, q) OBVIOUS
  <2>3. x1 \in Air' /\ Leads(b1, x1)' /\ Needs(a1, x1)' BY ONLY <1>1, <1>2, <1>3, <2>1, <2>2, a \in Air
  <2>4. First(b1, a1)' BY ONLY <2>3 DEF First
  <2> QED BY ONLY <2>2, <2>4
<1> QED BY ONLY <1>1, <1>3, <1>4, b \in Air

(* What comes before a signal, or before a place of a ring, still does. *)
LEMMA MovesBefore ==
  ASSUME VirtualAssumptions, NEW v, NEW p, NEW q, Moves(v, p, q), Keeps(p, q), NEW b \in Air
  PROVE  /\ \A h, k : InRing(h, k) \in Air /\ Leads(b, InRing(h, k)) =>
              InRing(h, k) \in Air' /\ Leads(Moved(b, p, q), InRing(h, k))'
         /\ \A s \in Signals : (\E a \in Air : Lowers(a) = s /\ Leads(b, a)) =>
              \E a \in Air' : Lowers(a)' = s /\ Leads(Moved(b, p, q), a)'
<1>1. \A h, i : InRing(h, i) \in Air => Moved(InRing(h, i), p, q) = InRing(h, i) BY DEF Moves, Moved
<1>2. /\ Moved(b, p, q) \in Air'
      /\ \A a : Leads(b, a) => a \in Air /\ Moved(a, p, q) \in Air' /\ Leads(Moved(b, p, q), Moved(a, p, q))'
  BY MovesLeads
<1>3. ASSUME NEW s \in Signals, NEW a \in Air, Lowers(a) = s PROVE Lowers(Moved(a, p, q))' = s
  <2>1. HasSignal(a) BY <1>3, SignalKinds, Kinds DEF HasSignal, Lowers
  <2>2. PICK a1 : a1 = Moved(a, p, q) OBVIOUS
  <2>3. Flight'[a1].signal = Flight[a].signal BY <2>1, <2>2 DEF Moves, Keeps, Moved, HasSignal
  <2> QED BY ONLY <1>3, <2>2, <2>3 DEF Lowers
<1> QED BY ONLY <1>1, <1>2, <1>3

(* The other devices see nothing of it. *)
LEMMA OthersAfter ==
  ASSUME VirtualAssumptions, VirtualInv, NEW v \in VGPUs, NEW p, NEW q, Moves(v, p, q), Keeps(p, q),
         NEW w \in VGPUs, w # v, NEW b \in Air, After(w, b)
  PROVE  After(w, Moved(b, p, q))'
<1>1. PICK b1 : b1 = Moved(b, p, q) OBVIOUS
<1>2. Frame(v) /\ InHand(w) # p BY PlacesApart DEF Moves, SpotOf
<1>3. /\ Ph(w)' = Ph(w) /\ Current(w)' = Current(w) /\ Hq(w)' = Hq(w) /\ (Quiet(w)' <=> Quiet(w))
      /\ vgpu'[w] = vgpu[w] /\ \A j : Ahead(w, j)' <=> Ahead(w, j)
  BY <1>2, OthersStay, HqStays
<1>4. /\ \A h, k : InRing(h, k) \in Air /\ Leads(b, InRing(h, k)) => InRing(h, k) \in Air' /\ Leads(b1, InRing(h, k))'
      /\ \A s \in Signals : (\E a \in Air : Lowers(a) = s /\ Leads(b, a)) => \E a \in Air' : Lowers(a)' = s /\ Leads(b1, a)'
  BY <1>1, MovesBefore
<1>5. \A a \in Air : First(b, a) => First(b1, Moved(a, p, q))' BY <1>1, MovesLeads
<1>6. RingAfter(w, b) => RingAfter(w, b1)'
  <2>1. ASSUME Ph(w) \in InReserve, First(b, InHand(w)) PROVE First(b1, InHand(w))'
    <3>1. InHand(w) \in Air
      <4>1. ~Holding(w)
        BY <2>1, PhaseOfPlan DEF Ph, Holding, VirtualInv, Basic, Plans, InReserve, InSignal, InWrite
      <4> QED BY <4>1, AirIs DEF AirFacts
    <3> QED BY ONLY <1>2, <1>5, <2>1, <3>1 DEF Moved
  <2>2. PICK H : H = Hq(w) OBVIOUS
  <2>3. H = Hq(w)' BY ONLY <1>3, <2>2
  <2>4. ASSUME NEW k \in Int, InRing(H, k) \in Air /\ Ahead(w, k) /\ Leads(b, InRing(H, k))
        PROVE  InRing(H, k) \in Air' /\ Ahead(w, k)' /\ Leads(b1, InRing(H, k))'
    BY ONLY <1>3, <1>4, <2>4
  <2> QED BY ONLY <1>3, <2>1, <2>2, <2>3, <2>4 DEF RingAfter
<1>7. SignalAfter(w, b) => SignalAfter(w, b1)'
  <2>1. Current(w) \in Signals BY PoolParts
  <2>2. ASSUME NEW s, s = Current(w), \E a \in Air : Lowers(a) = s /\ Leads(b, a)
        PROVE  \E a \in Air' : Lowers(a)' = Current(w)' /\ Leads(b1, a)'
    BY ONLY <1>3, <1>4, <2>1, <2>2
  <2> QED BY ONLY <2>2 DEF SignalAfter
<1>8. After(w, b1)' BY ONLY <1>3, <1>6, <1>7, After(w, b) DEF After
<1> QED BY ONLY <1>1, <1>8

(* Nor does the device itself, when its current signal is of use as before
   and its ring too. *)
LEMMA AfterStays ==
  ASSUME VirtualAssumptions, VirtualInv, VirtualInv', NEW v \in VGPUs, NEW p, NEW q, Moves(v, p, q), Keeps(p, q),
         vgpu'[v].engine = "Compute" => vgpu[v].engine = "Compute" /\ Ph(v) \notin InReserve,
         vgpu'[v].engine # "Compute" \/ Quiet(v)' =>
           (vgpu[v].engine # "Compute" \/ Quiet(v)) /\ Current(v)' = Current(v),
         NEW b \in Air, After(v, b)
  PROVE  After(v, Moved(b, p, q))'
<1>1. PICK b1 : b1 = Moved(b, p, q) OBVIOUS
<1>2. Hq(v)' = Hq(v) /\ Current(v) \in Signals BY HqStays, PoolParts DEF Moves, Frame
<1>3. /\ \A h, k : InRing(h, k) \in Air /\ Leads(b, InRing(h, k)) => InRing(h, k) \in Air' /\ Leads(b1, InRing(h, k))'
      /\ \A s \in Signals : (\E a \in Air : Lowers(a) = s /\ Leads(b, a)) => \E a \in Air' : Lowers(a)' = s /\ Leads(b1, a)'
  BY <1>1, MovesBefore
<1>4. \A j : InRing(Hq(v), j) \in Air' /\ Ahead(v, j) => Ahead(v, j)' BY DEF Moves
<1>5. ASSUME RingAfter(v, b), Ph(v) \notin InReserve PROVE RingAfter(v, b1)'
  <2>1. PICK H : H = Hq(v) OBVIOUS
  <2>2. PICK k \in Int : InRing(H, k) \in Air /\ Ahead(v, k) /\ Leads(b, InRing(H, k))
    BY ONLY <1>5, <2>1 DEF RingAfter
  <2>3. InRing(H, k) \in Air' /\ Ahead(v, k)' /\ Leads(b1, InRing(H, k))' BY ONLY <1>3, <1>4, <2>1, <2>2
  <2>4. H = Hq(v)' BY ONLY <1>2, <2>1
  <2> QED BY ONLY <2>3, <2>4 DEF RingAfter
<1>6. ASSUME SignalAfter(v, b), Current(v)' = Current(v) PROVE SignalAfter(v, b1)'
  <2>1. PICK s : s = Current(v) OBVIOUS
  <2>2. \E a \in Air' : Lowers(a)' = s /\ Leads(b1, a)' BY ONLY <1>2, <1>3, <1>6, <2>1 DEF SignalAfter
  <2> QED BY ONLY <1>6, <2>1, <2>2 DEF SignalAfter
<1>7. After(v, b1)'
  BY ONLY <1>5, <1>6, After(v, b),
          vgpu'[v].engine = "Compute" => vgpu[v].engine = "Compute" /\ Ph(v) \notin InReserve,
          vgpu'[v].engine # "Compute" \/ Quiet(v)' =>
           (vgpu[v].engine # "Compute" \/ Quiet(v)) /\ Current(v)' = Current(v) DEF After
<1> QED BY ONLY <1>1, <1>7

(* What stays to be seen of a step that moves a packet: what comes before
   the device still does, its command among it when the call ends, and
   what the command waits for when the waits are resolved; and a command
   that is given to the GPU comes after all that. *)
StreamStep(v, p, q) ==
  /\ \A b \in Air : After(v, b) => After(v, Moved(b, p, q))'
  /\ todo'[v] = <<>> => IF Flight'[q].cmd = my[v].cmd THEN After(v, q)' ELSE my[v].cmd \in done'
  /\ todo'[v] # <<>> /\ Ph(v) \in Unresolved =>
       \A e \in command[my[v].cmd].waits \ done : command[e].hwEvent \in vgpu[v].external =>
         \/ Ph(v)' \in Unresolved /\ command[e].hwEvent \in vgpu'[v].external
         \/ \E b \in Air' : Flight'[b].cmd = e /\ After(v, b)'
  /\ (\A w : q # InHand(w)) /\ Flight'[q].cmd # None =>
       \/ p = q /\ Flight'[q].cmd = Flight[p].cmd
       \/ Ph(v) \notin Unresolved /\ \A b \in Air : b # p /\ After(v, b) => First(b, q)'

(* The commands: who has which signal. *)
StreamEvents(p, q) ==
  /\ created' = created /\ done \subseteq done'
  /\ \A c \in Commands :
       /\ command'[c].queue = command[c].queue /\ command'[c].waits = command[c].waits
       /\ \/ command'[c].hwEvent = command[c].hwEvent
          \/ command[c].hwEvent \notin Pool /\ command'[c].hwEvent = Lowers(q)' /\ Flight'[q].cmd = c
  /\ Flight'[q].signal = Flight[p].signal \/ \A c \in Commands : command[c].hwEvent # Lowers(q)'

(* Such a step keeps the order. *)
LEMMA MovesStream ==
  ASSUME VirtualAssumptions, VirtualInv, VirtualInv', AirInv, AirInv', StreamInv, NEW v \in VGPUs,
         NEW p, NEW q, Moves(v, p, q), Keeps(p, q), StreamEvents(p, q), StreamStep(v, p, q),
         todo[v] # <<>>, my'[v].cmd = my[v].cmd, Flight'[q].cmd \in {None, Flight[p].cmd, my[v].cmd}
  PROVE  StreamInv'
<1>0. PICK m : m = my[v].cmd OBVIOUS
<1>1. /\ Placed /\ Heard /\ Past /\ InOrder /\ \A w \in VGPUs : OldOf(w) /\ WaitsOf(w)
      /\ None \notin Commands /\ NoTicket.signal \notin Pool /\ SignalInv' /\ CmdInv
  BY Kinds, SignalKinds DEF StreamInv, AirInv
<1>2. /\ \A w \in VGPUs : \A d : w # v => (Calling(w, d)' <=> Calling(w, d)) /\ (todo'[w] = <<>> <=> todo[w] = <<>>)
      /\ \A d : Calling(v, d) <=> d = m
      /\ \A d : Calling(v, d)' <=> todo'[v] # <<>> /\ d = m
  BY ONLY <1>0, Moves(v, p, q), todo[v] # <<>>, my'[v].cmd = my[v].cmd DEF Moves, Frame, Calling
<1>3. /\ m \in 1..created /\ command[m].queue = v
      /\ \A w \in VGPUs : \A d : Calling(w, d) => d \in 1..created /\ command[d].queue = w
      /\ created \in Nat /\ 1..created \subseteq Commands
      /\ \A c \in Commands : command[c].waits \subseteq Commands
  <2>1. Types /\ InCall BY DEF VirtualInv, Basic
  <2>2. created \in 0..setup.commands /\ setup.commands \in 0..MaxCommands /\ MaxCommands \in Nat
    BY <2>1, SetupFacts DEF Types
  <2>3. created \in Nat /\ 1..created \subseteq Commands BY ONLY <2>2 DEF Commands
  <2>4. \A c \in Commands : command[c].waits \subseteq Commands BY ONLY <2>1 DEF Types, CommandObject
  <2> QED BY ONLY <1>0, <2>1, <2>3, <2>4, todo[v] # <<>>, v \in VGPUs DEF InCall, Calling
<1>4. /\ \A a \in Air : /\ Moved(a, p, q) \in Air'
                        /\ Flight[a].cmd # None => Flight'[Moved(a, p, q)].cmd = Flight[a].cmd
                        /\ HasSignal(a) => Lowers(Moved(a, p, q))' = Lowers(a)
      /\ \A a \in Air' : \/ a = q
                         \/ Flight'[a] = Nothing /\ a = InHand(v)
                         \/ a \in Air /\ a # p /\ a # q /\ Flight'[a] = Flight[a] /\ Moved(a, p, q) = a
      /\ p \in Air /\ q \in Air' /\ Moved(p, p, q) = q /\ \A a : a # p => Moved(a, p, q) = a
      /\ Nothing.cmd = None /\ Nothing.signal = NoTicket
  BY ONLY Moves(v, p, q), Keeps(p, q), NothingIs, VirtualAssumptions DEF Moves, Keeps, Moved, HasSignal, Lowers
<1>5. /\ Flight[p].cmd \in {None, m} /\ Flight'[q].cmd \in {None, m}
  <2>1. my[v].packet.cmd \in {None, my[v].cmd} BY PacketCommand DEF AirInv, CallInv
  <2> QED
    BY ONLY <1>0, <2>1, Moves(v, p, q), Flight'[q].cmd \in {None, Flight[p].cmd, my[v].cmd} DEF Moves
<1>6. /\ created' = created /\ done \subseteq done'
      /\ \A c \in Commands : command'[c].queue = command[c].queue /\ command'[c].waits = command[c].waits
  BY ONLY StreamEvents(p, q) DEF StreamEvents
<1>7. Placed'
  <2> SUFFICES ASSUME NEW d, d \in (1..created') \ done'
               PROVE  (\E w \in VGPUs : Calling(w, d)') \/ \E a \in Air' : Flight'[a].cmd = d
    BY DEF Placed
  <2>0. d \in (1..created) \ done' BY ONLY <1>6, d \in (1..created') \ done'
  <2>1. d \in Commands /\ d # None BY ONLY <1>1, <1>3, <2>0
  <2>2. CASE \E w \in VGPUs : Calling(w, d)
    <3>1. PICK w \in VGPUs : Calling(w, d) BY ONLY <2>2
    <3>2. CASE w # v \/ todo'[v] # <<>> BY ONLY <1>2, <3>1, <3>2
    <3>3. CASE w = v /\ todo'[v] = <<>>
      <4>1. d = m BY ONLY <1>2, <3>1, <3>3
      <4>2. Flight'[q].cmd = m BY ONLY <1>0, <3>3, <4>1, StreamStep(v, p, q), <2>0 DEF StreamStep
      <4> QED BY ONLY <1>4, <4>1, <4>2
    <3> QED BY ONLY <3>2, <3>3
  <2>3. CASE \E a \in Air : Flight[a].cmd = d BY ONLY <1>4, <2>1, <2>3
  <2> QED BY ONLY <1>1, <1>6, <2>0, <2>2, <2>3 DEF Placed
<1>8. Heard'
  <2> SUFFICES ASSUME NEW e \in Commands, NEW s \in Pool, s = command'[e].hwEvent
               PROVE  /\ e \notin done' => \E a \in Air' : Lowers(a)' = s /\ Flight'[a].cmd = e
                      /\ \A a \in Air' : Lowers(a)' = s => Flight'[a].cmd = e
    BY DEF Heard
  <2>0. e # None /\ s # NoTicket.signal /\ s \in Signals BY <1>1, Kinds
  <2>1. CASE command[e].hwEvent = s
    <3>1. e \notin done' => \E a \in Air' : Lowers(a)' = s /\ Flight'[a].cmd = e
      <4> SUFFICES ASSUME e \notin done' PROVE \E a \in Air' : Lowers(a)' = s /\ Flight'[a].cmd = e
        OBVIOUS
      <4>1. PICK a \in Air : Lowers(a) = s /\ Flight[a].cmd = e
        BY ONLY <1>1, <1>6, <2>1, e \notin done' DEF Heard
      <4>2. HasSignal(a) BY ONLY <2>0, <4>1 DEF HasSignal, Lowers
      <4> QED BY ONLY <1>4, <2>0, <4>1, <4>2
    <3>2. ASSUME NEW a \in Air', Lowers(a)' = s PROVE Flight'[a].cmd = e
      <4>1. CASE a = q
        <5>1. Flight'[q].signal = Flight[p].signal
          BY ONLY <2>1, <3>2, <4>1, StreamEvents(p, q) DEF StreamEvents
        <5>2. Lowers(p) = s BY ONLY <3>2, <4>1, <5>1 DEF Lowers
        <5>3. Flight[p].cmd = e BY ONLY <1>1, <1>4, <2>1, <5>2 DEF Heard
        <5> QED BY ONLY <1>4, <2>0, <4>1, <5>3
      <4>2. CASE Flight'[a] = Nothing BY ONLY <1>4, <2>0, <3>2, <4>2 DEF Lowers
      <4>3. CASE a \in Air /\ Flight'[a] = Flight[a]
        <5>1. Lowers(a) = s BY ONLY <3>2, <4>3 DEF Lowers
        <5> QED BY ONLY <1>1, <2>1, <4>3, <5>1 DEF Heard
      <4> QED BY ONLY <1>4, <4>1, <4>2, <4>3
    <3> QED BY ONLY <3>1, <3>2
  <2>2. CASE command[e].hwEvent # s
    <3>1. s = Lowers(q)' /\ Flight'[q].cmd = e
      BY ONLY <2>2, s = command'[e].hwEvent, StreamEvents(p, q) DEF StreamEvents
    <3>2. HasSignal(q)' BY ONLY <2>0, <3>1 DEF HasSignal, Lowers
    <3>3. \A a \in Air' : Lowers(a)' = s => a = q BY ONLY <1>1, <1>4, <3>1, <3>2 DEF SignalInv
    <3> QED BY ONLY <1>4, <3>1, <3>3
  <2> QED BY ONLY <2>1, <2>2
<1>9. Past' BY ONLY <1>1, <1>3, <1>6 DEF Past
<1>10. \A c \in 1..created : Before(c)' = Before(c) /\ Before(c) \subseteq 1..c - 1 /\ c \notin Before(c)
  <2> SUFFICES ASSUME NEW c \in 1..created
               PROVE  Before(c)' = Before(c) /\ Before(c) \subseteq 1..c - 1 /\ c \notin Before(c)
    OBVIOUS
  <2>1. c \in Commands /\ \A d \in 1..c - 1 : d \in Commands BY ONLY <1>3
  <2>2. Before(c)' = Before(c) BY ONLY <1>6, <2>1 DEF Before
  <2>3. Before(c) \subseteq 1..c - 1 BY ONLY <1>1 DEF Before, Past
  <2> QED BY ONLY <1>3, <2>2, <2>3
<1>11. \A a \in Air : Flight[a].cmd # None => Flight[a].cmd \in (1..created) \ done
  BY ONLY <1>1 DEF CmdInv
<1>12. InOrder'
  <2> SUFFICES ASSUME NEW a \in Air', NEW c, c = Flight'[a].cmd, c # None, \A w : a # InHand(w),
                      NEW d, d \in Before(c)', d \notin done'
               PROVE  \E b \in Air' : Flight'[b].cmd = d /\ First(b, a)'
    BY DEF InOrder
  <2>1. c = Flight'[a].cmd OBVIOUS
  <2>2. /\ c # None /\ d \in Before(c)' /\ d \notin done
    BY ONLY <1>6, c # None, d \in Before(c)', d \notin done'
  <2>3. ASSUME a \in Air, Flight[a].cmd = c, Moved(a, p, q) = a
        PROVE  \E b \in Air' : Flight'[b].cmd = d /\ First(b, a)'
    <3>1. d \in Before(c) /\ c \in 1..created /\ d # None BY ONLY <1>1, <1>3, <1>10, <1>11, <2>2, <2>3
    <3>2. PICK b \in Air : Flight[b].cmd = d /\ First(b, a)
      BY ONLY <1>1, <2>2, <2>3, <3>1, \A w : a # InHand(w) DEF InOrder
    <3>3. First(Moved(b, p, q), Moved(a, p, q))'
      BY ONLY <2>3, <3>2, MovesLeads, Moves(v, p, q), Keeps(p, q)
    <3>4. PICK b1 : b1 = Moved(b, p, q) OBVIOUS
    <3>5. b1 \in Air' /\ Flight'[b1].cmd = d /\ First(b1, a)' BY ONLY <1>4, <2>3, <3>1, <3>2, <3>3, <3>4
    <3> QED BY ONLY <3>5
  <2>4. CASE a \in Air /\ a # p /\ a # q /\ Flight'[a] = Flight[a] /\ Moved(a, p, q) = a
    BY ONLY <2>1, <2>3, <2>4
  <2>5. CASE a = q /\ p = q /\ Flight'[q].cmd = Flight[p].cmd BY ONLY <1>4, <2>1, <2>3, <2>5
  <2>6. CASE a = q /\ Ph(v) \notin Unresolved /\ \A b \in Air : b # p /\ After(v, b) => First(b, q)'
    <3>1. c = m BY ONLY <1>5, <2>1, <2>2, <2>6
    <3>2. d \in Before(m) /\ d \in 1..m - 1 /\ d # m /\ d \in Commands /\ d # None /\ d \in 1..created
      <4>1. d \in Before(m) /\ d \in 1..m - 1 /\ d # m BY ONLY <1>3, <1>10, <2>2, <3>1
      <4>2. d \in 1..created BY ONLY <1>3, <4>1
      <4> QED BY ONLY <1>1, <1>3, <4>1, <4>2
    <3>3. \E b \in Air : Flight[b].cmd = d /\ After(v, b)
      <4>1. CASE d \in command[m].waits
        BY ONLY <1>0, <1>1, <2>2, <2>6, <4>1, todo[v] # <<>>, v \in VGPUs DEF WaitsOf
      <4>2. CASE command[d].queue = command[m].queue
        <5>1. ~\E w \in VGPUs : Calling(w, d) BY ONLY <1>2, <1>3, <3>2, <4>2
        <5>2. PICK b \in Air : Flight[b].cmd = d BY ONLY <1>1, <2>2, <3>2, <5>1 DEF Placed
        <5>3. After(v, b) BY ONLY <1>1, <1>3, <3>2, <4>2, <5>1, <5>2, v \in VGPUs DEF OldOf
        <5> QED BY ONLY <5>2, <5>3
      <4> QED BY ONLY <3>2, <4>1, <4>2 DEF Before
    <3>4. PICK b \in Air : Flight[b].cmd = d /\ After(v, b) BY ONLY <3>3
    <3>5. b # p BY ONLY <1>5, <3>2, <3>4
    <3>6. First(b, q)' /\ b \in Air' /\ Flight'[b].cmd = d BY ONLY <1>4, <2>6, <3>2, <3>4, <3>5
    <3> QED BY ONLY <2>6, <3>6
  <2>7. Flight'[a] # Nothing BY ONLY <1>4, <2>1, <2>2
  <2>8. a = q => \/ p = q /\ Flight'[q].cmd = Flight[p].cmd
                 \/ Ph(v) \notin Unresolved /\ \A b \in Air : b # p /\ After(v, b) => First(b, q)'
    BY ONLY <2>1, <2>2, StreamStep(v, p, q), \A w : a # InHand(w) DEF StreamStep
  <2> QED BY ONLY <1>4, <2>4, <2>5, <2>6, <2>7, <2>8
<1>13. \A w \in VGPUs : \A b \in Air : After(w, b) => After(w, Moved(b, p, q))'
  <2>1. \A w \in VGPUs : w # v => \A b \in Air : After(w, b) => After(w, Moved(b, p, q))' BY OthersAfter
  <2>2. \A b \in Air : After(v, b) => After(v, Moved(b, p, q))' BY ONLY StreamStep(v, p, q) DEF StreamStep
  <2> QED BY ONLY <2>1, <2>2
<1>14. ASSUME NEW w \in VGPUs PROVE OldOf(w)'
  <2> SUFFICES ASSUME NEW a \in Air', NEW c, c = Flight'[a].cmd, c # None, command'[c].queue = w, ~Calling(w, c)'
               PROVE  After(w, a)'
    BY DEF OldOf
  <2>1. CASE a \in Air /\ a # p /\ a # q /\ Flight'[a] = Flight[a] /\ Moved(a, p, q) = a
    <3>1. c = Flight[a].cmd /\ c \in 1..created /\ c \in Commands
      BY ONLY <1>3, <1>11, <2>1, c = Flight'[a].cmd, c # None
    <3>2. command[c].queue = w BY ONLY <1>6, <3>1, command'[c].queue = w
    <3>3. c # m
      <4>1. p = SpotOf(v) BY ONLY Moves(v, p, q) DEF Moves
      <4>2. \A x \in Air : Flight[x].cmd = my[v].cmd => x = SpotOf(v)
        BY ONLY <1>1, todo[v] # <<>>, v \in VGPUs DEF CmdInv
      <4> QED BY ONLY <1>0, <2>1, <3>1, <4>1, <4>2
    <3>4. ~Calling(w, c) BY ONLY <1>2, <3>3, ~Calling(w, c)', w \in VGPUs
    <3>5. After(w, a) BY ONLY <1>1, <2>1, <3>1, <3>2, <3>4, c # None, w \in VGPUs DEF OldOf
    <3>6. PICK b : b = Moved(a, p, q) OBVIOUS
    <3>7. After(w, b)' BY ONLY <1>13, <2>1, <3>5, <3>6, w \in VGPUs
    <3> QED BY ONLY <2>1, <3>6, <3>7
  <2>2. CASE a = q
    <3>1. c = m BY ONLY <1>5, <2>2, c = Flight'[a].cmd, c # None
    <3>2. w = v BY ONLY <1>3, <1>6, <3>1, command'[c].queue = w
    <3>3. todo'[v] = <<>> /\ Flight'[q].cmd = my[v].cmd
      BY ONLY <1>0, <1>2, <2>2, <3>1, <3>2, ~Calling(w, c)', c = Flight'[a].cmd
    <3>4. After(v, q)' BY ONLY <3>3, StreamStep(v, p, q) DEF StreamStep
    <3> QED BY ONLY <2>2, <3>2, <3>4
  <2> QED BY ONLY <1>4, <2>1, <2>2, c = Flight'[a].cmd, c # None
<1>15. ASSUME NEW w \in VGPUs PROVE WaitsOf(w)'
  <2> SUFFICES ASSUME todo'[w] # <<>>, NEW e \in command'[my'[w].cmd].waits \ done'
               PROVE  \/ Ph(w)' \in Unresolved /\ command'[e].hwEvent \in vgpu'[w].external
                      \/ \E b \in Air' : Flight'[b].cmd = e /\ After(w, b)'
    BY DEF WaitsOf
  <2>1. my'[w].cmd = my[w].cmd /\ todo[w] # <<>> /\ my[w].cmd \in Commands
    <3>1. my'[w].cmd = my[w].cmd /\ todo[w] # <<>>
      BY ONLY todo'[w] # <<>>, todo[v] # <<>>, my'[v].cmd = my[v].cmd, Moves(v, p, q), w \in VGPUs DEF Moves, Frame
    <3> QED BY ONLY <1>3, <3>1, w \in VGPUs DEF Calling
  <2>2. e \in command[my[w].cmd].waits \ done /\ e \in Commands /\ e # None
    BY ONLY <1>1, <1>3, <1>6, <2>1, e \in command'[my'[w].cmd].waits \ done'
  <2>3. \A u \in VGPUs : vgpu[u].external \subseteq Pool BY DEF VirtualInv, Basic, Types, VirtualDevice
  <2>4. command[e].hwEvent \in Pool => command'[e].hwEvent = command[e].hwEvent
    BY ONLY <2>2, StreamEvents(p, q) DEF StreamEvents
  <2>5. CASE \E b \in Air : Flight[b].cmd = e /\ After(w, b)
    <3>1. PICK b \in Air : Flight[b].cmd = e /\ After(w, b) BY ONLY <2>5
    <3>2. PICK b1 : b1 = Moved(b, p, q) OBVIOUS
    <3>3. b1 \in Air' /\ Flight'[b1].cmd = e /\ After(w, b1)'
      BY ONLY <1>4, <1>13, <2>2, <3>1, <3>2, w \in VGPUs
    <3> QED BY ONLY <3>3
  <2>6. CASE Ph(w) \in Unresolved /\ command[e].hwEvent \in vgpu[w].external
    <3>1. CASE w = v
      <4>1. \/ Ph(v)' \in Unresolved /\ command[e].hwEvent \in vgpu'[v].external
            \/ \E b \in Air' : Flight'[b].cmd = e /\ After(v, b)'
        BY ONLY <2>2, <2>6, <3>1, StreamStep(v, p, q), todo'[w] # <<>> DEF StreamStep
      <4> QED BY ONLY <2>3, <2>4, <2>6, <3>1, <4>1, w \in VGPUs
    <3>2. CASE w # v
      <4>1. Ph(w)' = Ph(w) /\ vgpu'[w] = vgpu[w]
        BY ONLY <3>2, OthersStay, Moves(v, p, q), v \in VGPUs, w \in VGPUs DEF Moves
      <4> QED BY ONLY <2>3, <2>4, <2>6, <4>1, w \in VGPUs
    <3> QED BY ONLY <3>1, <3>2
  <2> QED BY ONLY <1>1, <2>1, <2>2, <2>5, <2>6, w \in VGPUs DEF WaitsOf
<1> QED BY ONLY <1>7, <1>8, <1>9, <1>12, <1>14, <1>15 DEF StreamInv

(* A step of a call whose hands are empty and that takes no index. *)
EmptyHanded(v) ==
  /\ ring' = ring /\ dma' = dma /\ done \subseteq done' /\ SameCommands
  /\ ~Holding(v) /\ ~HoldPlan(todo'[v]) /\ my[v].packet = Nothing
  /\ my'[v].packet.signal = NoTicket \/ my'[v].packet.signal.signal \notin Pool \cup {None}
  /\ my'[v].packet.cmd \in {None, my[v].cmd}

(* It moves nothing but what is in hand, *)
LEMMA HandMoves ==
  ASSUME VirtualAssumptions, VirtualInv, VirtualInv', NEW v \in VGPUs, Host(v), EmptyHanded(v),
         NEW p, p = InHand(v)
  PROVE  /\ Moves(v, p, p) /\ Keeps(p, p) /\ Flight'[p] = my'[v].packet /\ Flight[p] = Nothing /\ p \in Air /\ p \in Air'
         /\ \A b : Moved(b, p, p) = b
<1>1. Frame(v) /\ SpotOf(v) = p /\ (HoldPlan(todo'[v]) <=> Holding(v)) /\ ring' = ring /\ dma' = dma /\ ~Holding(v)
  BY HostFrame DEF EmptyHanded, SpotOf
<1>2. Moves(v, p, p) /\ Flight'[p] = my'[v].packet
  BY ONLY <1>1, VirtualAssumptions, VirtualInv, VirtualInv', v \in VGPUs, StayMoves
<1>3. Flight[p] = Nothing /\ p \in Air /\ p \in Air' BY ONLY <1>2, EmptyHanded(v) DEF EmptyHanded, Moves
<1> QED BY ONLY <1>2, <1>3, NothingIs, VirtualAssumptions DEF Keeps, Moved

(* and keeps the order when its device does. *)
LEMMA HandStream ==
  ASSUME VirtualAssumptions, VirtualInv, VirtualInv', AirInv, AirInv', StreamInv, NEW v \in VGPUs,
         Host(v), EmptyHanded(v), StreamStep(v, InHand(v), InHand(v))
  PROVE  StreamInv'
<1>1. PICK p : p = InHand(v) OBVIOUS
<1>2. /\ Moves(v, p, p) /\ Keeps(p, p) /\ Flight'[p] = my'[v].packet /\ Flight[p] = Nothing
  BY <1>1, HandMoves
<1>3. created' = created /\ todo[v] # <<>> /\ my'[v].cmd = my[v].cmd BY HostFrame
<1>4. \A c \in Commands : command[c].hwEvent \in Pool \cup {None}
  BY DEF VirtualInv, Basic, Types, CommandObject
<1>5. StreamEvents(p, p)
  <2>1. Flight'[p].signal = Flight[p].signal \/ \A c \in Commands : command[c].hwEvent # Lowers(p)'
    BY ONLY <1>2, <1>4, EmptyHanded(v), NothingIs, VirtualAssumptions DEF EmptyHanded, Lowers
  <2> QED BY ONLY <1>3, <2>1, EmptyHanded(v) DEF EmptyHanded, SameCommands, StreamEvents
<1>6. Flight'[p].cmd \in {None, Flight[p].cmd, my[v].cmd} BY ONLY <1>2, EmptyHanded(v) DEF EmptyHanded
<1> QED
  BY ONLY MovesStream, VirtualAssumptions, VirtualInv, VirtualInv', AirInv, AirInv', StreamInv, v \in VGPUs,
     <1>1, <1>2, <1>3, <1>5, <1>6, StreamStep(v, InHand(v), InHand(v))

(* It leaves the waits as they are, and the device before what it was
   before. *)
LEMMA CalmStream ==
  ASSUME VirtualAssumptions, VirtualInv, VirtualInv', AirInv, AirInv', StreamInv, NEW v \in VGPUs,
         Host(v), EmptyHanded(v), Ph(v) \notin InReserve, my'[v].packet.cmd = None,
         vgpu'[v].engine = "Compute" => vgpu[v].engine = "Compute",
         vgpu'[v].engine # "Compute" \/ Quiet(v)' => vgpu[v].engine # "Compute" \/ Quiet(v),
         Current(v)' = Current(v), todo'[v] = <<>> => my[v].cmd \in done',
         Ph(v) \in Unresolved /\ vgpu[v].external # {} =>
           Ph(v)' \in Unresolved /\ vgpu'[v].external = vgpu[v].external
  PROVE  StreamInv'
<1>1. PICK p : p = InHand(v) OBVIOUS
<1>2. /\ Moves(v, p, p) /\ Keeps(p, p) /\ Flight'[p] = my'[v].packet /\ \A b : Moved(b, p, p) = b
  BY <1>1, HandMoves
<1>3. \A b \in Air : After(v, b) => After(v, Moved(b, p, p))'
  BY ONLY VirtualAssumptions, VirtualInv, VirtualInv', v \in VGPUs, <1>2, AfterStays, Ph(v) \notin InReserve,
     vgpu'[v].engine = "Compute" => vgpu[v].engine = "Compute",
     vgpu'[v].engine # "Compute" \/ Quiet(v)' => vgpu[v].engine # "Compute" \/ Quiet(v),
     Current(v)' = Current(v)
<1>4. my[v].cmd # None
  <2>1. todo[v] # <<>> BY HostFrame
  <2>2. my[v].cmd \in 1..created /\ created \in 0..setup.commands /\ setup.commands \in 0..MaxCommands /\ MaxCommands \in Nat
    BY <2>1, SetupFacts DEF VirtualInv, Basic, InCall, Types
  <2>3. my[v].cmd \in Commands BY ONLY <2>2 DEF Commands
  <2> QED BY <2>3, Kinds
<1>5. StreamStep(v, p, p)
  BY ONLY <1>1, <1>2, <1>3, <1>4, my'[v].packet.cmd = None, todo'[v] = <<>> => my[v].cmd \in done',
     Ph(v) \in Unresolved /\ vgpu[v].external # {} =>
           Ph(v)' \in Unresolved /\ vgpu'[v].external = vgpu[v].external DEF StreamStep
<1> QED BY <1>1, <1>5, HandStream

(* Arguments, in this chunk or after the barrier that guards it. *)
LEMMA AllocStream ==
  ASSUME VirtualAssumptions, VirtualInv, VirtualInv', AirInv, AirInv', StreamInv, NEW v \in VGPUs, Alloc(v)
  PROVE  StreamInv'
<1>1. /\ Host(v) /\ SameCommands /\ ring' = ring /\ dma' = dma /\ done' = done
  <2>1. ~(GrowList(v) \/ ReuseSignal(v)) /\ Host(v) BY DEF Alloc, GrowList, ReuseSignal, Do, Host
  <2> QED BY <2>1, HostFrame DEF Alloc
<1>2. Ph(v) = "alloc" /\ Ph(v)' \in {"alloc", "blockingWait", "reserveChunk"}
  BY AllocPhases DEF VirtualInv
<1>3. ~Holding(v) /\ ~HoldPlan(todo'[v]) /\ my[v].packet = Nothing /\ todo'[v] # <<>>
  BY <1>2, CallFacts, CallFactsNext DEF PacketOf, InReserve, InSignal, InWrite
<1>4. /\ vgpu'[v].list = vgpu[v].list /\ vgpu'[v].current = vgpu[v].current /\ vgpu'[v].engine = vgpu[v].engine
      /\ vgpu'[v].external = vgpu[v].external
  <2>1. vgpu[v] \in VirtualDevice /\ vgpu \in [VGPUs -> VirtualDevice] BY DEF VirtualInv, Basic, Types
  <2>2. vgpu' = vgpu \/ vgpu' = [vgpu EXCEPT ![v].used = @ + 1] BY DEF Alloc
  <2> QED BY ONLY <2>1, <2>2, v \in VGPUs DEF VirtualDevice
<1>5. /\ my'[v].packet.signal = NoTicket \/ my'[v].packet.signal.signal \notin Pool \cup {None}
      /\ my'[v].packet.cmd = None
  <2>1. CASE my' = my BY ONLY <1>3, <2>1, NothingIs, VirtualAssumptions
  <2>2. CASE my' # my
    <3>1. PICK t, ck : t = Armed(ck) /\ ck = <<v, vgpu[v].chunk>> OBVIOUS
    <3>2. my' = [my EXCEPT ![v].packet = [Nothing EXCEPT !.signal = t]]
      BY ONLY <2>2, <3>1, Alloc(v) DEF Alloc
    <3>3. my'[v].packet = [Nothing EXCEPT !.signal = t]
      <4>1. my \in [VGPUs -> MyRecord] BY DEF VirtualInv, Basic, Types
      <4> QED BY ONLY <3>2, <4>1, v \in VGPUs DEF MyRecord
    <3>4. ck \notin Pool \cup {None}
      <4>1. vgpu[v].chunk \in Chunks BY DEF VirtualInv, Basic, Types, VirtualDevice
      <4>2. ck \in Signals /\ ck \notin Pool BY <3>1, <4>1, SignalKinds
      <4> QED BY <4>2, Kinds
    <3> QED BY ONLY <3>1, <3>3, <3>4, NewPacketIs DEF Armed
  <2> QED BY ONLY <2>1, <2>2
<1>6. EmptyHanded(v) BY ONLY <1>1, <1>3, <1>5 DEF EmptyHanded
<1>7. Ph(v) \notin InReserve /\ ~Quiet(v)' /\ Current(v)' = Current(v) /\ Ph(v)' \in Unresolved
  BY ONLY <1>2, <1>4 DEF InReserve, Quiet, Current, Unresolved, InFence
<1> QED
  BY ONLY CalmStream, VirtualAssumptions, VirtualInv, VirtualInv', AirInv, AirInv', StreamInv, v \in VGPUs,
     <1>1, <1>3, <1>4, <1>5, <1>6, <1>7

(* The next chunk is free. *)
LEMMA NextChunkStream ==
  ASSUME VirtualAssumptions, VirtualInv, VirtualInv', AirInv, AirInv', StreamInv, NEW v \in VGPUs, NextChunk(v)
  PROVE  StreamInv'
<1>1. /\ Host(v) /\ SameCommands /\ ring' = ring /\ dma' = dma /\ done' = done /\ my' = my
  <2>1. ~(GrowList(v) \/ ReuseSignal(v)) /\ Host(v) BY DEF NextChunk, GrowList, ReuseSignal, Do, Host
  <2> QED BY <2>1, HostFrame DEF NextChunk
<1>2. Ph(v) = "nextChunk" /\ Ph(v)' \in {"alloc", "blockingWait"} BY PlainPhases DEF VirtualInv
<1>3. ~Holding(v) /\ ~HoldPlan(todo'[v]) /\ my[v].packet = Nothing /\ todo'[v] # <<>>
  BY <1>2, CallFacts, CallFactsNext DEF PacketOf, InReserve, InSignal, InWrite
<1>4. /\ vgpu'[v].list = vgpu[v].list /\ vgpu'[v].current = vgpu[v].current /\ vgpu'[v].engine = vgpu[v].engine
      /\ vgpu'[v].external = vgpu[v].external
  <2>1. PICK k : vgpu' = [vgpu EXCEPT ![v].chunk = k, ![v].used = 1] BY DEF NextChunk
  <2>2. vgpu[v] \in VirtualDevice /\ vgpu \in [VGPUs -> VirtualDevice] BY DEF VirtualInv, Basic, Types
  <2> QED BY ONLY <2>1, <2>2, v \in VGPUs DEF VirtualDevice
<1>5. EmptyHanded(v) /\ my'[v].packet.cmd = None
  BY ONLY <1>1, <1>3, NothingIs, VirtualAssumptions DEF EmptyHanded
<1>6. Ph(v) \notin InReserve /\ ~Quiet(v)' /\ Current(v)' = Current(v) /\ Ph(v)' \in Unresolved
  BY ONLY <1>2, <1>4 DEF InReserve, Quiet, Current, Unresolved, InFence
<1> QED
  BY ONLY CalmStream, VirtualAssumptions, VirtualInv, VirtualInv', AirInv, AirInv', StreamInv, v \in VGPUs,
     <1>1, <1>3, <1>4, <1>5, <1>6

(* A fence that needs no barrier, or is about to make one. *)
LEMMA FenceStream ==
  ASSUME VirtualAssumptions, VirtualInv, VirtualInv', AirInv, AirInv', StreamInv, NEW v \in VGPUs, Fence(v)
  PROVE  StreamInv'
<1>1. /\ Host(v) /\ SameCommands /\ ring' = ring /\ dma' = dma /\ done' = done /\ my' = my
  <2>1. ~(GrowList(v) \/ ReuseSignal(v)) /\ Host(v) BY DEF Fence, GrowList, ReuseSignal, Do, Host
  <2> QED BY <2>1, HostFrame DEF Fence
<1>2. PICK b \in BOOLEAN : b <=> vgpu[v].pending \/ vgpu[v].external # {} OBVIOUS
<1>3. /\ Ph(v) \in InFence
      /\ IF b THEN Ph(v)' \in {"barrierCopy", "barrierFlush"} ELSE Ph(v)' \in {"copyWait", "waitCurrent"}
  <2>1. \/ Ph(v) = "fenceCopy" /\ Ph(v)' = IF vgpu[v].pending \/ vgpu[v].external # {} THEN "barrierCopy" ELSE "copyWait"
        \/ Ph(v) = "fenceFlush" /\ Ph(v)' = IF vgpu[v].pending \/ vgpu[v].external # {} THEN "barrierFlush" ELSE "waitCurrent"
    BY FencePhases DEF VirtualInv
  <2> QED BY ONLY <1>2, <2>1 DEF InFence
<1>4. ~Holding(v) /\ ~HoldPlan(todo'[v]) /\ my[v].packet = Nothing /\ todo'[v] # <<>>
  BY <1>3, CallFacts, CallFactsNext DEF PacketOf, InReserve, InSignal, InWrite, InFence
<1>5. /\ vgpu'[v].list = vgpu[v].list /\ vgpu'[v].current = vgpu[v].current /\ vgpu'[v].engine = vgpu[v].engine
      /\ vgpu'[v].external = vgpu[v].external
  <2>1. vgpu[v] \in VirtualDevice /\ vgpu' = [vgpu EXCEPT ![v].pending = FALSE] /\ vgpu \in [VGPUs -> VirtualDevice]
    BY DEF VirtualInv, Basic, Types, Fence
  <2> QED BY ONLY <2>1, v \in VGPUs DEF VirtualDevice
<1>6. EmptyHanded(v) /\ my'[v].packet.cmd = None
  BY ONLY <1>1, <1>4, NothingIs, VirtualAssumptions DEF EmptyHanded
<1>7. /\ Ph(v) \notin InReserve /\ Current(v)' = Current(v)
      /\ Quiet(v)' => Quiet(v)
      /\ vgpu[v].external # {} => Ph(v)' \in Unresolved
  BY ONLY <1>2, <1>3, <1>5 DEF InReserve, Quiet, Current, Unresolved, InFence, InBarrier
<1> QED
  BY ONLY CalmStream, VirtualAssumptions, VirtualInv, VirtualInv', AirInv, AirInv', StreamInv, v \in VGPUs,
     <1>1, <1>4, <1>5, <1>6, <1>7

(* A flush ends when the last signal has fallen. *)
LEMMA WaitCurrentStream ==
  ASSUME VirtualAssumptions, VirtualInv, VirtualInv', AirInv, AirInv', StreamInv, NEW v \in VGPUs, WaitCurrent(v)
  PROVE  StreamInv'
<1>1. /\ Host(v) /\ SameCommands /\ ring' = ring /\ dma' = dma /\ done' = done \cup {my[v].cmd} /\ my' = my
  <2>1. ~(GrowList(v) \/ ReuseSignal(v)) /\ Host(v) BY DEF WaitCurrent, GrowList, ReuseSignal, Do, Host
  <2> QED BY <2>1, HostFrame DEF WaitCurrent
<1>2. Ph(v) = "waitCurrent" /\ Ph(v)' = "idle" BY PlainPhases DEF VirtualInv
<1>3. ~Holding(v) /\ ~HoldPlan(todo'[v]) /\ my[v].packet = Nothing /\ DeviceOf(v)
  BY <1>2, CallFacts, CallFactsNext DEF PacketOf, InReserve, InSignal, InWrite
<1>4. /\ vgpu'[v].list = vgpu[v].list /\ vgpu'[v].current = vgpu[v].current /\ vgpu'[v].engine = vgpu[v].engine
  <2>1. vgpu[v] \in VirtualDevice /\ vgpu' = [vgpu EXCEPT ![v].chunk = 0, ![v].used = 0] /\ vgpu \in [VGPUs -> VirtualDevice]
    BY DEF VirtualInv, Basic, Types, WaitCurrent
  <2> QED BY ONLY <2>1, v \in VGPUs DEF VirtualDevice
<1>5. EmptyHanded(v) /\ my'[v].packet.cmd = None
  BY ONLY <1>1, <1>3, NothingIs, VirtualAssumptions DEF EmptyHanded
<1>6. Ph(v) \notin InReserve /\ Ph(v) \notin Unresolved /\ Quiet(v) /\ Current(v)' = Current(v) /\ my[v].cmd \in done'
  BY ONLY <1>1, <1>2, <1>3, <1>4 DEF InReserve, Unresolved, Quiet, Current, DeviceOf, InFence, InBarrier
<1> QED
  BY ONLY CalmStream, VirtualAssumptions, VirtualInv, VirtualInv', AirInv, AirInv', StreamInv, v \in VGPUs,
     <1>1, <1>4, <1>5, <1>6

(* A copy waits for the current signal. *)
LEMMA CopyWaitStream ==
  ASSUME VirtualAssumptions, VirtualInv, VirtualInv', AirInv, AirInv', StreamInv, NEW v \in VGPUs, CopyWait(v)
  PROVE  StreamInv'
<1>1. /\ Host(v) /\ SameCommands /\ ring' = ring /\ dma' = dma /\ done' = done
  <2>1. ~(GrowList(v) \/ ReuseSignal(v)) /\ Host(v) BY DEF CopyWait, GrowList, ReuseSignal, Do, Host
  <2> QED BY <2>1, HostFrame DEF CopyWait
<1>2. Ph(v) = "copyWait" /\ Ph(v)' = "signalDma" BY PlainPhases DEF VirtualInv
<1>3. ~Holding(v) /\ ~HoldPlan(todo'[v]) /\ my[v].packet = Nothing /\ DeviceOf(v) /\ todo'[v] # <<>>
  BY <1>2, CallFacts, CallFactsNext DEF PacketOf, InReserve, InSignal, InWrite
<1>4. vgpu'[v].list = vgpu[v].list /\ vgpu'[v].current = vgpu[v].current /\ vgpu'[v].engine = "Sdma"
  <2>1. vgpu[v] \in VirtualDevice /\ Resolve(v, "Sdma") /\ vgpu \in [VGPUs -> VirtualDevice]
    BY DEF VirtualInv, Basic, Types, CopyWait
  <2> QED BY ONLY <2>1, v \in VGPUs DEF VirtualDevice, Resolve
<1>5. my'[v].packet.signal = NoTicket /\ my'[v].packet.cmd = None
  <2>1. my'[v].packet = [Nothing EXCEPT !.deps = Waiting(v, "Sdma")]
    BY DEF VirtualInv, Basic, Types, CopyWait, MyRecord
  <2> QED BY ONLY <2>1, NewPacketIs
<1>6. EmptyHanded(v) BY ONLY <1>1, <1>3, <1>5 DEF EmptyHanded
<1>7. Ph(v) \notin InReserve /\ Ph(v) \notin Unresolved /\ Quiet(v) /\ Current(v)' = Current(v) /\ "Sdma" # "Compute"
  BY ONLY <1>2, <1>3, <1>4 DEF InReserve, Unresolved, Quiet, Current, DeviceOf, InFence, InBarrier
<1> QED
  BY ONLY CalmStream, VirtualAssumptions, VirtualInv, VirtualInv', AirInv, AirInv', StreamInv, v \in VGPUs,
     <1>1, <1>3, <1>4, <1>5, <1>6, <1>7

(* The waits of a packet are resolved: what comes before the current
   signal now comes before the packet, and so do the commands waited for. *)
LEMMA ResolveStream ==
  ASSUME VirtualAssumptions, VirtualInv, VirtualInv', AirInv, AirInv', StreamInv, NEW v \in VGPUs,
         Host(v), EmptyHanded(v), Ph(v) \notin InReserve, vgpu'[v].engine = "Compute",
         my'[v].packet.deps = Waiting(v, "Compute"),
         Ph(v)' \in InReserve \/ (Ph(v)' = "kernel" /\ Waiting(v, "Compute") = {})
  PROVE  StreamInv'
<1>1. PICK p : p = InHand(v) OBVIOUS
<1>2. /\ Moves(v, p, p) /\ Keeps(p, p) /\ Flight'[p] = my'[v].packet /\ Flight[p] = Nothing /\ p \in Air /\ p \in Air'
      /\ \A b : Moved(b, p, p) = b
  BY <1>1, HandMoves
<1>3. Hq(v)' = Hq(v) /\ Current(v) \in Signals /\ Current(v) \in Pool
  BY <1>2, HqStays, PoolParts DEF Moves, Frame
<1>4. PICK D : D = Waiting(v, "Compute") OBVIOUS
<1>5. Flight'[p].deps = D BY ONLY <1>2, <1>4, my'[v].packet.deps = Waiting(v, "Compute")
<1>6. ~Quiet(v)' /\ todo'[v] # <<>>
  <2>1. Ph(v)' # "idle" BY DEF InReserve
  <2> QED BY <2>1, CallFactsNext DEF InReserve, Quiet, InFence
<1>7. /\ NoTicket.signal \notin Pool
      /\ \A a \in Air : HasSignal(a) => Busy(Lowers(a))
      /\ \A a \in Air : Lowers(a) \in Pool => HasSignal(a) /\ Busy(Lowers(a))
      /\ \A a \in Air' : Lowers(a)' \in Pool => HasSignal(a)'
  BY SignalKinds DEF AirInv, SignalInv, FreshOf, HasSignal, Lowers
<1>8. ASSUME NEW t \in D, NEW a \in Air', Lowers(a)' = t.signal, t.signal \in Pool
      PROVE  Ph(v)' \in InReserve /\ Needs(p, a)'
  <2>1. PICK s : s = t.signal OBVIOUS
  <2>2. AwaitsAt(p, s)' BY ONLY <1>5, <2>1, t \in D DEF AwaitsAt
  <2>3. HasSignal(a)' /\ Lowers(a)' = s BY ONLY <1>7, <1>8, <2>1
  <2>4. Needs(p, a)' BY ONLY <2>2, <2>3 DEF Needs
  <2> QED
    BY ONLY <1>4, <2>4, t \in D, Ph(v)' \in InReserve \/ (Ph(v)' = "kernel" /\ Waiting(v, "Compute") = {})
<1>9. ASSUME NEW b, First(b, p)', Ph(v)' \in InReserve PROVE After(v, b)'
  <2>1. p = InHand(v)' BY ONLY <1>1 DEF InHand
  <2>2. RingAfter(v, b)' BY ONLY <1>9, <2>1 DEF RingAfter
  <2> QED BY ONLY <1>6, <2>2, vgpu'[v].engine = "Compute" DEF After
<1>10. ASSUME NEW b \in Air, After(v, b) PROVE After(v, b)'
  <2>1. /\ \A h, k : InRing(h, k) \in Air /\ Leads(b, InRing(h, k)) => InRing(h, k) \in Air' /\ Leads(b, InRing(h, k))'
        /\ \A s \in Signals : (\E a \in Air : Lowers(a) = s /\ Leads(b, a)) => \E a \in Air' : Lowers(a)' = s /\ Leads(b, a)'
    <3>1. /\ \A h, k : InRing(h, k) \in Air /\ Leads(b, InRing(h, k)) => InRing(h, k) \in Air' /\ Leads(Moved(b, p, p), InRing(h, k))'
          /\ \A s \in Signals : (\E a \in Air : Lowers(a) = s /\ Leads(b, a)) => \E a \in Air' : Lowers(a)' = s /\ Leads(Moved(b, p, p), a)'
      BY ONLY <1>2, MovesBefore, VirtualAssumptions, b \in Air
    <3>2. PICK b1 : b1 = Moved(b, p, p) OBVIOUS
    <3> QED BY ONLY <1>2, <3>1, <3>2
  <2>2. CASE vgpu[v].engine = "Compute"
    <3>1. PICK H : H = Hq(v) OBVIOUS
    <3>2. PICK k \in Int : InRing(H, k) \in Air /\ Ahead(v, k) /\ Leads(b, InRing(H, k))
      BY ONLY <1>10, <2>2, <3>1, Ph(v) \notin InReserve DEF After, RingAfter
    <3>3. InRing(H, k) \in Air' /\ Leads(b, InRing(H, k))' /\ H = Hq(v)' BY ONLY <1>3, <2>1, <3>1, <3>2
    <3>4. Ahead(v, k)' BY ONLY EmptyHanded(v) DEF EmptyHanded, Ahead, Holding
    <3>5. RingAfter(v, b)' BY ONLY <3>3, <3>4 DEF RingAfter
    <3> QED BY ONLY <1>6, <3>5, vgpu'[v].engine = "Compute" DEF After
  <2>3. CASE vgpu[v].engine # "Compute"
    <3>1. PICK s : s = Current(v) OBVIOUS
    <3>2. \E a \in Air : Lowers(a) = s /\ Leads(b, a) BY ONLY <1>10, <2>3, <3>1 DEF After, SignalAfter
    <3>3. Busy(s) BY ONLY <1>3, <1>7, <3>1, <3>2
    <3>4. PICK t \in D : t.signal = s
      BY ONLY <1>4, <2>3, <3>1, <3>3, WaitingIs, VirtualAssumptions, VirtualInv, v \in VGPUs
    <3>5. PICK a \in Air' : Lowers(a)' = s /\ Leads(b, a)' BY ONLY <1>3, <2>1, <3>1, <3>2
    <3>6. Ph(v)' \in InReserve /\ Needs(p, a)' BY ONLY <1>3, <1>8, <3>1, <3>4, <3>5
    <3>7. First(b, p)' BY ONLY <3>5, <3>6 DEF First
    <3> QED BY ONLY <1>9, <3>6, <3>7
  <2> QED BY ONLY <2>2, <2>3
<1>11. ASSUME NEW e \in command[my[v].cmd].waits \ done, command[e].hwEvent \in vgpu[v].external
       PROVE  \E b \in Air' : Flight'[b].cmd = e /\ After(v, b)'
  <2>1. PICK s : s = command[e].hwEvent OBVIOUS
  <2>2. e \in Commands /\ s \in Pool /\ vgpu[v].external \subseteq Pool /\ e # None
    <3>1. /\ my[v].cmd \in Commands
      <4>1. todo[v] # <<>> BY HostFrame
      <4>2. my[v].cmd \in 1..created /\ created \in 0..setup.commands /\ setup.commands \in 0..MaxCommands /\ MaxCommands \in Nat
        BY <4>1, SetupFacts DEF VirtualInv, Basic, InCall, Types
      <4> QED BY ONLY <4>2 DEF Commands
    <3>2. e \in Commands /\ vgpu[v].external \subseteq Pool
      BY <3>1, <1>11 DEF VirtualInv, Basic, Types, CommandObject, VirtualDevice
    <3> QED BY <1>11, <2>1, <3>2, Kinds
  <2>3. PICK a \in Air : Lowers(a) = s /\ Flight[a].cmd = e
    BY ONLY <2>1, <2>2, <1>11, StreamInv DEF StreamInv, Heard
  <2>4. Busy(s) BY ONLY <1>7, <2>2, <2>3
  <2>5. PICK t : t = Now(s) OBVIOUS
  <2>6. t \in D /\ t.signal = s BY ONLY <1>4, <1>11, <2>1, <2>4, <2>5 DEF Waiting, Now
  <2>7. a # p BY ONLY <1>2, <2>2, <2>3, NothingIs, VirtualAssumptions
  <2>8. a \in Air' /\ Flight'[a] = Flight[a] BY ONLY <1>2, <2>7, a \in Air DEF Moves
  <2>9. Lowers(a)' = s BY ONLY <2>3, <2>8 DEF Lowers
  <2>10. Ph(v)' \in InReserve /\ Needs(p, a)' BY ONLY <1>8, <2>2, <2>6, <2>8, <2>9
  <2>11. Leads(a, a)' BY ONLY LeadsSelf DEF Leads
  <2>12. First(a, p)' BY ONLY <2>8, <2>10, <2>11 DEF First
  <2>13. After(v, a)' BY ONLY <1>9, <2>10, <2>12
  <2> QED BY ONLY <2>3, <2>8, <2>13
<1>12. StreamStep(v, p, p) BY ONLY <1>1, <1>2, <1>6, <1>10, <1>11 DEF StreamStep
<1> QED BY <1>1, <1>12, HandStream

(* A kernel waits in a barrier of its own, or for nothing. *)
LEMMA BlockingWaitStream ==
  ASSUME VirtualAssumptions, VirtualInv, VirtualInv', AirInv, AirInv', StreamInv, NEW v \in VGPUs, BlockingWait(v)
  PROVE  StreamInv'
<1>1. /\ Host(v) /\ SameCommands /\ ring' = ring /\ dma' = dma /\ done' = done
  <2>1. ~(GrowList(v) \/ ReuseSignal(v)) /\ Host(v) BY DEF BlockingWait, GrowList, ReuseSignal, Do, Host
  <2> QED BY <2>1, HostFrame DEF BlockingWait
<1>2. PICK D : D = Waiting(v, "Compute") OBVIOUS
<1>3. Ph(v) = "blockingWait" /\ Ph(v)' = IF D = {} THEN "kernel" ELSE "reserveWait"
  BY <1>2, WaitPhases DEF VirtualInv
<1>4. ~Holding(v) /\ ~HoldPlan(todo'[v]) /\ my[v].packet = Nothing
  BY <1>3, CallFacts, CallFactsNext DEF PacketOf, InReserve, InSignal, InWrite
<1>5. vgpu'[v].engine = "Compute"
  <2>1. vgpu[v] \in VirtualDevice /\ Resolve(v, "Compute") /\ vgpu \in [VGPUs -> VirtualDevice]
    BY DEF VirtualInv, Basic, Types, BlockingWait
  <2> QED BY ONLY <2>1, v \in VGPUs DEF VirtualDevice, Resolve
<1>6. my'[v].packet.signal = NoTicket /\ my'[v].packet.cmd = None /\ my'[v].packet.deps = D
  <2>1. my'[v].packet = [Nothing EXCEPT !.deps = D]
    BY <1>2 DEF VirtualInv, Basic, Types, BlockingWait, MyRecord
  <2> QED BY ONLY <2>1, NewPacketIs
<1>7. EmptyHanded(v) BY ONLY <1>1, <1>4, <1>6 DEF EmptyHanded
<1>8. Ph(v) \notin InReserve /\ (Ph(v)' \in InReserve \/ (Ph(v)' = "kernel" /\ D = {}))
  BY ONLY <1>3 DEF InReserve
<1> QED
  BY ONLY ResolveStream, VirtualAssumptions, VirtualInv, VirtualInv', AirInv, AirInv', StreamInv, v \in VGPUs,
     <1>1, <1>2, <1>5, <1>6, <1>7, <1>8

(* The barrier of a marker or of a fence. *)
LEMMA BarrierStream ==
  ASSUME VirtualAssumptions, VirtualInv, VirtualInv', AirInv, AirInv', StreamInv, NEW v \in VGPUs, Barrier(v)
  PROVE  StreamInv'
<1>1. /\ Host(v) /\ SameCommands /\ ring' = ring /\ dma' = dma /\ done' = done
  <2>1. ~(GrowList(v) \/ ReuseSignal(v)) /\ Host(v) BY DEF Barrier, GrowList, ReuseSignal, Do, Host
  <2> QED BY <2>1, HostFrame DEF Barrier
<1>2. Ph(v) \in InBarrier /\ Ph(v)' \in {"reserveLast", "reserveCopy", "reserveFlush"}
  <2>1. \/ Ph(v) = "barrierLast" /\ Ph(v)' = "reserveLast"
        \/ Ph(v) = "barrierCopy" /\ Ph(v)' = "reserveCopy"
        \/ Ph(v) = "barrierFlush" /\ Ph(v)' = "reserveFlush"
    BY PlainPhases DEF VirtualInv
  <2> QED BY ONLY <2>1 DEF InBarrier
<1>3. ~Holding(v) /\ ~HoldPlan(todo'[v]) /\ my[v].packet = Nothing
  BY <1>2, CallFacts, CallFactsNext DEF PacketOf, InReserve, InSignal, InWrite, InBarrier
<1>4. vgpu'[v].engine = "Compute"
  <2>1. vgpu[v] \in VirtualDevice /\ Resolve(v, "Compute") /\ vgpu \in [VGPUs -> VirtualDevice]
    BY DEF VirtualInv, Basic, Types, Barrier
  <2> QED BY ONLY <2>1, v \in VGPUs DEF VirtualDevice, Resolve
<1>5. /\ my'[v].packet.signal = NoTicket /\ my'[v].packet.deps = Waiting(v, "Compute")
      /\ my'[v].packet.cmd \in {None, my[v].cmd}
  <2>1. PICK c : c = IF command[my[v].cmd].op \in {"marker", "nop"} THEN my[v].cmd ELSE None OBVIOUS
  <2>2. my'[v].packet = [Nothing EXCEPT !.deps = Waiting(v, "Compute"), !.cmd = c]
    BY <2>1 DEF VirtualInv, Basic, Types, Barrier, MyRecord
  <2> QED BY ONLY <2>1, <2>2, NewPacketIs
<1>6. EmptyHanded(v) BY ONLY <1>1, <1>3, <1>5 DEF EmptyHanded
<1>7. Ph(v) \notin InReserve /\ Ph(v)' \in InReserve BY ONLY <1>2 DEF InReserve, InBarrier
<1> QED
  BY ONLY ResolveStream, VirtualAssumptions, VirtualInv, VirtualInv', AirInv, AirInv', StreamInv, v \in VGPUs,
     <1>1, <1>4, <1>5, <1>6, <1>7

(* A chain with a link is one, after a step too. *)
LEMMA FirstLeadsNext ==
  ASSUME NEW b, NEW a \in Air', First(b, a)'
  PROVE  Leads(b, a)'
<1> SUFFICES ASSUME NEW B \in SUBSET Air', b \in B, \A u \in B, w \in Air' : Needs(w, u)' => w \in B
             PROVE  a \in B
  BY DEF Leads
<1>1. PICK x \in Air' : Leads(b, x)' /\ Needs(a, x)' BY DEF First
<1>2. x \in B
  BY ONLY <1>1, b \in B, B \in SUBSET Air', \A u \in B, w \in Air' : Needs(w, u)' => w \in B DEF Leads
<1> QED BY ONLY <1>1, <1>2, a \in Air', \A u \in B, w \in Air' : Needs(w, u)' => w \in B

(* An index is taken behind all that is in the ring. *)
LEMMA TakeStream ==
  ASSUME VirtualAssumptions, VirtualInv, VirtualInv', AirInv, AirInv', StreamInv, NEW v \in VGPUs,
         Reserve(v) \/ Kernel(v)
  PROVE  StreamInv'
<1>1. PICK h, n, p, q : h = Hq(v) /\ n = ring[h].write /\ p = InHand(v) /\ q = InRing(h, n) OBVIOUS
<1>2. /\ Moves(v, p, q) /\ Flight'[q] = my'[v].packet /\ Flight[p] = my[v].packet /\ p \in Air /\ q \in Air'
      /\ my'[v].index = n /\ n \in Nat /\ \A i : InRing(h, i) \in Air => i < n
  <2>1. q = InRing(Hq(v), ring[Hq(v)].write) BY ONLY <1>1
  <2>2. Moves(v, InHand(v), q) /\ Flight'[q] = my'[v].packet
    BY ONLY <2>1, VirtualAssumptions, VirtualInv, VirtualInv', v \in VGPUs, Reserve(v) \/ Kernel(v), TakeMoves
  <2>3. /\ my'[v].index = ring[Hq(v)].write /\ ring[Hq(v)].write \in Nat
        /\ \A i : InRing(Hq(v), i) \in Air => i < ring[Hq(v)].write
    BY ONLY <2>1, VirtualAssumptions, VirtualInv, VirtualInv', v \in VGPUs, Reserve(v) \/ Kernel(v), TakeEffect
  <2> QED BY ONLY <1>1, <2>2, <2>3 DEF Moves
<1>3. SameCommands /\ todo[v] # <<>> /\ my'[v].cmd = my[v].cmd /\ vgpu' = vgpu
      /\ UNCHANGED <<setup, created, signal, dma, done>>
  <2>1. ~(GrowList(v) \/ ReuseSignal(v)) BY DEF Reserve, Kernel, GrowList, ReuseSignal, Do
  <2> QED BY <2>1, HostFrame DEF Host, Reserve, Kernel, Reserved
<1>4. /\ \/ Ph(v) = "reserveLast" /\ Ph(v)' = "signalLast"
         \/ Ph(v) = "reserveCopy" /\ Ph(v)' = "signalCopy"
         \/ Ph(v) = "reserveFlush" /\ Ph(v)' = "signalFlush"
         \/ Ph(v) = "reserveWait" /\ Ph(v)' = "writeWait"
         \/ Ph(v) = "reserveChunk" /\ Ph(v)' = "writeChunk"
         \/ Ph(v) = "kernel" /\ Ph(v)' \in {"writeLast", "signalLast"}
      /\ Reserve(v) => Ph(v) # "kernel"
      /\ Kernel(v) => Ph(v) = "kernel"
  BY PlainPhases DEF VirtualInv
<1>5. /\ ~Holding(v) /\ PacketOf(v) /\ DeviceOf(v) /\ todo'[v] # <<>>
  BY <1>4, CallFacts, CallFactsNext DEF InSignal, InWrite
<1>6. /\ my'[v].packet.deps = my[v].packet.deps /\ my'[v].packet.signal = my[v].packet.signal
      /\ my[v].packet.cmd \in {None, my'[v].packet.cmd} /\ my'[v].packet.cmd \in {my[v].packet.cmd, my[v].cmd}
      /\ Reserve(v) => my'[v].packet.cmd = my[v].packet.cmd
  <2>1. CASE Reserve(v)
    <3>1. my \in [VGPUs -> MyRecord] BY DEF VirtualInv, Basic, Types
    <3>2. my'[v].packet = my[v].packet BY <2>1, <3>1 DEF Reserve, Reserved, MyRecord
    <3> QED BY ONLY <3>2
  <2>2. CASE Kernel(v)
    <3>1. PICK c : c = my[v].cmd OBVIOUS
    <3>2. my \in [VGPUs -> MyRecord] BY DEF VirtualInv, Basic, Types
    <3>3. my'[v].packet = [Nothing EXCEPT !.kind = "kernel", !.cmd = c]
      BY <2>2, <3>1, <3>2 DEF Kernel, Reserved, MyRecord
    <3>4. my'[v].packet.deps = {} /\ my'[v].packet.signal = NoTicket /\ my'[v].packet.cmd = c
      BY ONLY <3>3, NewPacketIs
    <3>5. my[v].packet = Nothing BY ONLY <1>4, <1>5, <2>2 DEF PacketOf, InReserve, InSignal, InWrite
    <3>6. my[v].packet.deps = {} /\ my[v].packet.signal = NoTicket /\ my[v].packet.cmd = None
      BY ONLY <3>5, NothingIs, VirtualAssumptions
    <3>7. ~Reserve(v) BY ONLY <1>4, <2>2
    <3> QED BY ONLY <3>1, <3>4, <3>6, <3>7
  <2> QED BY ONLY <2>1, <2>2, Reserve(v) \/ Kernel(v)
<1>7. Keeps(p, q) /\ Flight'[q].signal = Flight[p].signal BY ONLY <1>2, <1>6 DEF Keeps
<1>8. StreamEvents(p, q) BY ONLY <1>3, <1>7 DEF SameCommands, StreamEvents
<1>9. /\ Moved(p, p, q) = q /\ \A b : b # p => Moved(b, p, q) = b
      /\ vgpu'[v].engine = vgpu[v].engine /\ Current(v)' = Current(v) /\ Hq(v)' = h /\ Ahead(v, n)'
      /\ ~Quiet(v)' /\ Current(v) \in Signals /\ h \in HwQueues
  <2>1. ~Quiet(v)' BY ONLY <1>4 DEF Quiet, InFence
  <2>2. Hq(v)' = h BY ONLY <1>1, <1>3, HqStays
  <2>3. Current(v) \in Signals /\ h \in HwQueues BY <1>1, PoolParts
  <2> QED BY ONLY <1>2, <1>3, <2>1, <2>2, <2>3 DEF Moved, Current, Ahead
<1>10. ASSUME NEW b \in Air, RingAfter(v, b) PROVE First(Moved(b, p, q), q)'
  <2>1. PICK b1 : b1 = Moved(b, p, q) OBVIOUS
  <2>2. CASE First(b, InHand(v))
    <3>1. First(Moved(b, p, q), Moved(p, p, q))' BY ONLY <1>1, <1>2, <1>7, <2>2, MovesLeads, b \in Air
    <3>2. PICK p1 : p1 = Moved(p, p, q) OBVIOUS
    <3> QED BY ONLY <1>9, <3>1, <3>2
  <2>3. CASE \E k \in Int : InRing(Hq(v), k) \in Air /\ Ahead(v, k) /\ Leads(b, InRing(Hq(v), k))
    <3>1. PICK k \in Int : InRing(h, k) \in Air /\ Leads(b, InRing(h, k)) BY ONLY <1>1, <2>3
    <3>2. PICK x : x = InRing(h, k) OBVIOUS
    <3>3. x \in Air' /\ Leads(b1, x)'
      BY ONLY <1>2, <1>7, <2>1, <3>1, <3>2, MovesBefore, VirtualAssumptions, b \in Air
    <3>4. Needs(q, x)'
      <4>1. k < n /\ n \in Int BY <1>2, <3>1
      <4> QED BY ONLY <1>1, <1>9, <3>2, <4>1, k \in Int DEF Needs, InRing
    <3>5. First(b1, q)' BY ONLY <3>3, <3>4 DEF First
    <3> QED BY ONLY <2>1, <3>5
  <2> QED BY ONLY <1>10, <2>2, <2>3 DEF RingAfter
<1>11. ASSUME NEW b \in Air, After(v, b) PROVE After(v, Moved(b, p, q))'
  <2>1. PICK b1 : b1 = Moved(b, p, q) OBVIOUS
  <2>2. CASE vgpu[v].engine = "Compute"
    <3>1. First(b1, q)' BY ONLY <1>10, <1>11, <2>1, <2>2 DEF After
    <3>2. Leads(b1, q)' BY ONLY <1>2, <3>1, FirstLeadsNext
    <3>3. InRing(h, n) \in Air' /\ Leads(b1, InRing(h, n))' /\ n \in Int BY <1>1, <1>2, <3>2
    <3>4. RingAfter(v, b1)' BY ONLY <1>9, <3>3 DEF RingAfter
    <3>5. After(v, b1)' BY ONLY <1>9, <2>2, <3>4 DEF After
    <3> QED BY ONLY <2>1, <3>5
  <2>3. CASE vgpu[v].engine # "Compute"
    <3>1. PICK s : s = Current(v) OBVIOUS
    <3>2. \E a \in Air : Lowers(a) = s /\ Leads(b, a) BY ONLY <1>11, <2>3, <3>1 DEF After, SignalAfter
    <3>3. \E a \in Air' : Lowers(a)' = s /\ Leads(b1, a)'
      BY ONLY <1>2, <1>7, <1>9, <2>1, <3>1, <3>2, MovesBefore, VirtualAssumptions, b \in Air
    <3>4. SignalAfter(v, b1)' BY ONLY <1>9, <3>1, <3>3 DEF SignalAfter
    <3>5. After(v, b1)' BY ONLY <1>9, <2>3, <3>4 DEF After
    <3> QED BY ONLY <2>1, <3>5
  <2> QED BY ONLY <2>2, <2>3
<1>12. Ph(v) \in Unresolved => Ph(v)' \in Unresolved /\ vgpu'[v].external = vgpu[v].external
  BY ONLY <1>3, <1>4 DEF Unresolved, InFence, InBarrier
<1>13. ASSUME Flight'[q].cmd # None, NEW b \in Air, b # p, After(v, b)
       PROVE  Ph(v) \notin Unresolved /\ First(b, q)'
  <2>1. Ph(v) \in {"reserveLast", "kernel"}
    <3>1. CASE Kernel(v) BY ONLY <1>4, <3>1
    <3>2. CASE Reserve(v)
      <4>1. my[v].packet.cmd # None BY ONLY <1>2, <1>6, <1>13, <3>2
      <4> QED BY ONLY <1>4, <1>5, <3>2, <4>1 DEF PacketOf
    <3> QED BY ONLY <3>1, <3>2, Reserve(v) \/ Kernel(v)
  <2>2. vgpu[v].engine = "Compute" /\ Ph(v) \notin Unresolved
    BY ONLY <1>5, <2>1 DEF DeviceOf, Resolved, Unresolved, InFence, InBarrier
  <2>3. First(Moved(b, p, q), q)' BY ONLY <1>10, <1>13, <2>2, b \in Air DEF After
  <2>4. PICK b1 : b1 = Moved(b, p, q) OBVIOUS
  <2> QED BY ONLY <1>9, <1>13, <2>2, <2>3, <2>4
<1>14. Flight'[q].cmd # None => Ph(v) \notin Unresolved
  <2>1. CASE Kernel(v) BY ONLY <1>4, <2>1 DEF Unresolved, InFence, InBarrier
  <2>2. CASE Reserve(v)
    <3>1. Flight'[q].cmd = my[v].packet.cmd BY ONLY <1>2, <1>6, <2>2
    <3> QED BY ONLY <1>4, <1>5, <2>2, <3>1 DEF PacketOf, Unresolved, InFence, InBarrier
  <2> QED BY ONLY <2>1, <2>2, Reserve(v) \/ Kernel(v)
<1>15. StreamStep(v, p, q) BY ONLY <1>3, <1>5, <1>11, <1>12, <1>13, <1>14 DEF StreamStep
<1>16. Flight'[q].cmd \in {None, Flight[p].cmd, my[v].cmd} BY ONLY <1>2, <1>6
<1> QED
  BY ONLY MovesStream, VirtualAssumptions, VirtualInv, VirtualInv', AirInv, AirInv', StreamInv, v \in VGPUs,
     <1>2, <1>3, <1>7, <1>8, <1>15, <1>16

(* The packet is stored; the last one of a quiet device lowers its current
   signal. *)
LEMMA WriteStream ==
  ASSUME VirtualAssumptions, VirtualInv, VirtualInv', AirInv, AirInv', StreamInv, NEW v \in VGPUs, Write(v)
  PROVE  StreamInv'
<1>1. PICK h, w : h = Hq(v) /\ w = my[v].index OBVIOUS
<1>2. PICK n : n = InRing(h, w) /\ n = SpotOf(v) BY WriteMoves, <1>1
<1>3. /\ Moves(v, n, n) /\ Flight'[n] = my[v].packet /\ Holding(v) /\ ~HoldPlan(todo'[v]) /\ w \in Int
  <2>1. w \in Int BY <1>1 DEF VirtualInv, Basic, Types, MyRecord
  <2> QED BY <1>2, <2>1, WriteMoves
<1>4. Flight[n] = my[v].packet /\ n \in Air /\ n \in Air' /\ \A b : Moved(b, n, n) = b
  BY ONLY <1>3 DEF Moves, Moved
<1>5. /\ SameCommands /\ todo[v] # <<>> /\ my'[v].cmd = my[v].cmd
      /\ UNCHANGED <<setup, created, signal, dma, done>>
  <2>1. ~(GrowList(v) \/ ReuseSignal(v)) BY DEF Write, GrowList, ReuseSignal, Do
  <2> QED BY <2>1, HostFrame DEF Host, Write
<1>6. /\ \/ Ph(v) = "writeLast" /\ Ph(v)' = "idle"
         \/ Ph(v) = "writeCopy" /\ Ph(v)' = "copyWait"
         \/ Ph(v) = "writeFlush" /\ Ph(v)' = "waitCurrent"
         \/ Ph(v) = "writeWait" /\ Ph(v)' = "kernel"
         \/ Ph(v) = "writeChunk" /\ Ph(v)' = "nextChunk"
  BY PlainPhases DEF VirtualInv
<1>7. /\ PacketOf(v) /\ DeviceOf(v) /\ (todo'[v] = <<>> <=> Ph(v)' = "idle") BY CallFacts, CallFactsNext
<1>8. PICK pk : pk = my[v].packet OBVIOUS
<1>9. /\ vgpu'[v].list = vgpu[v].list /\ vgpu'[v].current = vgpu[v].current /\ vgpu'[v].engine = vgpu[v].engine
      /\ vgpu'[v].external = vgpu[v].external
      /\ pk.kind = "kernel" => vgpu'[v].pending = TRUE
  <2>1. vgpu \in [VGPUs -> VirtualDevice] BY DEF VirtualInv, Basic, Types
  <2> QED BY <2>1, <1>8 DEF Write, VirtualDevice
<1>10. PICK s \in Pool : s = Current(v) /\ s = Current(v)' BY <1>9, PoolParts DEF Current
<1>11. /\ Ph(v) \in {"writeLast", "writeCopy", "writeFlush"} =>
            /\ vgpu[v].engine = "Compute"
            /\ pk.signal.signal = s \/ pk.kind = "kernel"
       /\ Ph(v) = "writeLast" => pk.cmd = my[v].cmd
       /\ Quiet(v)' => Ph(v) \in {"writeLast", "writeCopy", "writeFlush"} /\ pk.kind # "kernel"
  BY ONLY <1>6, <1>7, <1>8, <1>9, <1>10 DEF PacketOf, DeviceOf, Resolved, Quiet, InFence
<1>12. /\ Hq(v)' = h /\ s \in Signals /\ h \in HwQueues /\ \A j : Ahead(v, j)'
       /\ Lowers(n) = pk.signal.signal /\ Lowers(n)' = pk.signal.signal
  <2>1. Hq(v)' = h BY ONLY <1>1, <1>5, HqStays
  <2>2. s \in Signals /\ h \in HwQueues BY <1>1, <1>10, PoolParts
  <2>3. \A j : Ahead(v, j)' BY ONLY <1>3 DEF Ahead, Holding
  <2> QED BY ONLY <1>3, <1>4, <1>8, <2>1, <2>2, <2>3 DEF Lowers
<1>13. Keeps(n, n) BY ONLY <1>3, <1>4 DEF Keeps
<1>14. ASSUME NEW b \in Air, RingAfter(v, b) PROVE RingAfter(v, b)' /\ Leads(b, n)
  <2>1. PICK k \in Int : InRing(h, k) \in Air /\ Ahead(v, k) /\ Leads(b, InRing(h, k))
    <3>1. Ph(v) \notin InReserve BY ONLY <1>6 DEF InReserve
    <3> QED BY ONLY <1>1, <1>14, <3>1 DEF RingAfter
  <2>2. PICK b1, x : b1 = Moved(b, n, n) /\ x = InRing(h, k) OBVIOUS
  <2>3. x \in Air' /\ Leads(b1, x)'
    BY ONLY <1>3, <1>13, <2>1, <2>2, MovesBefore, VirtualAssumptions, b \in Air
  <2>4. x \in Air' /\ Leads(b, x)' BY ONLY <1>4, <2>2, <2>3
  <2>5. RingAfter(v, b)' BY ONLY <1>12, <2>2, <2>4 DEF RingAfter
  <2>6. k <= w BY ONLY <1>1, <1>3, <2>1 DEF Ahead
  <2>7. CASE k = w BY ONLY <1>2, <2>1, <2>5, <2>7
  <2>8. CASE k # w
    <3>1. k < w BY ONLY <1>3, <2>6, <2>8, k \in Int
    <3>2. Needs(n, x) BY ONLY <1>2, <1>3, <1>12, <2>2, <3>1, k \in Int DEF Needs
    <3>3. Leads(b, n) BY ONLY <1>4, <2>1, <2>2, <3>2, LeadsOn
    <3> QED BY ONLY <2>5, <3>3
  <2> QED BY ONLY <2>7, <2>8
<1>15. ASSUME NEW b \in Air, \E a \in Air : Lowers(a) = s /\ Leads(b, a) PROVE SignalAfter(v, b)'
  <2>1. PICK b1 : b1 = Moved(b, n, n) OBVIOUS
  <2>2. \E a \in Air' : Lowers(a)' = s /\ Leads(b1, a)'
    BY ONLY <1>3, <1>12, <1>13, <1>15, <2>1, MovesBefore, VirtualAssumptions, b \in Air
  <2>3. b1 = b BY ONLY <1>4, <2>1
  <2> QED BY ONLY <1>10, <2>2, <2>3 DEF SignalAfter
<1>16. ASSUME NEW b \in Air, vgpu[v].engine = "Compute" => RingAfter(v, b),
              vgpu[v].engine # "Compute" => SignalAfter(v, b)
       PROVE  After(v, b)'
  <2>1. vgpu'[v].engine = "Compute" => RingAfter(v, b)' BY ONLY <1>9, <1>14, <1>16
  <2>2. CASE vgpu[v].engine # "Compute"
    <3>1. SignalAfter(v, b)' BY ONLY <1>10, <1>15, <1>16, <2>2 DEF SignalAfter
    <3> QED BY ONLY <2>1, <3>1 DEF After
  <2>3. CASE vgpu[v].engine = "Compute" /\ Quiet(v)'
    <3>1. Lowers(n) = s /\ Leads(b, n) BY ONLY <1>11, <1>12, <1>14, <1>16, <2>3
    <3>2. SignalAfter(v, b)' BY ONLY <1>4, <1>15, <3>1, b \in Air
    <3> QED BY ONLY <2>1, <3>2 DEF After
  <2>4. CASE vgpu[v].engine = "Compute" /\ ~Quiet(v)' BY ONLY <1>9, <2>1, <2>4 DEF After
  <2> QED BY ONLY <2>2, <2>3, <2>4
<1>17. ASSUME NEW b \in Air, After(v, b) PROVE After(v, Moved(b, n, n))'
  <2>1. After(v, b)' BY ONLY <1>16, <1>17 DEF After
  <2>2. PICK b1 : b1 = Moved(b, n, n) OBVIOUS
  <2> QED BY ONLY <1>4, <2>1, <2>2
<1>18. ASSUME todo'[v] = <<>> PROVE Flight'[n].cmd = my[v].cmd /\ After(v, n)'
  <2>1. Ph(v) = "writeLast" BY ONLY <1>6, <1>7, <1>18
  <2>2. Ahead(v, w) BY ONLY <1>1, <1>3 DEF Ahead
  <2>3. RingAfter(v, n) BY ONLY <1>1, <1>2, <1>3, <1>4, <2>2, LeadsSelf DEF RingAfter
  <2>4. After(v, n)' BY ONLY <1>4, <1>11, <1>16, <2>1, <2>3
  <2> QED BY ONLY <1>3, <1>8, <1>11, <2>1, <2>4
<1>19. Ph(v) \in Unresolved => Ph(v)' \in Unresolved /\ vgpu'[v].external = vgpu[v].external
  BY ONLY <1>6, <1>9 DEF Unresolved, InFence, InBarrier
<1>20. StreamStep(v, n, n) BY ONLY <1>3, <1>4, <1>17, <1>18, <1>19 DEF StreamStep
<1>21. StreamEvents(n, n) BY ONLY <1>3, <1>4, <1>5 DEF SameCommands, StreamEvents
<1> QED
  BY ONLY MovesStream, VirtualAssumptions, VirtualInv, VirtualInv', AirInv, AirInv', StreamInv, v \in VGPUs,
     <1>3, <1>4, <1>5, <1>13, <1>20, <1>21

(* A copy is given to an engine: it waits for all that comes before its
   signal. *)
LEMMA StartCopyStream ==
  ASSUME VirtualAssumptions, VirtualInv, VirtualInv', AirInv, AirInv', StreamInv, NEW v \in VGPUs, StartCopy(v)
  PROVE  StreamInv'
<1>1. PICK pk, c, x, p, q : /\ pk = my[v].packet /\ c = my[v].cmd
                            /\ x = [cmd |-> c, deps |-> pk.deps, signal |-> pk.signal]
                            /\ p = InHand(v) /\ q = InDma(x)
  OBVIOUS
<1>2. /\ Moves(v, p, q) /\ Flight'[q] = x BY <1>1, StartCopyMoves DEF AirInv
<1>3. Flight[p] = pk /\ p \in Air /\ q \in Air' BY ONLY <1>1, <1>2 DEF Moves
<1>4. /\ SameCommands /\ todo[v] # <<>> /\ my'[v].cmd = c
      /\ UNCHANGED <<setup, created, signal, done, vgpu>>
  <2>1. ~(GrowList(v) \/ ReuseSignal(v)) BY DEF StartCopy, GrowList, ReuseSignal, Do
  <2> QED BY <1>1, <2>1, HostFrame DEF Host, StartCopy
<1>5. Ph(v) = "copy" /\ Ph(v)' = "idle" BY PlainPhases DEF VirtualInv
<1>6. /\ PacketOf(v) /\ DeviceOf(v) /\ todo'[v] = <<>> BY <1>5, CallFacts, CallFactsNext
<1>7. PICK s \in Pool : s = Current(v) /\ s = Current(v)' BY <1>4, PoolParts DEF Current
<1>8. pk.cmd = None /\ pk.signal.signal = s /\ vgpu[v].engine = "Sdma" /\ vgpu'[v].engine = "Sdma"
  BY ONLY <1>1, <1>4, <1>5, <1>6, <1>7 DEF PacketOf, DeviceOf
<1>9. x.cmd = c /\ x.deps = pk.deps /\ x.signal = pk.signal BY ONLY <1>1
<1>10. Keeps(p, q) /\ Flight'[q].signal = Flight[p].signal /\ Lowers(p) = s /\ Lowers(q)' = s
  BY ONLY <1>2, <1>3, <1>8, <1>9 DEF Keeps, Lowers
<1>11. /\ Moved(p, p, q) = q /\ \A b : b # p => Moved(b, p, q) = b
       /\ Ph(v) \notin InReserve /\ Ph(v) \notin Unresolved
  BY ONLY <1>5 DEF Moved, InReserve, Unresolved, InFence, InBarrier
<1>12. \A b \in Air : After(v, b) => After(v, Moved(b, p, q))'
  <2>1. "Sdma" # "Compute" /\ Current(v)' = Current(v) BY ONLY <1>7
  <2> QED
    BY ONLY <1>2, <1>8, <1>10, <2>1, AfterStays, VirtualAssumptions, VirtualInv, VirtualInv', v \in VGPUs
<1>13. After(v, q)'
  <2>1. Leads(q, q)' BY ONLY LeadsSelf DEF Leads
  <2>2. SignalAfter(v, q)' BY ONLY <1>3, <1>7, <1>10, <2>1 DEF SignalAfter
  <2>3. "Sdma" # "Compute" OBVIOUS
  <2> QED BY ONLY <1>8, <2>2, <2>3 DEF After
<1>14. ASSUME NEW b \in Air, b # p, After(v, b) PROVE First(b, q)'
  <2>1. PICK a \in Air : Lowers(a) = s /\ Leads(b, a)
    <3>1. "Sdma" # "Compute" OBVIOUS
    <3> QED BY ONLY <1>7, <1>8, <1>14, <3>1 DEF After, SignalAfter
  <2>2. a = p BY <1>3, <1>10, <2>1, SignalKinds DEF AirInv, SignalInv, HasSignal, Lowers
  <2>3. First(b, p) BY ONLY <1>14, <2>1, <2>2, LeadsLast
  <2>4. First(Moved(b, p, q), Moved(p, p, q))' BY ONLY <1>2, <1>3, <1>10, <2>3, MovesLeads, b \in Air
  <2>5. PICK b1, p1 : b1 = Moved(b, p, q) /\ p1 = Moved(p, p, q) OBVIOUS
  <2> QED BY ONLY <1>11, <1>14, <2>4, <2>5
<1>15. StreamStep(v, p, q) BY ONLY <1>1, <1>2, <1>6, <1>9, <1>11, <1>12, <1>13, <1>14 DEF StreamStep
<1>16. StreamEvents(p, q) BY ONLY <1>4, <1>10 DEF SameCommands, StreamEvents
<1>17. Flight'[q].cmd \in {None, Flight[p].cmd, my[v].cmd} /\ my'[v].cmd = my[v].cmd
  BY ONLY <1>1, <1>2, <1>4, <1>9
<1> QED
  BY ONLY MovesStream, VirtualAssumptions, VirtualInv, VirtualInv', AirInv, AirInv', StreamInv, v \in VGPUs,
     <1>2, <1>4, <1>10, <1>15, <1>16, <1>17

(* The signal that is taken is of no event. *)
LEMMA TakenIsFree ==
  ASSUME VirtualAssumptions, VirtualInv, AirInv, NEW v \in VGPUs, GrowList(v) \/ ReuseSignal(v),
         NEW m, NEW i, NEW s, Attaches(v, m, i, s)
  PROVE  Retaining(s) = {}
<1>1. vgpu'[v].list = m /\ vgpu'[v].current = i /\ s = m[i]
  BY DEF Attaches, Attach, VirtualInv, Basic, Types, VirtualDevice
<1>2. ASSUME NEW n \in Seq(Pool), NEW j, Attach(v, n, j) PROVE n = m /\ j = i
  BY <1>1, <1>2 DEF Attach, VirtualInv, Basic, Types, VirtualDevice
<1>3. CASE GrowList(v)
  <2>1. PICK l, c, x : l = vgpu[v].list /\ c = vgpu[v].current /\ x = NewSignal OBVIOUS
  <2>2. PICK n \in Seq(Pool) : \E j \in 1..Len(n) :
             /\ Attach(v, n, j) /\ j = NextPlace(v) /\ n = InsertAt(vgpu[v].list, j, NewSignal)
             /\ NewSignal \in Pool /\ ~Exists(NewSignal)
    BY <1>3, GrowListAttach DEF VirtualInv
  <2>3. m = InsertAt(l, i, x) /\ i = NextPlace(v) /\ x \in Pool /\ ~Exists(x) BY ONLY <1>2, <2>1, <2>2
  <2>4. l \in Seq(Pool) /\ c \in 1..Len(l) /\ NextPlace(v) = NextId(c, l)
    BY ONLY ListFacts, <2>1, VirtualAssumptions, VirtualInv, AirInv, v \in VGPUs
  <2>5. m[i] = x BY ONLY <2>3, <2>4, GrownOrder
  <2> QED BY ONLY <1>1, <2>3, <2>5 DEF Exists
<1>4. CASE ReuseSignal(v)
  <2>1. PICK l, x : l = vgpu[v].list /\ x = NewSignal OBVIOUS
  <2>2. PICK n \in Seq(Pool) : \E j \in 1..Len(n) :
           /\ Attach(v, n, j) /\ Len(n) = Len(l)
           /\ \/ n = l /\ Retaining(n[j]) = {}
              \/ n = [l EXCEPT ![j] = x] /\ ~Exists(x)
    <3>1. \E n \in Seq(Pool) : \E j \in 1..Len(n) :
           /\ Attach(v, n, j) /\ j = NextPlace(v) /\ Len(n) = Len(vgpu[v].list)
           /\ ~Busy(vgpu[v].list[j]) /\ ~Busy(Peeked(v))
           /\ \/ n = vgpu[v].list /\ Retaining(n[j]) = {}
              \/ n = [vgpu[v].list EXCEPT ![j] = NewSignal] /\ NewSignal \in Pool /\ ~Exists(NewSignal)
      BY <1>4, ReuseSignalAttach DEF VirtualInv
    <3> QED BY ONLY <2>1, <3>1
  <2>3. PICK j \in 1..Len(n) : /\ Attach(v, n, j) /\ Len(n) = Len(l)
                               /\ \/ n = l /\ Retaining(n[j]) = {}
                                  \/ n = [l EXCEPT ![j] = x] /\ ~Exists(x)
    BY ONLY <2>2
  <2>4. n = m /\ j = i BY ONLY <1>2, <2>3, n \in Seq(Pool)
  <2>5. l \in Seq(Pool) BY ONLY ListFacts, <2>1, VirtualAssumptions, VirtualInv, AirInv, v \in VGPUs
  <2>6. Retaining(n[j]) = {} \/ (n[j] = x /\ ~Exists(x)) BY ONLY <2>3, <2>5
  <2> QED BY ONLY <1>1, <2>4, <2>6 DEF Exists
<1> QED BY ONLY <1>3, <1>4, GrowList(v) \/ ReuseSignal(v)

(* The next signal is taken: it falls after the one before it. *)
LEMMA AttachStream ==
  ASSUME VirtualAssumptions, VirtualInv, VirtualInv', AirInv, AirInv', StreamInv, NEW v \in VGPUs,
         GrowList(v) \/ ReuseSignal(v)
  PROVE  StreamInv'
<1>1. PICK m, i, s0 : Attaches(v, m, i, s0)
  BY ONLY GrowAttaches, ReuseAttaches, VirtualAssumptions, VirtualInv, AirInv, v \in VGPUs,
     GrowList(v) \/ ReuseSignal(v)
<1>2. PICK p, pk : p = SpotOf(v) /\ pk = my[v].packet OBVIOUS
<1>3. /\ Frame(v) /\ todo[v] # <<>> /\ my'[v].cmd = my[v].cmd
      /\ UNCHANGED <<setup, created, ring, dma, done>>
  <2>1. UNCHANGED <<setup, created, ring, dma, done>> BY ONLY <1>1 DEF Attaches, Attach
  <2> QED BY <2>1, HostFrame DEF Host
<1>4. /\ \/ Ph(v) = "signalLast" /\ Ph(v)' = "writeLast"
         \/ Ph(v) = "signalCopy" /\ Ph(v)' = "writeCopy"
         \/ Ph(v) = "signalFlush" /\ Ph(v)' = "writeFlush"
         \/ Ph(v) = "signalDma" /\ Ph(v)' = "copy"
  BY PlainPhases DEF VirtualInv
<1>5. /\ todo'[v] # <<>> /\ (Holding(v) <=> Ph(v) # "signalDma") /\ (HoldPlan(todo'[v]) <=> Holding(v))
      /\ PacketOf(v) /\ DeviceOf(v) /\ EventOf(v) /\ ReadyOf(v)
  BY <1>4, CallFacts, CallFactsNext DEF InSignal, InWrite
<1>6. my \in [VGPUs -> MyRecord] /\ vgpu \in [VGPUs -> VirtualDevice] /\ command \in [Commands -> CommandObject]
  BY DEF VirtualInv, Basic, Types
<1>7. /\ my'[v].packet = [pk EXCEPT !.signal = Armed(s0)] /\ my'[v].index = my[v].index
      /\ vgpu'[v].engine = vgpu[v].engine /\ Current(v)' = s0
  BY <1>1, <1>2, <1>6 DEF Attaches, Attach, MyRecord, VirtualDevice, Current
<1>8. /\ s0 \in Pool /\ s0 \in Signals /\ Retaining(s0) = {} /\ Armed(s0).signal = s0
  BY <1>1, TakenIsFree, SignalKinds DEF Attaches, Armed
<1>9. /\ my'[v].packet.deps = pk.deps /\ my'[v].packet.signal = Armed(s0) /\ my'[v].packet.cmd = pk.cmd
  <2>1. pk \in Packet BY <1>2, <1>6 DEF MyRecord
  <2> QED BY ONLY <1>7, <2>1 DEF Packet
<1>10. /\ pk.signal = NoTicket /\ (Ph(v) # "signalLast" => pk.cmd = None)
       /\ (Ph(v) = "signalLast" => pk.cmd = my[v].cmd)
  BY ONLY <1>2, <1>4, <1>5 DEF PacketOf
<1>11. /\ Moves(v, p, p) /\ Flight'[p] = my'[v].packet /\ p \in Air /\ p \in Air' /\ Flight[p] = pk
       /\ \A b : Moved(b, p, p) = b
  <2>1. Moves(v, p, p) /\ Flight'[p] = my'[v].packet BY StayMoves, <1>2, <1>3, <1>5, <1>7
  <2> QED BY ONLY <2>1, <1>2 DEF Moves, Moved
<1>12. Keeps(p, p) /\ Lowers(p)' = s0 BY ONLY <1>8, <1>9, <1>10, <1>11 DEF Keeps, Lowers
<1>13. StreamEvents(p, p)
  <2>1. \A c \in Commands : command[c].hwEvent # s0 BY ONLY <1>8 DEF Retaining
  <2>2. ASSUME NEW c \in Commands
        PROVE  /\ command'[c].queue = command[c].queue /\ command'[c].waits = command[c].waits
               /\ \/ command'[c].hwEvent = command[c].hwEvent
                  \/ command[c].hwEvent \notin Pool /\ command'[c].hwEvent = s0 /\ pk.cmd = c
    <3>1. \/ command' = command
          \/ pk.cmd # None /\ command' = [command EXCEPT ![pk.cmd].hwEvent = s0]
      BY ONLY <1>1, <1>2 DEF Attaches, Attach
    <3>2. CASE command' = command BY ONLY <3>2
    <3>3. CASE pk.cmd # None /\ command' = [command EXCEPT ![pk.cmd].hwEvent = s0]
      <4>1. pk.cmd = my[v].cmd /\ Ph(v) = "signalLast" BY ONLY <1>10, <3>3
      <4>2. command[pk.cmd].hwEvent = None /\ None \notin Pool
        <5>1. command[pk.cmd].hwEvent = None BY ONLY <1>5, <4>1 DEF EventOf
        <5> QED BY <5>1, SignalKinds
      <4> QED BY ONLY <1>6, <3>3, <4>2, c \in Commands DEF CommandObject
    <3> QED BY ONLY <3>1, <3>2, <3>3
  <2> QED BY ONLY <1>3, <1>9, <1>11, <1>12, <2>1, <2>2 DEF StreamEvents
<1>14. ASSUME NEW b \in Air, After(v, b) PROVE After(v, Moved(b, p, p))'
  <2>1. CASE Ph(v) # "signalDma"
    <3>1. vgpu[v].engine = "Compute" /\ vgpu'[v].engine = "Compute" /\ Ph(v) \notin InReserve /\ ~Quiet(v)'
      BY ONLY <1>4, <1>5, <1>7, <2>1 DEF DeviceOf, Resolved, InSignal, InReserve, Quiet, InFence
    <3> QED
      BY ONLY <1>11, <1>12, <1>14, <3>1, AfterStays, VirtualAssumptions, VirtualInv, VirtualInv', v \in VGPUs
  <2>2. CASE Ph(v) = "signalDma"
    <3>1. /\ vgpu[v].engine = "Sdma" /\ vgpu'[v].engine # "Compute" /\ p = InHand(v)
      BY ONLY <1>2, <1>5, <1>7, <2>2 DEF DeviceOf, SpotOf
    <3>2. PICK c0 \in Pool : c0 = Current(v) BY PoolParts
    <3>3. PICK a \in Air : Lowers(a) = c0 /\ Leads(b, a) BY ONLY <1>14, <3>1, <3>2 DEF After, SignalAfter
    <3>4. HasSignal(a) /\ Busy(c0) BY <3>3, SignalKinds DEF AirInv, SignalInv, FreshOf, HasSignal, Lowers
    <3>5. AwaitsAt(p, c0) BY ONLY <1>5, <2>2, <3>1, <3>2, <3>4 DEF ReadyOf
    <3>6. Needs(p, a) BY ONLY <3>3, <3>4, <3>5 DEF Needs
    <3>7. Leads(b, p) BY ONLY <1>11, <3>3, <3>6, LeadsOn
    <3>8. PICK b1, p1 : b1 = Moved(b, p, p) /\ p1 = Moved(p, p, p) OBVIOUS
    <3>9. Leads(b1, p1)' BY ONLY <1>11, <1>12, <3>7, <3>8, MovesLeads, b \in Air
    <3>10. Leads(b1, p)' BY ONLY <1>11, <3>8, <3>9
    <3>11. SignalAfter(v, b1)' BY ONLY <1>7, <1>11, <1>12, <3>10 DEF SignalAfter
    <3>12. After(v, b1)' BY ONLY <3>1, <3>11 DEF After
    <3> QED BY ONLY <3>8, <3>12
  <2> QED BY ONLY <2>1, <2>2
<1>15. Ph(v) \notin Unresolved BY ONLY <1>4 DEF Unresolved, InFence, InBarrier
<1>16. StreamStep(v, p, p) BY ONLY <1>5, <1>9, <1>11, <1>14, <1>15 DEF StreamStep
<1>17. Flight'[p].cmd \in {None, Flight[p].cmd, my[v].cmd} BY ONLY <1>9, <1>11
<1> QED
  BY ONLY MovesStream, VirtualAssumptions, VirtualInv, VirtualInv', AirInv, AirInv', StreamInv, v \in VGPUs,
     <1>3, <1>11, <1>12, <1>13, <1>16, <1>17

----------------------------------------
(* The order of a stream: what leaves the air. *)

(* Chains to other places do not go through a place that waits for nobody,
   nor through one that nobody waits for. *)
LEMMA LeadsAvoid ==
  ASSUME NEW p, NEW b \in Air, b # p,
         (\A y \in Air : ~Needs(y, p)) \/ (\A x \in Air : ~Needs(p, x)),
         \A x \in Air : x # p => x \in Air',
         \A x, y \in Air : x # p /\ y # p /\ Needs(y, x) => Needs(y, x)',
         NEW a, a # p
  PROVE  /\ Leads(b, a) => a \in Air /\ a \in Air' /\ Leads(b, a)'
         /\ a \in Air /\ First(b, a) => First(b, a)'
<1>1. ASSUME NEW c, c # p, Leads(b, c) PROVE c \in Air /\ c \in Air' /\ Leads(b, c)'
  <2>1. c \in Air /\ c \in Air' BY ONLY <1>1, LeadsLast, b \in Air, \A x \in Air : x # p => x \in Air'
  <2>2. Leads(b, c)'
    <3> SUFFICES ASSUME NEW C \in SUBSET Air', b \in C, \A x \in C, y \in Air' : Needs(y, x)' => y \in C
                 PROVE  c \in C
      BY DEF Leads
    <3>1. \A x, y \in Air : x # p /\ y # p /\ Needs(y, x) /\ x \in C => y \in C
      BY ONLY \A x \in Air : x # p => x \in Air', \A x, y \in Air : x # p /\ y # p /\ Needs(y, x) => Needs(y, x)',
         \A x \in C, y \in Air' : Needs(y, x)' => y \in C
    <3>2. CASE \A y \in Air : ~Needs(y, p)
      <4>1. PICK B : B = {x \in Air : x \in C \/ x = p} OBVIOUS
      <4>2. B \in SUBSET Air /\ b \in B /\ \A x \in B, y \in Air : Needs(y, x) => y \in B
        BY ONLY <3>1, <3>2, <4>1, b \in Air, b \in C
      <4>3. c \in B BY ONLY <1>1, <4>2 DEF Leads
      <4> QED BY ONLY <1>1, <4>1, <4>3
    <3>3. CASE \A x \in Air : ~Needs(p, x)
      <4>1. PICK B : B = {x \in Air : x \in C /\ x # p} OBVIOUS
      <4>2. B \in SUBSET Air /\ b \in B /\ \A x \in B, y \in Air : Needs(y, x) => y \in B
        BY ONLY <3>1, <3>3, <4>1, b \in Air, b \in C, b # p
      <4>3. c \in B BY ONLY <1>1, <4>2 DEF Leads
      <4> QED BY ONLY <4>1, <4>3
    <3> QED BY ONLY <3>2, <3>3, (\A y \in Air : ~Needs(y, p)) \/ (\A x \in Air : ~Needs(p, x))
  <2> QED BY ONLY <2>1, <2>2
<1>2. ASSUME a \in Air, First(b, a) PROVE First(b, a)'
  <2>1. PICK x \in Air : Leads(b, x) /\ Needs(a, x) BY ONLY <1>2 DEF First
  <2>2. x # p
    BY ONLY <1>2, <2>1, LeadsLast, b \in Air, b # p, (\A y \in Air : ~Needs(y, p)) \/ (\A y \in Air : ~Needs(p, y)) DEF First
  <2>3. x \in Air' /\ Leads(b, x)' BY ONLY <1>1, <2>1, <2>2
  <2>4. Needs(a, x)'
    BY ONLY <1>2, <2>1, <2>2, a # p, \A u, y \in Air : u # p /\ y # p /\ Needs(y, u) => Needs(y, u)'
  <2> QED BY ONLY <2>3, <2>4 DEF First
<1> QED BY ONLY <1>1, <1>2, a # p

(* What the GPU finishes waited for nobody. *)
LEMMA FinishStream ==
  ASSUME VirtualAssumptions, VirtualInv, VirtualInv', AirInv, StreamInv, NEW p, Finishes(p)
  PROVE  StreamInv'
<1>1. /\ \A b : b \in Air' <=> b \in Air /\ b # p
      /\ \A b \in Air' : /\ Flight'[b] = Flight[b] /\ Lowers(b)' = Lowers(b) /\ (HasSignal(b)' <=> HasSignal(b))
                         /\ \A s : AwaitsAt(b, s)' <=> AwaitsAt(b, s)
      /\ \A s : AwaitsAt(p, s) => ~Busy(s)
      /\ done' = IF Flight[p].cmd = None THEN done ELSE done \cup {Flight[p].cmd}
  BY FinishFacts
<1>2. /\ \A v : Ph(v)' = Ph(v) /\ Current(v)' = Current(v) /\ Hq(v)' = Hq(v) /\ (Quiet(v)' <=> Quiet(v))
      /\ \A v, j : Ahead(v, j)' <=> Ahead(v, j)
  BY ONLY Finishes(p), DevicesStay DEF Finishes
<1>3. vgpu' = vgpu /\ my' = my /\ todo' = todo /\ created' = created /\ command' = command
  BY ONLY Finishes(p) DEF Finishes
<1>4. /\ Placed /\ Heard /\ Past /\ InOrder /\ \A w \in VGPUs : OldOf(w) /\ WaitsOf(w)
      /\ None \notin Commands /\ \A a \in Air : HasSignal(a) => Busy(Lowers(a))
      /\ created \in Nat /\ 1..created \subseteq Commands /\ \A c \in Commands : command[c].waits \subseteq Commands
      /\ \A w \in VGPUs : todo[w] # <<>> => my[w].cmd \in Commands
      /\ \A a \in Air : Flight[a].cmd # None => Flight[a].cmd \in 1..created
  <2>1. Types /\ InCall /\ CmdInv BY DEF VirtualInv, Basic, AirInv
  <2>2. created \in 0..setup.commands /\ setup.commands \in 0..MaxCommands /\ MaxCommands \in Nat
    BY <2>1, SetupFacts DEF Types
  <2>3. created \in Nat /\ 1..created \subseteq Commands BY ONLY <2>2 DEF Commands
  <2>4. \A c \in Commands : command[c].waits \subseteq Commands BY ONLY <2>1 DEF Types, CommandObject
  <2>5. \A w \in VGPUs : todo[w] # <<>> => my[w].cmd \in Commands BY ONLY <2>1, <2>3 DEF InCall
  <2>6. None \notin Commands BY Kinds
  <2>7. \A a \in Air : HasSignal(a) => Busy(Lowers(a)) BY ONLY AirInv DEF AirInv, SignalInv, FreshOf
  <2>8. \A a \in Air : Flight[a].cmd # None => Flight[a].cmd \in 1..created BY ONLY <2>1 DEF CmdInv
  <2> QED BY ONLY <2>3, <2>4, <2>5, <2>6, <2>7, <2>8, StreamInv DEF StreamInv
<1>5. \A x \in Air : ~Needs(p, x)
  <2> SUFFICES ASSUME NEW x \in Air, Needs(p, x) PROVE FALSE OBVIOUS
  <2>1. ~\E h \in HwQueues, i, j \in Int : p = InRing(h, i) /\ x = InRing(h, j) /\ j < i
    BY ONLY Finishes(p), x \in Air DEF Finishes
  <2>2. HasSignal(x) /\ AwaitsAt(p, Lowers(x)) BY ONLY <2>1, Needs(p, x) DEF Needs
  <2> QED BY ONLY <1>1, <1>4, <2>2
<1>6. \A x, y \in Air : x # p /\ y # p /\ Needs(y, x) => Needs(y, x)'
  <2> SUFFICES ASSUME NEW x \in Air, NEW y \in Air, x # p, y # p, Needs(y, x) PROVE Needs(y, x)' OBVIOUS
  <2>1. PICK s : s = Lowers(x) OBVIOUS
  <2>2. CASE HasSignal(x) /\ AwaitsAt(y, s)
    <3>1. HasSignal(x)' /\ AwaitsAt(y, s)' /\ Lowers(x)' = s BY ONLY <1>1, <2>1, <2>2, x # p, y # p
    <3> QED BY ONLY <3>1 DEF Needs
  <2>3. CASE \E h \in HwQueues, i, j \in Int : y = InRing(h, i) /\ x = InRing(h, j) /\ j < i
    BY ONLY <2>3 DEF Needs
  <2> QED BY ONLY <2>1, <2>2, <2>3, Needs(y, x) DEF Needs
<1>7. ASSUME NEW b \in Air, b # p
      PROVE  /\ \A a : Leads(b, a) => a # p /\ a \in Air /\ a \in Air' /\ Leads(b, a)'
             /\ \A a \in Air : First(b, a) => a # p /\ First(b, a)'
  <2>1. \A a : Leads(b, a) => a # p BY ONLY <1>5, <1>7, LeadsLast DEF First
  <2>2. \A a : First(b, a) => a # p BY ONLY <1>5 DEF First
  <2>3. \A a : a # p => /\ Leads(b, a) => a \in Air /\ a \in Air' /\ Leads(b, a)'
                        /\ a \in Air /\ First(b, a) => First(b, a)'
    BY ONLY <1>1, <1>5, <1>6, <1>7, LeadsAvoid
  <2> QED BY ONLY <2>1, <2>2, <2>3
<1>8. ASSUME NEW v \in VGPUs, NEW b \in Air, b # p, After(v, b) PROVE After(v, b)'
  <2>1. RingAfter(v, b) => RingAfter(v, b)'
    <3>1. ASSUME Ph(v) \in InReserve, First(b, InHand(v)) PROVE First(b, InHand(v))'
      <4>1. InHand(v) \in Air
        <5>1. ~Holding(v)
          BY <3>1, PhaseOfPlan DEF Ph, Holding, VirtualInv, Basic, Plans, InReserve, InSignal, InWrite
        <5> QED BY <5>1, AirIs DEF AirFacts
      <4>2. PICK i : i = InHand(v) /\ i = InHand(v)' BY DEF InHand
      <4>3. First(b, i)' BY ONLY <1>7, <1>8, <3>1, <4>1, <4>2
      <4> QED BY ONLY <4>2, <4>3
    <3>2. PICK H : H = Hq(v) OBVIOUS
    <3>3. H = Hq(v)' BY ONLY <1>2, <3>2
    <3>4. ASSUME NEW k \in Int, Ahead(v, k), Leads(b, InRing(H, k))
          PROVE  InRing(H, k) \in Air' /\ Ahead(v, k)' /\ Leads(b, InRing(H, k))'
      <4>1. PICK x : x = InRing(H, k) /\ x = InRing(H, k)' BY DEF InRing
      <4>2. x \in Air' /\ Leads(b, x)' BY ONLY <1>7, <1>8, <3>4, <4>1
      <4> QED BY ONLY <1>2, <3>4, <4>1, <4>2
    <3> QED BY ONLY <1>2, <3>1, <3>2, <3>3, <3>4 DEF RingAfter
  <2>2. SignalAfter(v, b) => SignalAfter(v, b)'
    <3> SUFFICES ASSUME NEW a \in Air, Lowers(a) = Current(v), Leads(b, a) PROVE SignalAfter(v, b)'
      BY DEF SignalAfter
    <3>1. a \in Air' /\ Leads(b, a)' BY ONLY <1>7, <1>8, Leads(b, a)
    <3>2. Lowers(a)' = Current(v)' BY ONLY <1>1, <1>2, <3>1, Lowers(a) = Current(v)
    <3> QED BY ONLY <3>1, <3>2 DEF SignalAfter
  <2> QED BY ONLY <1>2, <1>3, <1>8, <2>1, <2>2 DEF After
<1>9. \A b \in Air : Flight[b].cmd # None /\ Flight[b].cmd \notin done' => b # p BY ONLY <1>1
<1>10. Placed' BY ONLY <1>1, <1>3, <1>4, <1>9 DEF Placed, Calling
<1>11. Heard'
  <2> SUFFICES ASSUME NEW e \in Commands, NEW s \in Pool, s = command'[e].hwEvent
               PROVE  /\ e \notin done' => \E a \in Air' : Lowers(a)' = s /\ Flight'[a].cmd = e
                      /\ \A a \in Air' : Lowers(a)' = s => Flight'[a].cmd = e
    BY DEF Heard
  <2> QED BY ONLY <1>1, <1>3, <1>4, <1>9, s \in Pool, s = command'[e].hwEvent, e \in Commands DEF Heard
<1>12. Past' BY ONLY <1>3, <1>4 DEF Past
<1>13. InOrder'
  <2> SUFFICES ASSUME NEW a \in Air', NEW c, c = Flight'[a].cmd, c # None, \A w : a # InHand(w),
                      NEW d, d \in Before(c)', d \notin done'
               PROVE  \E b \in Air' : Flight'[b].cmd = d /\ First(b, a)'
    BY DEF InOrder
  <2>1. d \in Before(Flight[a].cmd) \ done /\ Flight[a].cmd # None /\ a \in Air /\ c = Flight[a].cmd
    BY ONLY <1>1, <1>3, d \in Before(c)', d \notin done', c = Flight'[a].cmd, c # None, a \in Air' DEF Before
  <2>2. PICK b \in Air : Flight[b].cmd = d /\ First(b, a)
    BY ONLY <1>4, <2>1, \A w : a # InHand(w) DEF InOrder
  <2>3. d # None BY ONLY <1>4, <2>1 DEF Before
  <2>4. b # p BY ONLY <1>9, <2>2, <2>3, d \notin done'
  <2>5. First(b, a)' BY ONLY <1>7, <2>1, <2>2, <2>4
  <2> QED BY ONLY <1>1, <2>2, <2>4, <2>5
<1>14. ASSUME NEW v \in VGPUs PROVE OldOf(v)'
  <2> SUFFICES ASSUME NEW a \in Air', NEW c, c = Flight'[a].cmd, c # None, command'[c].queue = v, ~Calling(v, c)'
               PROVE  After(v, a)'
    BY DEF OldOf
  <2>1. a \in Air /\ a # p /\ Flight'[a] = Flight[a] BY ONLY <1>1
  <2>2. After(v, a)
    BY ONLY <1>3, <1>4, <2>1, c = Flight'[a].cmd, c # None, command'[c].queue = v, ~Calling(v, c)', v \in VGPUs
       DEF OldOf, Calling
  <2> QED BY ONLY <1>8, <2>1, <2>2
<1>15. ASSUME NEW v \in VGPUs PROVE WaitsOf(v)'
  <2> SUFFICES ASSUME todo'[v] # <<>>, NEW e \in command'[my'[v].cmd].waits \ done'
               PROVE  \/ Ph(v)' \in Unresolved /\ command'[e].hwEvent \in vgpu'[v].external
                      \/ \E b \in Air' : Flight'[b].cmd = e /\ After(v, b)'
    BY DEF WaitsOf
  <2>1. e \in command[my[v].cmd].waits \ done /\ e # None
    BY ONLY <1>1, <1>3, <1>4, todo'[v] # <<>>, e \in command'[my'[v].cmd].waits \ done'
  <2>2. CASE \E b \in Air : Flight[b].cmd = e /\ After(v, b)
    <3>1. PICK b \in Air : Flight[b].cmd = e /\ After(v, b) BY ONLY <2>2
    <3>2. b # p BY ONLY <1>9, <2>1, <3>1, e \in command'[my'[v].cmd].waits \ done'
    <3> QED BY ONLY <1>1, <1>8, <3>1, <3>2
  <2>3. CASE Ph(v) \in Unresolved /\ command[e].hwEvent \in vgpu[v].external BY ONLY <1>2, <1>3, <2>3
  <2> QED BY ONLY <1>3, <1>4, <2>1, <2>2, <2>3, todo'[v] # <<>> DEF WaitsOf
<1> QED BY ONLY <1>10, <1>11, <1>12, <1>13, <1>14, <1>15 DEF StreamInv

(* Nobody waits for the signal of a copy that is in hand. *)
LEMMA CopyUnawaited ==
  ASSUME VirtualAssumptions, VirtualInv, AirInv, StreamInv, NEW v \in VGPUs, Ph(v) = "copy"
  PROVE  /\ \A a \in Air : ~AwaitsAt(a, Current(v))
         /\ \A e \in Commands : command[e].hwEvent # Current(v)
         /\ \A w \in VGPUs : w # v => Current(w) # Current(v)
         /\ InHand(v) \in Air /\ Lowers(InHand(v)) = Current(v) /\ Flight[InHand(v)].cmd = None
         /\ \A a \in Air : Lowers(a) = Current(v) => a = InHand(v)
<1>1. PICK s0 \in Pool : s0 = Current(v) BY PoolParts
<1>2. /\ AirFacts /\ ListInv /\ WaitInv /\ SignalInv /\ Heard
      /\ PacketOf(v) /\ DeviceOf(v)
  BY AirIs DEF AirInv, CallInv, StreamInv
<1>3. ~Holding(v) /\ todo[v] # <<>> BY CallFacts, Ph(v) = "copy" DEF InSignal, InWrite, Holding
<1>4. /\ None \notin Commands /\ \A c \in Commands : command[c].waits \subseteq Commands
      /\ \A w \in VGPUs : Ph(w) \in InReserve => my[w].cmd \in Commands
  <2>1. Types /\ InCall /\ Plans BY DEF VirtualInv, Basic
  <2>2. created \in 0..setup.commands /\ setup.commands \in 0..MaxCommands /\ MaxCommands \in Nat
    BY <2>1, SetupFacts DEF Types
  <2>3. 1..created \subseteq Commands BY ONLY <2>2 DEF Commands
  <2>4. \A w \in VGPUs : Ph(w) \in InReserve => todo[w] # <<>>
    BY <2>1, PhaseOfPlan DEF Ph, Plans, InReserve
  <2>5. None \notin Commands BY Kinds
  <2> QED BY ONLY <2>1, <2>3, <2>4, <2>5 DEF InCall, Types, CommandObject
<1>5. InHand(v) \in Air /\ Lowers(InHand(v)) = s0 /\ Flight[InHand(v)].cmd = None
  BY ONLY <1>1, <1>2, <1>3, v \in VGPUs, Ph(v) = "copy" DEF AirFacts, PacketOf, Lowers
<1>6. \A e \in Commands : command[e].hwEvent # s0 BY ONLY <1>1, <1>2, <1>4, <1>5 DEF Heard
<1>7. \A w \in VGPUs : w # v => s0 \notin Own(w)
  <2>1. s0 \in Own(v) BY <1>1, PoolParts
  <2> QED BY ONLY <1>2, <2>1, v \in VGPUs DEF ListInv
<1>8. \A w \in VGPUs : Current(w) = s0 => w = v
  <2>1. \A w \in VGPUs : Current(w) \in Own(w) BY PoolParts
  <2> QED BY ONLY <1>7, <2>1
<1>9. \A w \in VGPUs : \A s : ~Follow(w, s0, s)
  <2> SUFFICES ASSUME NEW w \in VGPUs, NEW s, Follow(w, s0, s) PROVE FALSE OBVIOUS
  <2>1. PICK l, c : l = vgpu[w].list /\ c = vgpu[w].current OBVIOUS
  <2>2. l \in Seq(Pool) /\ c \in 1..Len(l) /\ Len(l) \in Nat \ {0, 1, 2} BY <2>1, PoolParts
  <2>3. Distinct(l) BY ONLY <1>2, <2>1, w \in VGPUs DEF ListInv
  <2>4. s0 \in Range(l) /\ s0 # l[c] BY ONLY <2>1, <2>2, <2>3, OrderFacts, Follow(w, s0, s) DEF Follow
  <2>5. w = v BY ONLY <1>7, <2>1, <2>4, w \in VGPUs DEF Own
  <2> QED BY ONLY <1>1, <2>1, <2>4, <2>5 DEF Current
<1>10. ASSUME NEW a \in Air, AwaitsAt(a, s0) PROVE FALSE
  <2>1. PICK t \in Flight[a].deps : t.signal = s0 BY ONLY <1>10 DEF AwaitsAt
  <2>2. CASE \E h \in HwQueues, i \in Int : a = InRing(h, i)
    <3>1. PICK h \in HwQueues, i \in Int : a = InRing(h, i) BY ONLY <2>2
    <3>2. (\E w \in VGPUs : OwnWait(w, h, i, s0)) \/ ExtWait(h, i, s0)
      BY ONLY <1>2, <2>1, <3>1, a \in Air DEF WaitInv, RingWaits
    <3>3. ~ExtWait(h, i, s0) BY ONLY <1>4, <1>6 DEF ExtWait
    <3>4. ASSUME NEW w \in VGPUs, OwnWait(w, h, i, s0) PROVE FALSE
      <4>1. w = v /\ OpenFor(v, i) BY ONLY <1>8, <1>9, <3>4 DEF OwnWait
      <4> QED
        BY ONLY <1>2, <4>1, Ph(v) = "copy" DEF OpenFor, DeviceOf, Computes, InBarrier, InReserve, InSignal, InWrite
    <3> QED BY ONLY <3>2, <3>3, <3>4
  <2>3. CASE \E x \in dma : a = InDma(x)
    <3>1. PICK x \in dma : a = InDma(x) BY ONLY <2>3
    <3>2. Flight[a] = x BY ONLY <1>2, <3>1 DEF AirFacts
    <3> QED BY ONLY <1>2, <1>9, <2>1, <3>2 DEF WaitInv, DmaWaits
  <2>4. CASE \E w \in VGPUs : a = InHand(w) /\ ~Holding(w)
    <3>1. PICK w \in VGPUs : a = InHand(w) /\ ~Holding(w) BY ONLY <2>4
    <3>2. t \in my[w].packet.deps BY ONLY <1>2, <2>1, <3>1 DEF AirFacts
    <3>3. Ph(w) \in InReserve \/ Ph(w) = "signalDma" => w # v BY ONLY Ph(v) = "copy" DEF InReserve
    <3> QED BY ONLY <1>2, <1>4, <1>6, <1>8, <1>9, <2>1, <3>1, <3>2, <3>3 DEF WaitInv, HandOf
  <2> QED BY ONLY <1>2, <2>2, <2>3, <2>4, a \in Air DEF AirFacts
<1>11. \A a \in Air : Lowers(a) = s0 => a = InHand(v)
  <2>1. s0 \in Signals BY <1>1, SignalKinds
  <2> QED BY ONLY <1>2, <1>5, <2>1, LowersIs, VirtualAssumptions
<1> QED BY ONLY <1>1, <1>5, <1>6, <1>8, <1>10, <1>11

(* A copy that fails: its signal goes, and what came before it came before
   the current signal that takes its place. *)
LEMMA CopyFailsStream ==
  ASSUME VirtualAssumptions, VirtualInv, VirtualInv', AirInv, AirInv', StreamInv, NEW v \in VGPUs, CopyFails(v)
  PROVE  StreamInv'
<1>1. PICK p, l, c0, k : p = InHand(v) /\ l = vgpu[v].list /\ c0 = vgpu[v].current /\ k = IF c0 = 1 THEN Len(l) ELSE c0 - 1
  OBVIOUS
<1>2. PICK s0 : s0 = Current(v) /\ s0 = l[c0] BY <1>1 DEF Current
<1>3. l \in Seq(Pool) /\ Len(l) \in Nat \ {0, 1, 2} /\ c0 \in 1..Len(l) /\ s0 \in Pool /\ Distinct(l)
  <2>1. /\ vgpu[v].list \in Seq(Pool) /\ vgpu[v].current \in 1..Len(vgpu[v].list) /\ Len(vgpu[v].list) \in Nat \ {0, 1, 2}
        /\ Current(v) \in Pool
    BY PoolParts
  <2>2. Distinct(vgpu[v].list) BY DEF AirInv, ListInv
  <2> QED BY ONLY <1>1, <1>2, <2>1, <2>2
<1>4. /\ Frame(v) /\ todo[v] # <<>> /\ my'[v].cmd = my[v].cmd
      /\ UNCHANGED <<setup, created, command, ring, dma, done>>
  <2>1. ~(GrowList(v) \/ ReuseSignal(v)) BY DEF CopyFails, GrowList, ReuseSignal, Do
  <2> QED BY <2>1, HostFrame DEF Host, CopyFails
<1>5. /\ my'[v].packet = Nothing /\ vgpu'[v].list = l /\ vgpu'[v].current = k /\ vgpu'[v].engine = vgpu[v].engine
      /\ vgpu'[v].external = vgpu[v].external
  <2>1. my \in [VGPUs -> MyRecord] /\ vgpu \in [VGPUs -> VirtualDevice] BY DEF VirtualInv, Basic, Types
  <2> QED BY <2>1, <1>1, <1>2 DEF CopyFails, MyRecord, VirtualDevice
<1>6. Ph(v) = "copy" /\ Ph(v)' = "alloc" /\ vgpu[v].engine = "Sdma"
  <2>1. Ph(v) = "copy" /\ Ph(v)' = "alloc" BY FailPhases DEF VirtualInv
  <2> QED BY ONLY <2>1, AirInv, v \in VGPUs DEF AirInv, CallInv, DeviceOf
<1>7. /\ todo'[v] # <<>> /\ ~Holding(v) /\ ~HoldPlan(todo'[v]) /\ ~Holding(v)' /\ HandOf(v)
  <2>1. todo'[v] # <<>> /\ ~Holding(v) /\ ~HoldPlan(todo'[v]) /\ ~Holding(v)'
    BY <1>6, CallFacts, CallFactsNext DEF InSignal, InWrite, Holding
  <2> QED BY ONLY <2>1, AirInv, v \in VGPUs DEF AirInv, WaitInv
<1>8. /\ Moves(v, p, p) /\ Flight'[p] = Nothing /\ p \in Air /\ p \in Air' /\ Flight[p] = my[v].packet
  <2>1. SpotOf(v) = p BY ONLY <1>1, <1>7 DEF SpotOf
  <2>2. Holding(v) => my'[v].index = my[v].index BY ONLY <1>7
  <2>3. Moves(v, p, p) /\ Flight'[p] = my'[v].packet BY StayMoves, <1>4, <1>7, <2>1, <2>2
  <2> QED BY ONLY <2>3, <1>5 DEF Moves
<1>9. /\ \A a \in Air : ~AwaitsAt(a, s0)
      /\ \A e \in Commands : command[e].hwEvent # s0
      /\ \A w \in VGPUs : w # v => Current(w) # s0
      /\ Lowers(p) = s0 /\ Flight[p].cmd = None
      /\ \A a \in Air : Lowers(a) = s0 => a = p
  BY ONLY <1>1, <1>2, <1>6, CopyUnawaited, VirtualAssumptions, VirtualInv, AirInv, StreamInv, v \in VGPUs
<1>10. /\ Nothing.cmd = None /\ Nothing.signal = NoTicket /\ NoTicket.signal \notin Pool
       /\ Lowers(p)' \notin Pool /\ Flight'[p].cmd = None
  <2>1. Nothing.cmd = None /\ Nothing.signal = NoTicket /\ NoTicket.signal \notin Pool
    BY NothingIs, SignalKinds
  <2> QED BY ONLY <1>8, <2>1 DEF Lowers
<1>11. /\ \A a \in Air : a # p => a \in Air' /\ Flight'[a] = Flight[a] /\ Lowers(a)' = Lowers(a)
                                  /\ (HasSignal(a)' <=> HasSignal(a)) /\ \A s : AwaitsAt(a, s)' <=> AwaitsAt(a, s)
       /\ \A a \in Air' : a = p \/ (a \in Air /\ a # p)
  <2>1. /\ \A a \in Air : a # p => a \in Air' /\ Flight'[a] = Flight[a]
        /\ \A a \in Air' : a = p \/ (a \in Air /\ a # p)
    BY ONLY <1>1, <1>8 DEF Moves
  <2> QED BY ONLY <2>1 DEF Lowers, HasSignal, AwaitsAt
<1>12. /\ \A w \in VGPUs : Hq(w)' = Hq(w)
       /\ \A w \in VGPUs : w # v => /\ Current(w)' = Current(w) /\ vgpu'[w] = vgpu[w] /\ todo'[w] = todo[w] /\ my'[w] = my[w]
                                    /\ Ph(w)' = Ph(w) /\ (Quiet(w)' <=> Quiet(w)) /\ (Holding(w)' <=> Holding(w))
                                    /\ \A j : Ahead(w, j)' <=> Ahead(w, j)
       /\ \A w \in VGPUs : \A d : Calling(w, d)' <=> Calling(w, d)
  <2>1. \A w \in VGPUs : w # v => todo'[w] = todo[w] /\ my'[w] = my[w] /\ vgpu'[w] = vgpu[w]
    BY ONLY <1>4 DEF Frame
  <2>2. \A w \in VGPUs : w # v => (Holding(w)' <=> Holding(w)) BY ONLY <2>1 DEF Holding
  <2>3. \A w \in VGPUs : \A d : Calling(w, d)' <=> Calling(w, d) BY ONLY <1>4, <1>7, <2>1 DEF Calling
  <2> QED BY ONLY <1>4, <2>1, <2>2, <2>3 DEF Hq, Current, Ph, Quiet, Ahead
<1>13. /\ Placed /\ Heard /\ Past /\ InOrder /\ \A w \in VGPUs : OldOf(w) /\ WaitsOf(w)
       /\ None \notin Commands /\ created \in Nat /\ 1..created \subseteq Commands
       /\ \A d \in Commands : command[d].waits \subseteq Commands
       /\ \A w \in VGPUs : todo[w] # <<>> => my[w].cmd \in Commands
       /\ \A a \in Air : Flight[a].cmd # None => Flight[a].cmd \in 1..created
  <2>1. Types /\ InCall /\ CmdInv BY DEF VirtualInv, Basic, AirInv
  <2>2. created \in 0..setup.commands /\ setup.commands \in 0..MaxCommands /\ MaxCommands \in Nat
    BY <2>1, SetupFacts DEF Types
  <2>3. created \in Nat /\ 1..created \subseteq Commands BY ONLY <2>2 DEF Commands
  <2>4. None \notin Commands BY Kinds
  <2> QED BY ONLY <2>1, <2>3, <2>4, StreamInv DEF StreamInv, InCall, Types, CommandObject, CmdInv
<1>14. (\A y \in Air : ~Needs(y, p))
  <2>1. \A h, i : p # InRing(h, i) BY ONLY <1>1, PlacesApart
  <2> QED BY ONLY <1>9, <2>1 DEF Needs
<1>15. \A x, y \in Air : x # p /\ y # p /\ Needs(y, x) => Needs(y, x)'
  <2> SUFFICES ASSUME NEW x \in Air, NEW y \in Air, x # p, y # p, Needs(y, x) PROVE Needs(y, x)' OBVIOUS
  <2>1. PICK s : s = Lowers(x) OBVIOUS
  <2>2. CASE HasSignal(x) /\ AwaitsAt(y, s)
    <3>1. HasSignal(x)' /\ AwaitsAt(y, s)' /\ Lowers(x)' = s BY ONLY <1>11, <2>1, <2>2, x # p, y # p
    <3> QED BY ONLY <3>1 DEF Needs
  <2>3. CASE \E h \in HwQueues, i, j \in Int : y = InRing(h, i) /\ x = InRing(h, j) /\ j < i
    BY ONLY <2>3 DEF Needs
  <2> QED BY ONLY <2>1, <2>2, <2>3, Needs(y, x) DEF Needs
<1>16. ASSUME NEW b \in Air, b # p, NEW a, a # p
       PROVE  /\ Leads(b, a) => a \in Air /\ a \in Air' /\ Leads(b, a)'
              /\ a \in Air /\ First(b, a) => First(b, a)'
  BY ONLY <1>11, <1>14, <1>15, <1>16, LeadsAvoid
<1>17. ASSUME NEW w \in VGPUs, w # v, NEW b \in Air, b # p, After(w, b) PROVE After(w, b)'
  <2>1. RingAfter(w, b) => RingAfter(w, b)'
    <3>1. ASSUME Ph(w) \in InReserve, First(b, InHand(w)) PROVE First(b, InHand(w))'
      <4>1. InHand(w) \in Air
        <5>1. ~Holding(w)
          BY <3>1, PhaseOfPlan DEF Ph, Holding, VirtualInv, Basic, Plans, InReserve, InSignal, InWrite
        <5> QED BY <5>1, AirIs DEF AirFacts
      <4>2. PICK i : i = InHand(w) /\ i = InHand(w)' BY DEF InHand
      <4>3. i # p BY ONLY <1>1, <1>17, <4>2, PlacesApart
      <4>4. First(b, i)' BY ONLY <1>16, <1>17, <3>1, <4>1, <4>2, <4>3
      <4> QED BY ONLY <4>2, <4>4
    <3>2. PICK H : H = Hq(w) OBVIOUS
    <3>3. H = Hq(w)' BY ONLY <1>12, <3>2, w \in VGPUs
    <3>4. ASSUME NEW j \in Int, Ahead(w, j), Leads(b, InRing(H, j))
          PROVE  InRing(H, j) \in Air' /\ Ahead(w, j)' /\ Leads(b, InRing(H, j))'
      <4>1. PICK x : x = InRing(H, j) /\ x = InRing(H, j)' BY DEF InRing
      <4>2. x # p BY ONLY <1>1, <4>1, PlacesApart
      <4>3. x \in Air' /\ Leads(b, x)' BY ONLY <1>16, <1>17, <3>4, <4>1, <4>2
      <4> QED BY ONLY <1>12, <1>17, <3>4, <4>1, <4>3
    <3> QED BY ONLY <1>12, <1>17, <3>1, <3>2, <3>3, <3>4 DEF RingAfter
  <2>2. SignalAfter(w, b) => SignalAfter(w, b)'
    <3> SUFFICES ASSUME NEW a \in Air, Lowers(a) = Current(w), Leads(b, a) PROVE SignalAfter(w, b)'
      BY DEF SignalAfter
    <3>0. a # p BY ONLY <1>9, <1>17, Lowers(a) = Current(w)
    <3>1. a \in Air' /\ Leads(b, a)' BY ONLY <1>16, <1>17, <3>0, Leads(b, a)
    <3>2. Lowers(a)' = Current(w)' BY ONLY <1>11, <1>12, <1>17, <3>0, Lowers(a) = Current(w), a \in Air
    <3> QED BY ONLY <3>1, <3>2 DEF SignalAfter
  <2> QED BY ONLY <1>12, <1>17, <2>1, <2>2 DEF After
<1>18. ASSUME NEW b \in Air, b # p, After(v, b) PROVE After(v, b)'
  <2>1. PICK a \in Air : Lowers(a) = s0 /\ Leads(b, a) BY ONLY <1>2, <1>6, <1>18 DEF After, SignalAfter
  <2>2. a = p /\ First(b, p) BY ONLY <1>9, <1>18, <2>1, LeadsLast
  <2>3. PICK x \in Air : Leads(b, x) /\ Needs(p, x) BY ONLY <2>2 DEF First
  <2>4. x # p BY ONLY <1>14, <2>3
  <2>5. AwaitsAt(p, Lowers(x))
    <3>1. \A h, i : p # InRing(h, i) BY ONLY <1>1, PlacesApart
    <3> QED BY ONLY <2>3, <3>1 DEF Needs
  <2>6. PICK r : r = Lowers(x) OBVIOUS
  <2>7. Follow(v, r, s0)
    <3>1. PICK t \in my[v].packet.deps : t.signal = r BY ONLY <1>8, <2>5, <2>6 DEF AwaitsAt
    <3> QED BY ONLY <1>2, <1>6, <1>7, <3>1 DEF HandOf, InReserve
  <2>8. r = Current(v)'
    <3>3. PICK i \in 1..Len(l) : i # c0 /\ l[i] = r /\ l[NextId(i, l)] = s0
      BY ONLY <1>1, <2>7 DEF Follow, Follows
    <3>4. NextId(i, l) = IF i = Len(l) THEN 1 ELSE i + 1 BY ONLY <1>3, NextIdIs
    <3>5. NextId(i, l) \in 1..Len(l) BY ONLY <1>3, NextIdIs
    <3>6. NextId(i, l) = c0 BY ONLY <1>2, <1>3, <3>3, <3>5 DEF Distinct
    <3>7. i = k BY ONLY <1>1, <1>3, <3>4, <3>6
    <3> QED BY ONLY <1>5, <3>3, <3>7 DEF Current
  <2>9. x \in Air' /\ Leads(b, x)' /\ Lowers(x)' = r BY ONLY <1>11, <1>16, <1>18, <2>3, <2>4, <2>6
  <2>10. SignalAfter(v, b)' BY ONLY <2>8, <2>9 DEF SignalAfter
  <2>11. vgpu'[v].engine # "Compute" BY ONLY <1>5, <1>6
  <2> QED BY ONLY <2>10, <2>11 DEF After
<1>19. ASSUME NEW w \in VGPUs, NEW b \in Air, b # p, After(w, b) PROVE b \in Air' /\ After(w, b)'
  BY ONLY <1>11, <1>17, <1>18, <1>19
<1>20. \A a \in Air : Flight[a].cmd # None => a # p BY ONLY <1>9
<1>21. Placed' BY ONLY <1>4, <1>11, <1>12, <1>13, <1>20 DEF Placed
<1>22. Heard'
  <2> SUFFICES ASSUME NEW e \in Commands, NEW s \in Pool, s = command'[e].hwEvent
               PROVE  /\ e \notin done' => \E a \in Air' : Lowers(a)' = s /\ Flight'[a].cmd = e
                      /\ \A a \in Air' : Lowers(a)' = s => Flight'[a].cmd = e
    BY DEF Heard
  <2>1. e # None /\ s = command[e].hwEvent /\ done' = done BY ONLY <1>4, <1>13, s = command'[e].hwEvent
  <2>2. e \notin done => \E a \in Air : a # p /\ Lowers(a) = s /\ Flight[a].cmd = e
    BY ONLY <1>13, <1>20, <2>1, s \in Pool DEF Heard
  <2>3. \A a \in Air : Lowers(a) = s => Flight[a].cmd = e BY ONLY <1>13, <2>1, s \in Pool DEF Heard
  <2>4. \A a \in Air' : Lowers(a)' = s => a \in Air /\ a # p BY ONLY <1>10, <1>11, s \in Pool
  <2> QED BY ONLY <1>11, <2>1, <2>2, <2>3, <2>4
<1>23. Past' BY ONLY <1>4, <1>13 DEF Past
<1>24. InOrder'
  <2> SUFFICES ASSUME NEW a \in Air', NEW c, c = Flight'[a].cmd, c # None, \A w : a # InHand(w),
                      NEW d, d \in Before(c)', d \notin done'
               PROVE  \E b \in Air' : Flight'[b].cmd = d /\ First(b, a)'
    BY DEF InOrder
  <2>1. a \in Air /\ a # p /\ c = Flight[a].cmd BY ONLY <1>10, <1>11, c = Flight'[a].cmd, c # None
  <2>2. d \in Before(c) /\ d \notin done BY ONLY <1>4, d \in Before(c)', d \notin done' DEF Before
  <2>3. PICK b \in Air : Flight[b].cmd = d /\ First(b, a)
    BY ONLY <1>13, <2>1, <2>2, c # None, \A w : a # InHand(w) DEF InOrder
  <2>4. b # p
    <3>1. d # None
      <4>1. c \in 1..created /\ c \in Commands BY ONLY <1>13, <2>1, c # None
      <4>2. 1..c - 1 \subseteq 1..created BY ONLY <1>13, <4>1
      <4> QED BY ONLY <1>13, <2>2, <4>1, <4>2 DEF Before
    <3> QED BY ONLY <1>20, <2>3, <3>1
  <2>5. First(b, a)' BY ONLY <1>16, <2>1, <2>3, <2>4
  <2> QED BY ONLY <1>11, <2>3, <2>4, <2>5
<1>25. ASSUME NEW w \in VGPUs PROVE OldOf(w)'
  <2> SUFFICES ASSUME NEW a \in Air', NEW c, c = Flight'[a].cmd, c # None, command'[c].queue = w, ~Calling(w, c)'
               PROVE  After(w, a)'
    BY DEF OldOf
  <2>1. a \in Air /\ a # p /\ c = Flight[a].cmd BY ONLY <1>10, <1>11, c = Flight'[a].cmd, c # None
  <2>2. After(w, a)
    BY ONLY <1>4, <1>12, <1>13, <2>1, c # None, command'[c].queue = w, ~Calling(w, c)', w \in VGPUs DEF OldOf
  <2> QED BY ONLY <1>19, <2>1, <2>2
<1>26. ASSUME NEW w \in VGPUs PROVE WaitsOf(w)'
  <2> SUFFICES ASSUME todo'[w] # <<>>, NEW e \in command'[my'[w].cmd].waits \ done'
               PROVE  \/ Ph(w)' \in Unresolved /\ command'[e].hwEvent \in vgpu'[w].external
                      \/ \E b \in Air' : Flight'[b].cmd = e /\ After(w, b)'
    BY DEF WaitsOf
  <2>1. todo[w] # <<>> /\ my'[w].cmd = my[w].cmd /\ e \in command[my[w].cmd].waits \ done
    BY ONLY <1>4, <1>12, todo'[w] # <<>>, e \in command'[my'[w].cmd].waits \ done', w \in VGPUs
  <2>2. e # None BY ONLY <1>13, <2>1, w \in VGPUs
  <2>3. CASE \E b \in Air : Flight[b].cmd = e /\ After(w, b)
    <3>1. PICK b \in Air : Flight[b].cmd = e /\ After(w, b) BY ONLY <2>3
    <3>2. b # p BY ONLY <1>20, <2>2, <3>1
    <3> QED BY ONLY <1>11, <1>19, <3>1, <3>2, w \in VGPUs
  <2>4. CASE Ph(w) \in Unresolved /\ command[e].hwEvent \in vgpu[w].external
    <3>1. w # v BY ONLY <1>6, <2>4 DEF Unresolved, InFence, InBarrier
    <3> QED BY ONLY <1>4, <1>12, <2>4, <3>1, w \in VGPUs
  <2> QED BY ONLY <1>13, <2>1, <2>3, <2>4, w \in VGPUs DEF WaitsOf
<1> QED BY ONLY <1>21, <1>22, <1>23, <1>24, <1>25, <1>26 DEF StreamInv

----------------------------------------
(* The order of a stream: steps that leave alone what is in the air. *)

(* The chains stay, *)
LEMMA StillLeads ==
  ASSUME Still, NEW b \in Air
  PROVE  /\ b \in Air' /\ \A a : Leads(b, a) => a \in Air /\ a \in Air' /\ Leads(b, a)'
         /\ \A a \in Air : First(b, a) => First(b, a)'
<1>1. /\ \A a : a \in Air' <=> a \in Air
      /\ \A a \in Air : Lowers(a)' = Lowers(a) /\ (HasSignal(a)' <=> HasSignal(a))
      /\ \A a \in Air : \A s : AwaitsAt(a, s)' <=> AwaitsAt(a, s)
  BY StillFacts DEF Still
<1>2. ASSUME NEW x \in Air, NEW y \in Air, Needs(y, x) PROVE Needs(y, x)'
  <2>1. PICK s : s = Lowers(x) OBVIOUS
  <2>2. CASE HasSignal(x) /\ AwaitsAt(y, s)
    <3>1. HasSignal(x)' /\ AwaitsAt(y, s)' /\ Lowers(x)' = s BY ONLY <1>1, <1>2, <2>1, <2>2
    <3> QED BY ONLY <3>1 DEF Needs
  <2>3. CASE \E h \in HwQueues, i, j \in Int : y = InRing(h, i) /\ x = InRing(h, j) /\ j < i
    BY ONLY <2>3 DEF Needs
  <2> QED BY ONLY <2>1, <2>2, <2>3, <1>2 DEF Needs
<1>3. PICK p : p = b OBVIOUS
<1>4. \A a : Moved(a, p, p) = a BY DEF Moved
<1>5. ASSUME NEW a, Leads(b, a) PROVE a \in Air /\ a \in Air' /\ Leads(b, a)'
  <2>1. \A x, y \in Air : Leads(b, x) /\ Needs(y, x) =>
           Moved(y, p, p) \in Air' /\ Needs(Moved(y, p, p), Moved(x, p, p))'
    <3> SUFFICES ASSUME NEW x \in Air, NEW y \in Air, Needs(y, x)
                 PROVE  Moved(y, p, p) \in Air' /\ Needs(Moved(y, p, p), Moved(x, p, p))'
      OBVIOUS
    <3>1. PICK x1, y1 : x1 = Moved(x, p, p) /\ y1 = Moved(y, p, p) /\ x1 = x /\ y1 = y BY ONLY <1>4
    <3>2. y1 \in Air' /\ Needs(y1, x1)' BY ONLY <1>1, <1>2, <3>1, Needs(y, x)
    <3> QED BY ONLY <3>1, <3>2
  <2>2. Moved(b, p, p) \in Air' BY ONLY <1>1, <1>4, b \in Air
  <2>3. a \in Air /\ Leads(Moved(b, p, p), Moved(a, p, p))' BY ONLY <1>5, <2>1, <2>2, b \in Air, LeadsStay
  <2>4. PICK b1, a1 : b1 = Moved(b, p, p) /\ a1 = Moved(a, p, p) /\ b1 = b /\ a1 = a BY ONLY <1>4
  <2> QED BY ONLY <1>1, <2>3, <2>4
<1>6. ASSUME NEW a \in Air, First(b, a) PROVE First(b, a)' BY ONLY <1>2, <1>5, <1>6 DEF First
<1> QED BY ONLY <1>1, <1>5, <1>6, b \in Air

(* and so does what comes before a device. *)
LEMMA StillAfter ==
  ASSUME VirtualAssumptions, VirtualInv, Still, NEW w \in VGPUs, vgpu'[w].engine = vgpu[w].engine,
         Quiet(w)' => Quiet(w), Ph(w) \in InReserve => Ph(w)' \in InReserve,
         \A j : Ahead(w, j) => Ahead(w, j)', NEW b \in Air, After(w, b)
  PROVE  After(w, b)'
<1>1. RingAfter(w, b) => RingAfter(w, b)'
  <2>1. ASSUME Ph(w) \in InReserve, First(b, InHand(w)) PROVE First(b, InHand(w))'
    <3>1. InHand(w) \in Air
      <4>1. ~Holding(w)
        BY <2>1, PhaseOfPlan DEF Ph, Holding, VirtualInv, Basic, Plans, InReserve, InSignal, InWrite
      <4> QED BY <4>1, AirIs DEF AirFacts
    <3>2. PICK i : i = InHand(w) /\ i = InHand(w)' BY DEF InHand
    <3>3. First(b, i)' BY ONLY StillLeads, Still, b \in Air, <2>1, <3>1, <3>2
    <3> QED BY ONLY <3>2, <3>3
  <2>2. PICK H : H = Hq(w) /\ H = Hq(w)' BY StillFacts
  <2>3. ASSUME NEW j \in Int, Ahead(w, j), Leads(b, InRing(H, j))
        PROVE  InRing(H, j) \in Air' /\ Ahead(w, j)' /\ Leads(b, InRing(H, j))'
    <3>1. PICK x : x = InRing(H, j) /\ x = InRing(H, j)' BY DEF InRing
    <3>2. x \in Air' /\ Leads(b, x)' BY ONLY StillLeads, Still, b \in Air, <2>3, <3>1
    <3> QED BY ONLY <2>3, <3>1, <3>2, \A k : Ahead(w, k) => Ahead(w, k)'
  <2> QED BY ONLY <2>1, <2>2, <2>3, Ph(w) \in InReserve => Ph(w)' \in InReserve DEF RingAfter
<1>2. SignalAfter(w, b) => SignalAfter(w, b)'
  <2> SUFFICES ASSUME NEW a \in Air, Lowers(a) = Current(w), Leads(b, a) PROVE SignalAfter(w, b)'
    BY DEF SignalAfter
  <2>1. a \in Air' /\ Leads(b, a)' BY ONLY StillLeads, Still, b \in Air, Leads(b, a)
  <2>2. Lowers(a)' = Current(w)' BY StillFacts
  <2> QED BY ONLY <2>1, <2>2 DEF SignalAfter
<1> QED BY ONLY <1>1, <1>2, vgpu'[w].engine = vgpu[w].engine, Quiet(w)' => Quiet(w), After(w, b) DEF After

(* Kernels that start and events that go leave the order as it is. *)
LEMMA StillStream ==
  ASSUME VirtualAssumptions, VirtualInv, AirInv, StreamInv, Still,
         created' = created, vgpu' = vgpu, done' = done, todo' = todo, my' = my,
         \A e \in Commands : /\ command'[e].queue = command[e].queue /\ command'[e].waits = command[e].waits
                             /\ \/ command'[e].hwEvent = command[e].hwEvent
                                \/ command'[e].hwEvent = None /\ \A d \in Commands : e \in command[d].waits => d \in done
  PROVE  StreamInv'
<1>1. /\ \A a : a \in Air' <=> a \in Air
      /\ \A a \in Air : Flight'[a] = Flight[a] /\ Lowers(a)' = Lowers(a)
  BY StillFacts DEF Still
<1>2. /\ Placed /\ Heard /\ Past /\ InOrder /\ \A w \in VGPUs : OldOf(w) /\ WaitsOf(w)
      /\ None \notin Commands /\ None \notin Pool /\ created \in Nat /\ 1..created \subseteq Commands
      /\ \A d \in Commands : command[d].waits \subseteq Commands
      /\ \A w \in VGPUs : todo[w] # <<>> => my[w].cmd \in Commands /\ my[w].cmd \notin done
      /\ \A a \in Air : Flight[a].cmd # None => Flight[a].cmd \in 1..created
  <2>1. Types /\ InCall /\ CmdInv BY DEF VirtualInv, Basic, AirInv
  <2>2. created \in 0..setup.commands /\ setup.commands \in 0..MaxCommands /\ MaxCommands \in Nat
    BY <2>1, SetupFacts DEF Types
  <2>3. created \in Nat /\ 1..created \subseteq Commands BY ONLY <2>2 DEF Commands
  <2>4. None \notin Commands /\ None \notin Pool BY Kinds, SignalKinds
  <2> QED BY ONLY <2>1, <2>3, <2>4, StreamInv DEF StreamInv, InCall, Types, CommandObject, CmdInv
<1>3. ASSUME NEW w \in VGPUs, NEW b \in Air, After(w, b) PROVE After(w, b)'
  <2>1. /\ Ph(w)' = Ph(w) /\ (Quiet(w)' <=> Quiet(w)) /\ \A j : Ahead(w, j)' <=> Ahead(w, j)
    BY DevicesStay DEF Still
  <2> QED BY ONLY VirtualAssumptions, VirtualInv, Still, vgpu' = vgpu, <1>3, <2>1, StillAfter
<1>4. ASSUME NEW a \in Air, NEW b \in Air, First(b, a) PROVE First(b, a)' BY ONLY StillLeads, Still, <1>4
<1>5. Placed'
  BY ONLY <1>1, <1>2, created' = created, done' = done, todo' = todo, my' = my DEF Placed, Calling
<1>6. Heard'
  <2> SUFFICES ASSUME NEW e \in Commands, NEW s \in Pool, s = command'[e].hwEvent
               PROVE  /\ e \notin done' => \E a \in Air' : Lowers(a)' = s /\ Flight'[a].cmd = e
                      /\ \A a \in Air' : Lowers(a)' = s => Flight'[a].cmd = e
    BY DEF Heard
  <2>1. s = command[e].hwEvent BY <1>2
  <2> QED BY ONLY <1>1, <1>2, <2>1, done' = done, s \in Pool DEF Heard
<1>7. Past' BY <1>2 DEF Past
<1>8. \A c \in Commands : Before(c)' = Before(c)
  <2> SUFFICES ASSUME NEW c \in Commands PROVE Before(c)' = Before(c) OBVIOUS
  <2>1. 1..c - 1 \subseteq Commands BY SetupFacts DEF Commands, VirtualInv, Basic, Types
  <2> QED BY <2>1 DEF Before
<1>9. InOrder'
  <2> SUFFICES ASSUME NEW a \in Air', NEW c, c = Flight'[a].cmd, c # None, \A w : a # InHand(w),
                      NEW d, d \in Before(c)', d \notin done'
               PROVE  \E b \in Air' : Flight'[b].cmd = d /\ First(b, a)'
    BY DEF InOrder
  <2>1. a \in Air /\ c = Flight[a].cmd /\ c \in Commands BY ONLY <1>1, <1>2, c = Flight'[a].cmd, c # None
  <2>2. d \in Before(c) \ done BY ONLY <1>8, <2>1, d \in Before(c)', d \notin done', done' = done
  <2>3. PICK b \in Air : Flight[b].cmd = d /\ First(b, a)
    BY ONLY <1>2, <2>1, <2>2, c # None, \A w : a # InHand(w) DEF InOrder
  <2> QED BY ONLY <1>1, <1>4, <2>1, <2>3
<1>10. ASSUME NEW v \in VGPUs PROVE OldOf(v)'
  <2> SUFFICES ASSUME NEW a \in Air', NEW c, c = Flight'[a].cmd, c # None, command'[c].queue = v, ~Calling(v, c)'
               PROVE  After(v, a)'
    BY DEF OldOf
  <2>1. a \in Air /\ c = Flight[a].cmd /\ c \in Commands BY ONLY <1>1, <1>2, c = Flight'[a].cmd, c # None
  <2>2. command[c].queue = v BY <2>1
  <2>3. After(v, a)
    BY ONLY <1>2, <2>1, <2>2, c # None, ~Calling(v, c)', v \in VGPUs, todo' = todo, my' = my DEF OldOf, Calling
  <2> QED BY ONLY <1>3, <2>1, <2>3
<1>11. ASSUME NEW v \in VGPUs PROVE WaitsOf(v)'
  <2> SUFFICES ASSUME todo'[v] # <<>>, NEW e \in command'[my'[v].cmd].waits \ done'
               PROVE  \/ Ph(v)' \in Unresolved /\ command'[e].hwEvent \in vgpu'[v].external
                      \/ \E b \in Air' : Flight'[b].cmd = e /\ After(v, b)'
    BY DEF WaitsOf
  <2>1. PICK c \in Commands : c = my[v].cmd /\ c = my'[v].cmd /\ c \notin done
    BY ONLY <1>2, todo' = todo, my' = my, todo'[v] # <<>>, v \in VGPUs
  <2>2. e \in command[c].waits \ done BY <2>1
  <2>3. e \in Commands BY ONLY <1>2, <2>2
  <2>4. command'[e].hwEvent = command[e].hwEvent BY <2>1, <2>2, <2>3
  <2>5. CASE \E b \in Air : Flight[b].cmd = e /\ After(v, b) BY ONLY <1>1, <1>3, <2>5, v \in VGPUs
  <2>6. CASE Ph(v) \in Unresolved /\ command[e].hwEvent \in vgpu[v].external
    BY ONLY <2>4, <2>6, todo' = todo, vgpu' = vgpu DEF Ph
  <2> QED BY ONLY <1>2, <2>1, <2>2, <2>5, <2>6, todo'[v] # <<>>, todo' = todo, v \in VGPUs DEF WaitsOf
<1> QED BY ONLY <1>5, <1>6, <1>7, <1>9, <1>10, <1>11 DEF StreamInv

(* A kernel starts, *)
LEMMA StartKernelStream ==
  ASSUME VirtualAssumptions, VirtualInv, VirtualInv', AirInv, StreamInv, NEW h \in HwQueues, StartKernel(h)
  PROVE  StreamInv'
<1>1. Steady({}) /\ setup' = setup /\ todo' = todo /\ my' = my BY StartKernelEffect
<1>2. UNCHANGED <<created, command, vgpu, signal, dma, done>> BY DEF StartKernel
<1>3. Still BY <1>1, <1>2 DEF Steady, Still
<1> QED BY <1>1, <1>2, <1>3, StillStream

(* an event is deleted, *)
LEMMA ReleaseEventStream ==
  ASSUME VirtualAssumptions, VirtualInv, VirtualInv', AirInv, StreamInv, NEW c \in Commands, ReleaseEvent(c)
  PROVE  StreamInv'
<1>1. UNCHANGED <<setup, created, vgpu, memory, signal, ring, dma, done, todo, my>> BY DEF ReleaseEvent
<1>2. Still BY <1>1, SameAir DEF Holding
<1>3. command \in [Commands -> CommandObject] /\ command' = [command EXCEPT ![c].hwEvent = None]
      /\ \A d \in Commands : c \in command[d].waits => d \in done
  BY DEF ReleaseEvent, VirtualInv, Basic, Types
<1>4. \A e \in Commands : /\ command'[e].queue = command[e].queue /\ command'[e].waits = command[e].waits
                          /\ e # c => command'[e].hwEvent = command[e].hwEvent
                          /\ e = c => command'[e].hwEvent = None
  BY ONLY <1>3 DEF CommandObject
<1>5. \A e \in Commands :
        \/ command'[e].hwEvent = command[e].hwEvent
        \/ command'[e].hwEvent = None /\ \A d \in Commands : e \in command[d].waits => d \in done
  BY ONLY <1>3, <1>4
<1>6. created' = created /\ vgpu' = vgpu /\ done' = done /\ todo' = todo /\ my' = my BY ONLY <1>1
<1>7. \A e \in Commands : command'[e].queue = command[e].queue /\ command'[e].waits = command[e].waits
  BY ONLY <1>4
<1> QED BY ONLY StillStream, VirtualAssumptions, VirtualInv, AirInv, StreamInv, <1>2, <1>5, <1>6, <1>7

(* nothing happens. *)
LEMMA StutterStream ==
  ASSUME VirtualAssumptions, VirtualInv, VirtualInv', AirInv, StreamInv, UNCHANGED vars
  PROVE  StreamInv'
<1>1. UNCHANGED <<setup, created, command, vgpu, memory, signal, ring, dma, done, todo, my>> BY DEF vars
<1>2. Still BY <1>1, SameAir DEF Holding
<1> QED BY <1>1, <1>2, StillStream

(* A call begins: what the device has given to the GPU comes before it,
   and it has yet to look at what it waits for. *)
LEMMA SubmitStream ==
  ASSUME VirtualAssumptions, VirtualInv, VirtualInv', AirInv, StreamInv, NEW v \in VGPUs,
         NEW op \in Operations, NEW W \in SUBSET Commands, Submit(v, op, W)
  PROVE  StreamInv'
<1>1. PICK c : c = created + 1 OBVIOUS
<1>2. /\ c \in Commands /\ c \notin 1..created /\ created \in Nat /\ created' = c
      /\ UNCHANGED <<setup, signal, ring, dma, done>>
      /\ \A w \in VGPUs : /\ vgpu'[w].list = vgpu[w].list /\ vgpu'[w].current = vgpu[w].current
                          /\ vgpu'[w].pending = vgpu[w].pending /\ vgpu'[w].engine = vgpu[w].engine
                          /\ my'[w].packet = my[w].packet /\ my'[w].index = my[w].index
      /\ \A w \in VGPUs : w # v => todo'[w] = todo[w] /\ my'[w] = my[w] /\ vgpu'[w] = vgpu[w]
      /\ my'[v].cmd = c /\ vgpu'[v].external = {command[e].hwEvent : e \in W}
      /\ \A d \in Commands : /\ command'[d].hwEvent = command[d].hwEvent
                             /\ d # c => command'[d] = command[d]
      /\ command'[c].waits = W
  BY ONLY SubmitFacts, <1>1, VirtualAssumptions, VirtualInv, AirInv, v \in VGPUs,
     op \in Operations, W \in SUBSET Commands, Submit(v, op, W)
<1>3. /\ Ph(v) = "idle" /\ Ph(v)' \in {"alloc", "barrierLast", "fenceCopy", "fenceFlush"}
  BY SubmitPhases DEF VirtualInv
<1>4. ~Holding(v) /\ ~HoldPlan(todo'[v]) /\ ~Holding(v)' /\ todo[v] = <<>> /\ todo'[v] # <<>>
  <2>1. ~Holding(v) /\ todo[v] = <<>> BY <1>3, CallFacts DEF InSignal, InWrite
  <2>2. ~HoldPlan(todo'[v]) /\ todo'[v] # <<>> BY <1>3, CallFactsNext DEF InSignal, InWrite
  <2> QED BY ONLY <2>1, <2>2 DEF Holding
<1>5. Still BY <1>2, <1>4, SameAir DEF Holding
<1>6. Frame(v) BY ONLY <1>2 DEF Frame
<1>7. /\ \A a : a \in Air' <=> a \in Air
      /\ \A a \in Air : Flight'[a] = Flight[a] /\ Lowers(a)' = Lowers(a)
  BY <1>5, StillFacts DEF Still
<1>8. /\ Placed /\ Heard /\ Past /\ InOrder /\ \A w \in VGPUs : OldOf(w) /\ WaitsOf(w)
      /\ 1..created \subseteq Commands
      /\ \A d \in Commands : command[d].waits \subseteq Commands
      /\ \A w \in VGPUs : todo[w] # <<>> => my[w].cmd \in Commands /\ my[w].cmd # c
      /\ \A a \in Air : Flight[a].cmd # None => Flight[a].cmd \in Commands /\ Flight[a].cmd \in 1..created
      /\ \A d \in Commands \ (1..created) : command[d].hwEvent = None
  <2>1. Types /\ InCall /\ CmdInv BY DEF VirtualInv, Basic, AirInv
  <2>2. created \in 0..setup.commands /\ setup.commands \in 0..MaxCommands /\ MaxCommands \in Nat
    BY <2>1, SetupFacts DEF Types
  <2>3. 1..created \subseteq Commands BY ONLY <2>2 DEF Commands
  <2> QED BY ONLY <1>2, <2>1, <2>3, StreamInv DEF StreamInv, InCall, Types, CommandObject, CmdInv
<1>9. W \subseteq 1..created
  <2>1. \A e \in W : command[e].hwEvent # None BY DEF Submit
  <2> QED BY ONLY <1>8, <2>1, W \in SUBSET Commands
<1>10. ASSUME NEW w \in VGPUs, NEW b \in Air, After(w, b) PROVE After(w, b)'
  <2>1. CASE w # v
    <3>1. (Quiet(w)' => Quiet(w)) /\ (Ph(w) \in InReserve => Ph(w)' \in InReserve) /\ \A j : Ahead(w, j) => Ahead(w, j)'
      BY ONLY <1>6, <1>10, <2>1, OthersStay
    <3> QED BY ONLY VirtualAssumptions, VirtualInv, <1>2, <1>5, <1>10, <3>1, StillAfter
  <2>2. CASE w = v
    <3>1. (Quiet(v)' => Quiet(v)) /\ Ph(v) \notin InReserve /\ \A j : Ahead(v, j)'
      BY ONLY <1>2, <1>3, <1>4, v \in VGPUs DEF Quiet, InReserve, Ahead
    <3> QED BY ONLY VirtualAssumptions, VirtualInv, <1>2, <1>5, <1>10, <2>2, <3>1, StillAfter
  <2> QED BY ONLY <2>1, <2>2
<1>11. /\ \A w \in VGPUs : \A d : w # v => (Calling(w, d)' <=> Calling(w, d))
       /\ \A d : ~Calling(v, d)
       /\ Calling(v, c)'
  BY ONLY <1>2, <1>4 DEF Calling
<1>12. Placed'
  <2> SUFFICES ASSUME NEW d, d \in 1..created', d \notin done'
               PROVE  (\E w \in VGPUs : Calling(w, d)') \/ \E a \in Air' : Flight'[a].cmd = d
    BY DEF Placed
  <2>1. CASE d = c BY ONLY <1>11, <2>1, v \in VGPUs
  <2>2. CASE d # c
    <3>1. d \in 1..created /\ d \notin done BY ONLY <1>1, <1>2, <2>2, d \in 1..created', d \notin done'
    <3>2. (\E w \in VGPUs : Calling(w, d)) \/ \E a \in Air : Flight[a].cmd = d
      BY ONLY <1>8, <3>1 DEF Placed
    <3> QED BY ONLY <1>7, <1>11, <3>2
  <2> QED BY ONLY <2>1, <2>2
<1>13. Heard'
  <2> SUFFICES ASSUME NEW e \in Commands, NEW s \in Pool, s = command'[e].hwEvent
               PROVE  /\ e \notin done' => \E a \in Air' : Lowers(a)' = s /\ Flight'[a].cmd = e
                      /\ \A a \in Air' : Lowers(a)' = s => Flight'[a].cmd = e
    BY DEF Heard
  <2>1. s = command[e].hwEvent /\ done' = done BY ONLY <1>2, s = command'[e].hwEvent, e \in Commands
  <2> QED BY ONLY <1>7, <1>8, <2>1, s \in Pool DEF Heard
<1>14. Past'
  <2> SUFFICES ASSUME NEW d, d \in 1..created' PROVE command'[d].waits \subseteq 1..d - 1 BY DEF Past
  <2>1. CASE d = c
    <3>1. c - 1 = created BY ONLY <1>1, <1>2
    <3> QED BY ONLY <1>2, <1>9, <2>1, <3>1
  <2>2. CASE d # c
    <3>1. d \in 1..created BY ONLY <1>1, <1>2, <2>2, d \in 1..created'
    <3> QED BY ONLY <1>2, <1>8, <2>2, <3>1 DEF Past
  <2> QED BY ONLY <2>1, <2>2
<1>15. ASSUME NEW d \in 1..created PROVE Before(d)' = Before(d)
  <2>1. d \in Commands /\ d # c /\ \A e \in 1..d - 1 : e \in Commands /\ e # c
    <3>1. \A e \in 1..d - 1 : e \in 1..created BY ONLY <1>2, <1>15
    <3> QED BY ONLY <1>2, <1>8, <1>15, <3>1
  <2> QED BY ONLY <1>2, <2>1 DEF Before
<1>16. InOrder'
  <2> SUFFICES ASSUME NEW a \in Air', NEW e, e = Flight'[a].cmd, e # None, \A w : a # InHand(w),
                      NEW d, d \in Before(e)', d \notin done'
               PROVE  \E b \in Air' : Flight'[b].cmd = d /\ First(b, a)'
    BY DEF InOrder
  <2>1. a \in Air /\ e = Flight[a].cmd /\ e \in 1..created
    BY ONLY <1>7, <1>8, e = Flight'[a].cmd, e # None
  <2>2. d \in Before(e) \ done BY ONLY <1>2, <1>15, <2>1, d \in Before(e)', d \notin done'
  <2>3. PICK b \in Air : Flight[b].cmd = d /\ First(b, a)
    BY ONLY <1>8, <2>1, <2>2, e # None, \A w : a # InHand(w) DEF InOrder
  <2>4. First(b, a)' BY ONLY <1>5, <2>1, <2>3, StillLeads
  <2> QED BY ONLY <1>7, <2>3, <2>4
<1>17. ASSUME NEW w \in VGPUs PROVE OldOf(w)'
  <2> SUFFICES ASSUME NEW a \in Air', NEW e, e = Flight'[a].cmd, e # None, command'[e].queue = w, ~Calling(w, e)'
               PROVE  After(w, a)'
    BY DEF OldOf
  <2>1. a \in Air /\ e = Flight[a].cmd /\ e \in Commands /\ e # c
    BY ONLY <1>2, <1>7, <1>8, e = Flight'[a].cmd, e # None
  <2>2. command[e].queue = w /\ ~Calling(w, e)
    BY ONLY <1>2, <1>11, <2>1, command'[e].queue = w, ~Calling(w, e)', w \in VGPUs
  <2>3. After(w, a) BY ONLY <1>8, <2>1, <2>2, e # None, w \in VGPUs DEF OldOf
  <2> QED BY ONLY <1>10, <2>1, <2>3, w \in VGPUs
<1>18. ASSUME NEW w \in VGPUs PROVE WaitsOf(w)'
  <2> SUFFICES ASSUME todo'[w] # <<>>, NEW e \in command'[my'[w].cmd].waits \ done'
               PROVE  \/ Ph(w)' \in Unresolved /\ command'[e].hwEvent \in vgpu'[w].external
                      \/ \E b \in Air' : Flight'[b].cmd = e /\ After(w, b)'
    BY DEF WaitsOf
  <2>1. CASE w = v
    <3>1. e \in W BY ONLY <1>2, <2>1, e \in command'[my'[w].cmd].waits \ done'
    <3>2. command'[e].hwEvent = command[e].hwEvent BY ONLY <1>2, <3>1, W \in SUBSET Commands
    <3>3. command'[e].hwEvent \in vgpu'[w].external BY ONLY <1>2, <2>1, <3>1, <3>2
    <3>4. Ph(w)' \in Unresolved BY ONLY <1>3, <2>1 DEF Unresolved, InFence, InBarrier
    <3> QED BY ONLY <3>3, <3>4
  <2>2. CASE w # v
    <3>1. /\ todo[w] # <<>> /\ my'[w].cmd = my[w].cmd /\ my[w].cmd \in Commands /\ my[w].cmd # c
          /\ vgpu'[w].external = vgpu[w].external
      BY ONLY <1>2, <1>8, <2>2, todo'[w] # <<>>, w \in VGPUs
    <3>2. e \in command[my[w].cmd].waits \ done /\ e \in Commands
      BY ONLY <1>2, <1>8, <3>1, e \in command'[my'[w].cmd].waits \ done'
    <3>3. CASE \E b \in Air : Flight[b].cmd = e /\ After(w, b) BY ONLY <1>7, <1>10, <3>3, w \in VGPUs
    <3>4. CASE Ph(w) \in Unresolved /\ command[e].hwEvent \in vgpu[w].external
      <4>1. Ph(w)' = Ph(w) BY ONLY <1>2, <2>2, w \in VGPUs DEF Ph
      <4> QED BY ONLY <1>2, <3>1, <3>2, <3>4, <4>1
    <3> QED BY ONLY <1>8, <3>1, <3>2, <3>3, <3>4, w \in VGPUs DEF WaitsOf
  <2> QED BY ONLY <2>1, <2>2
<1> QED BY ONLY <1>12, <1>13, <1>14, <1>16, <1>17, <1>18 DEF StreamInv

----------------------------------------
(* The order of a stream: every step keeps it. *)

(* Every step of a call, *)
LEMMA HostStream ==
  ASSUME VirtualAssumptions, VirtualInv, VirtualInv', AirInv, AirInv', StreamInv, NEW v \in VGPUs, Host(v)
  PROVE  StreamInv'
<1>1. CASE Alloc(v) BY <1>1, AllocStream
<1>2. CASE NextChunk(v) BY <1>2, NextChunkStream
<1>3. CASE BlockingWait(v) BY <1>3, BlockingWaitStream
<1>4. CASE Barrier(v) BY <1>4, BarrierStream
<1>5. CASE CopyWait(v) BY <1>5, CopyWaitStream
<1>6. CASE GrowList(v) \/ ReuseSignal(v) BY <1>6, AttachStream
<1>7. CASE Reserve(v) \/ Kernel(v) BY <1>7, TakeStream
<1>8. CASE Write(v) BY <1>8, WriteStream
<1>9. CASE Fence(v) BY <1>9, FenceStream
<1>10. CASE WaitCurrent(v) BY <1>10, WaitCurrentStream
<1>11. CASE StartCopy(v) BY <1>11, StartCopyStream
<1>12. CASE CopyFails(v) BY <1>12, CopyFailsStream
<1> QED
  BY ONLY Host(v), <1>1, <1>2, <1>3, <1>4, <1>5, <1>6, <1>7, <1>8, <1>9, <1>10, <1>11, <1>12
     DEF Host

(* and every step of the others. *)
LEMMA NextStream ==
  ASSUME VirtualAssumptions, VirtualInv, VirtualInv', AirInv, AirInv', StreamInv, [Next]_vars
  PROVE  StreamInv'
<1>1. ASSUME NEW c \in Commands, ReleaseEvent(c) PROVE StreamInv' BY <1>1, ReleaseEventStream
<1>2. ASSUME NEW v \in VGPUs, NEW op \in Operations,
             NEW W \in {{}} \cup {{e} : e \in Commands}, Submit(v, op, W)
      PROVE  StreamInv'
  <2>1. W \in SUBSET Commands OBVIOUS
  <2> QED BY <1>2, <2>1, SubmitStream
<1>3. ASSUME NEW v \in VGPUs, Host(v) PROVE StreamInv' BY <1>3, HostStream
<1>4. ASSUME NEW h \in HwQueues, Processor(h) PROVE StreamInv'
  <2>1. CASE StartKernel(h) BY <2>1, StartKernelStream
  <2>2. CASE EndKernel(h) BY <2>2, EndKernelFinishes, FinishStream
  <2>3. CASE PassBarrier(h) BY <2>3, PassBarrierFinishes, FinishStream
  <2> QED BY ONLY <1>4, <2>1, <2>2, <2>3 DEF Processor
<1>5. ASSUME NEW x \in dma, RunCopy(x) PROVE StreamInv' BY <1>5, RunCopyFinishes, FinishStream
<1>6. CASE UNCHANGED vars BY <1>6, StutterStream
<1> QED BY ONLY [Next]_vars, <1>1, <1>2, <1>3, <1>4, <1>5, <1>6 DEF Next, Application, Dma

(* At the start there is no command. *)
LEMMA InitStream ==
  ASSUME VirtualAssumptions, Init
  PROVE  StreamInv
<1>1. VirtualInv /\ AirInv BY InitBasic, InitRing, InitAir DEF VirtualInv
<1>2. /\ created = 0 /\ \A v \in VGPUs : todo[v] = <<>>
      /\ \A c \in Commands : command[c].hwEvent = None
  BY DEF Init
<1>3. \A a \in Air : Flight[a].cmd = None BY ONLY <1>1, <1>2 DEF AirInv, CmdInv
<1>4. None \notin Pool BY SignalKinds
<1>5. Placed /\ Past BY ONLY <1>2 DEF Placed, Past
<1>6. Heard BY ONLY <1>2, <1>4 DEF Heard
<1>7. InOrder /\ \A v \in VGPUs : OldOf(v) /\ WaitsOf(v) BY ONLY <1>2, <1>3 DEF InOrder, OldOf, WaitsOf
<1> QED BY ONLY <1>5, <1>6, <1>7 DEF StreamInv

(* The order holds at all times. *)
LEMMA StreamInvHolds == ASSUME VirtualAssumptions PROVE Spec => []StreamInv
<1>1. Init => StreamInv BY InitStream
<1>2. VirtualInv /\ VirtualInv' /\ AirInv /\ AirInv' /\ StreamInv /\ [Next]_vars => StreamInv'
  BY NextStream
<1>3. Spec => []VirtualInv BY VirtualInvHolds
<1>4. Spec => []AirInv BY AirInvHolds
<1> QED BY <1>1, <1>2, <1>3, <1>4, PTL DEF Spec

(* The GPU never begins an operation of a stream before the earlier ones
   of the stream, and those of other streams it waits for, have ended:
   whether they run on the compute engine or on a DMA engine, share a ring
   with other streams, are given to the other engine after a failure, or
   find their signals used again. *)
THEOREM StreamsAreInOrder == ASSUME VirtualAssumptions PROVE Spec => []StreamOrder
<1>1. VirtualInv /\ AirInv /\ StreamInv => StreamOrder BY StreamIsOrdered
<1> QED BY <1>1, VirtualInvHolds, AirInvHolds, StreamInvHolds, PTL
=============================================================================
