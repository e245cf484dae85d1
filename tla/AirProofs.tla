------------------------------ MODULE AirProofs ------------------------------
(* What is in the air between the virtual devices and the GPU, for any
   number of devices, hardware queues, commands, chunks and any sizes of
   the rings and of the pool of signals: which packet or copy is where,
   which signal it lowers and which it waits for.  AirInv says that all of
   them mean the last use of their signals.  Here it is stated, with what
   each kind of step does to it; SignalProofs shows that all steps keep it. *)
EXTENDS VirtualProofs

----------------------------------------
(* The phases of a call. *)

(* What a plan ends in after the barrier of a marker or a fence. *)
Ending(y, last, copy, flush) ==
  IF y = <<>> THEN last ELSE IF Head(y) = "copyWait" THEN copy ELSE flush

(* The next step of a plan, told apart by what it is for: the barrier of a
   marker or the last packet of a call, of a fence before a copy or a
   flush, the one that waits in front of a kernel, the one that guards a
   chunk, the signal of a copy. *)
Phase(s) ==
  IF s = <<>> THEN "idle"
  ELSE IF Head(s) = "fence" THEN Ending(Tail(s), "none", "fenceCopy", "fenceFlush")
  ELSE IF Head(s) = "barrier" THEN
    Ending(Tail(Tail(Tail(Tail(s)))), "barrierLast", "barrierCopy", "barrierFlush")
  ELSE IF Head(s) = "reserve" THEN
    IF Head(Tail(s)) = "signal" THEN Ending(Tail(Tail(Tail(s))), "reserveLast", "reserveCopy", "reserveFlush")
    ELSE IF Head(Tail(Tail(s))) = "nextChunk" THEN "reserveChunk" ELSE "reserveWait"
  ELSE IF Head(s) = "signal" THEN
    IF Head(Tail(s)) = "copy" THEN "signalDma"
    ELSE Ending(Tail(Tail(s)), "signalLast", "signalCopy", "signalFlush")
  ELSE IF Head(s) = "write" THEN
    IF Tail(s) # <<>> /\ Head(Tail(s)) = "nextChunk" THEN "writeChunk"
    ELSE IF Tail(s) # <<>> /\ Head(Tail(s)) = "kernel" THEN "writeWait"
    ELSE Ending(Tail(s), "writeLast", "writeCopy", "writeFlush")
  ELSE Head(s)

(* The phases by the step that is next. *)
InFence   == {"fenceCopy", "fenceFlush"}
InBarrier == {"barrierLast", "barrierCopy", "barrierFlush"}
InReserve == {"reserveLast", "reserveCopy", "reserveFlush", "reserveWait", "reserveChunk"}
InSignal  == {"signalLast", "signalCopy", "signalFlush"}
InWrite   == {"writeLast", "writeCopy", "writeFlush", "writeWait", "writeChunk"}
Phases    == {"idle", "alloc", "nextChunk", "blockingWait", "kernel", "copyWait", "signalDma", "copy",
              "waitCurrent"} \cup InFence \cup InBarrier \cup InReserve \cup InSignal \cup InWrite

(* How a plan looks whose head and tail are known. *)
LEMMA PhaseOfCons ==
  ASSUME NEW a \in Steps, NEW t \in StepSeqs
  PROVE  /\ a \notin {"fence", "barrier", "reserve", "signal", "write"} => Phase(Cons(a, t)) = a
         /\ a = "fence" => Phase(Cons(a, t)) = Ending(t, "none", "fenceCopy", "fenceFlush")
         /\ a = "barrier" => Phase(Cons(a, t))
              = Ending(Tail(Tail(Tail(t))), "barrierLast", "barrierCopy", "barrierFlush")
         /\ a = "reserve" => Phase(Cons(a, t))
              = IF Head(t) = "signal" THEN Ending(Tail(Tail(t)), "reserveLast", "reserveCopy", "reserveFlush")
                ELSE IF Head(Tail(t)) = "nextChunk" THEN "reserveChunk" ELSE "reserveWait"
         /\ a = "signal" => Phase(Cons(a, t))
              = IF Head(t) = "copy" THEN "signalDma" ELSE Ending(Tail(t), "signalLast", "signalCopy", "signalFlush")
         /\ a = "write" => Phase(Cons(a, t))
              = IF t # <<>> /\ Head(t) = "nextChunk" THEN "writeChunk"
                ELSE IF t # <<>> /\ Head(t) = "kernel" THEN "writeWait"
                ELSE Ending(t, "writeLast", "writeCopy", "writeFlush")
<1>1. PICK s : s = Cons(a, t) OBVIOUS
<1>2. s # <<>> /\ Head(s) = a /\ Tail(s) = t BY ONLY <1>1, ConsSteps, a \in Steps, t \in StepSeqs
<1>3. /\ a \notin {"fence", "barrier", "reserve", "signal", "write"} => Phase(s) = a
      /\ a = "fence" => Phase(s) = Ending(t, "none", "fenceCopy", "fenceFlush")
      /\ a = "barrier" => Phase(s)
           = Ending(Tail(Tail(Tail(t))), "barrierLast", "barrierCopy", "barrierFlush")
      /\ a = "reserve" => Phase(s)
           = IF Head(t) = "signal" THEN Ending(Tail(Tail(t)), "reserveLast", "reserveCopy", "reserveFlush")
             ELSE IF Head(Tail(t)) = "nextChunk" THEN "reserveChunk" ELSE "reserveWait"
      /\ a = "signal" => Phase(s)
           = IF Head(t) = "copy" THEN "signalDma" ELSE Ending(Tail(t), "signalLast", "signalCopy", "signalFlush")
      /\ a = "write" => Phase(s)
           = IF t # <<>> /\ Head(t) = "nextChunk" THEN "writeChunk"
             ELSE IF t # <<>> /\ Head(t) = "kernel" THEN "writeWait"
             ELSE Ending(t, "writeLast", "writeCopy", "writeFlush")
  BY ONLY <1>2 DEF Phase
<1> QED BY ONLY <1>1, <1>3

(* The plans of a barrier with a signal. *)
LEMMA EndingPhases ==
  ASSUME NEW y \in Endings
  PROVE  /\ Phase(Cons("write", y)) = Ending(y, "writeLast", "writeCopy", "writeFlush")
         /\ Phase(Cons("signal", Cons("write", y))) = Ending(y, "signalLast", "signalCopy", "signalFlush")
         /\ Phase(Cons("reserve", Cons("signal", Cons("write", y))))
              = Ending(y, "reserveLast", "reserveCopy", "reserveFlush")
         /\ Phase(Cons("barrier", Cons("reserve", Cons("signal", Cons("write", y)))))
              = Ending(y, "barrierLast", "barrierCopy", "barrierFlush")
<1>0. \A a \in Steps, t \in StepSeqs : Cons(a, t) # <<>> /\ Head(Cons(a, t)) = a /\ Tail(Cons(a, t)) = t
                                       /\ Cons(a, t) \in StepSeqs
  BY ConsSteps
<1>1. y \in StepSeqs /\ (y = <<>> \/ Head(y) \in {"copyWait", "waitCurrent"})
  BY PlansAreSequences, NextHeads DEF AfterWrite, Endings, AfterFence
<1>2. PICK w : w = Cons("write", y) OBVIOUS
<1>3. w \in StepSeqs /\ Head(w) = "write" /\ Tail(w) = y BY ONLY <1>0, <1>1, <1>2, StepNames
<1>4. PICK g : g = Cons("signal", w) OBVIOUS
<1>5. g \in StepSeqs /\ Head(g) = "signal" /\ Tail(g) = w BY ONLY <1>0, <1>3, <1>4, StepNames
<1>6. PICK r : r = Cons("reserve", g) OBVIOUS
<1>7. r \in StepSeqs /\ Head(r) = "reserve" /\ Tail(r) = g BY ONLY <1>0, <1>5, <1>6, StepNames
<1>8. Phase(Cons("write", y)) = Ending(y, "writeLast", "writeCopy", "writeFlush")
  BY ONLY <1>1, PhaseOfCons, StepNames
<1>9. Phase(Cons("signal", w)) = Ending(y, "signalLast", "signalCopy", "signalFlush")
  <2>1. Phase(Cons("signal", w))
          = IF Head(w) = "copy" THEN "signalDma" ELSE Ending(Tail(w), "signalLast", "signalCopy", "signalFlush")
    BY ONLY <1>3, PhaseOfCons, StepNames
  <2> QED BY ONLY <1>3, <2>1
<1>10. Phase(Cons("reserve", g)) = Ending(y, "reserveLast", "reserveCopy", "reserveFlush")
  BY ONLY <1>3, <1>5, PhaseOfCons, StepNames
<1>11. Phase(Cons("barrier", r)) = Ending(y, "barrierLast", "barrierCopy", "barrierFlush")
  BY ONLY <1>3, <1>5, <1>7, PhaseOfCons, StepNames
<1> QED BY ONLY <1>2, <1>4, <1>6, <1>8, <1>9, <1>10, <1>11

(* What follows the last packet, a fence before a copy and a flush. *)
LEMMA EndingIs ==
  /\ \A a, b, c : Ending(<<>>, a, b, c) = a
  /\ \A a, b, c : Ending(CopyPlan, a, b, c) = b
  /\ \A a, b, c : Ending(FlushPlan, a, b, c) = c
<1>1. CopyPlan # <<>> /\ Head(CopyPlan) = "copyWait" /\ FlushPlan # <<>> /\ Head(FlushPlan) = "waitCurrent"
  <2>1. Cons("copy", <<>>) \in StepSeqs /\ <<>> \in StepSeqs BY ConsSteps, StepNames
  <2>2. Cons("signal", Cons("copy", <<>>)) \in StepSeqs BY <2>1, ConsSteps, StepNames
  <2> QED BY <2>1, <2>2, ConsSteps, StepNames DEF CopyPlan, FlushPlan
<1> QED BY ONLY <1>1 DEF Ending

(* The phases of the plans, and of what a step leaves of them. *)
LEMMA PhaseTable ==
  /\ Phase(<<>>) = "idle"
  /\ \A t \in AfterAlloc :
       /\ Phase(Cons("alloc", t)) = "alloc" /\ Phase(Cons("nextChunk", t)) = "nextChunk"
       /\ Phase(Cons("write", Cons("nextChunk", t))) = "writeChunk"
       /\ Phase(Cons("reserve", Cons("write", Cons("nextChunk", t)))) = "reserveChunk"
       /\ Phase(t) \in {"alloc", "blockingWait"}
  /\ \A t \in AfterBlockingWait :
       /\ Phase(Cons("blockingWait", t)) = "blockingWait" /\ Phase(t) = "kernel"
       /\ Phase(Cons("write", t)) = "writeWait" /\ Phase(Cons("reserve", Cons("write", t))) = "reserveWait"
  /\ \A t \in AfterKernel : Phase(Cons("kernel", t)) = "kernel" /\ Phase(t) \in {"writeLast", "signalLast"}
  /\ Phase(CopyPlan) = "copyWait" /\ Phase(FlushPlan) = "waitCurrent"
  /\ Phase(Cons("fence", CopyPlan)) = "fenceCopy" /\ Phase(Cons("fence", FlushPlan)) = "fenceFlush"
  /\ Phase(Cons("signal", Cons("copy", <<>>))) = "signalDma" /\ Phase(Cons("copy", <<>>)) = "copy"
  /\ Phase(Cons("waitCurrent", <<>>)) = "waitCurrent" /\ Phase(DispatchPlan) = "alloc"
<1>0. \A a \in Steps, t \in StepSeqs : Cons(a, t) # <<>> /\ Head(Cons(a, t)) = a /\ Tail(Cons(a, t)) = t
                                       /\ Cons(a, t) \in StepSeqs
  BY ConsSteps
<1>e. <<>> \in Endings /\ CopyPlan \in Endings /\ FlushPlan \in Endings /\ <<>> \in StepSeqs
      /\ CopyPlan \in StepSeqs /\ FlushPlan \in StepSeqs
  BY ConsSteps, PlansAreSequences DEF Endings
<1>1. Phase(<<>>) = "idle" BY DEF Phase
<1>2. Phase(Cons("write", <<>>)) = "writeLast" /\ Phase(Cons("signal", Cons("write", <<>>))) = "signalLast"
  BY ONLY <1>e, EndingPhases, EndingIs
<1>3. \A t \in AfterKernel : Phase(Cons("kernel", t)) = "kernel" /\ Phase(t) \in {"writeLast", "signalLast"}
  <2> SUFFICES ASSUME NEW t \in AfterKernel
               PROVE  Phase(Cons("kernel", t)) = "kernel" /\ Phase(t) \in {"writeLast", "signalLast"}
    OBVIOUS
  <2>1. t \in StepSeqs BY PlansAreSequences
  <2>2. Phase(Cons("kernel", t)) = "kernel" BY ONLY <2>1, PhaseOfCons, StepNames
  <2>3. t = Cons("write", <<>>) \/ t = Cons("signal", Cons("write", <<>>)) BY DEF AfterKernel
  <2> QED BY ONLY <2>2, <2>3, <1>2
<1>4. \A t \in AfterBlockingWait :
       /\ Phase(Cons("blockingWait", t)) = "blockingWait" /\ Phase(t) = "kernel"
       /\ Phase(Cons("write", t)) = "writeWait" /\ Phase(Cons("reserve", Cons("write", t))) = "reserveWait"
  <2> SUFFICES ASSUME NEW t \in AfterBlockingWait
               PROVE  /\ Phase(Cons("blockingWait", t)) = "blockingWait" /\ Phase(t) = "kernel"
                      /\ Phase(Cons("write", t)) = "writeWait" /\ Phase(Cons("reserve", Cons("write", t))) = "reserveWait"
    OBVIOUS
  <2>1. t \in StepSeqs /\ t # <<>> /\ Head(t) = "kernel" BY PlansAreSequences, NextHeads
  <2>2. Phase(Cons("blockingWait", t)) = "blockingWait" BY ONLY <2>1, PhaseOfCons, StepNames
  <2>3. Phase(t) = "kernel" BY ONLY <1>3, t \in AfterBlockingWait DEF AfterBlockingWait
  <2>4. Phase(Cons("write", t)) = "writeWait" BY ONLY <2>1, PhaseOfCons, StepNames
  <2>5. PICK w : w = Cons("write", t) OBVIOUS
  <2>6. w \in StepSeqs /\ Head(w) = "write" /\ Tail(w) = t BY ONLY <1>0, <2>1, <2>5, StepNames
  <2>7. Phase(Cons("reserve", w)) = "reserveWait" BY ONLY <2>1, <2>6, PhaseOfCons, StepNames
  <2> QED BY ONLY <2>2, <2>3, <2>4, <2>5, <2>7
<1>5. \A t \in AfterAlloc :
       /\ Phase(Cons("alloc", t)) = "alloc" /\ Phase(Cons("nextChunk", t)) = "nextChunk"
       /\ Phase(Cons("write", Cons("nextChunk", t))) = "writeChunk"
       /\ Phase(Cons("reserve", Cons("write", Cons("nextChunk", t)))) = "reserveChunk"
       /\ Phase(t) \in {"alloc", "blockingWait"}
  <2> SUFFICES ASSUME NEW t \in AfterAlloc
               PROVE  /\ Phase(Cons("alloc", t)) = "alloc" /\ Phase(Cons("nextChunk", t)) = "nextChunk"
                      /\ Phase(Cons("write", Cons("nextChunk", t))) = "writeChunk"
                      /\ Phase(Cons("reserve", Cons("write", Cons("nextChunk", t)))) = "reserveChunk"
                      /\ Phase(t) \in {"alloc", "blockingWait"}
    OBVIOUS
  <2>1. t \in StepSeqs BY PlansAreSequences
  <2>2. Phase(Cons("alloc", t)) = "alloc" /\ Phase(Cons("nextChunk", t)) = "nextChunk"
    BY ONLY <2>1, PhaseOfCons, StepNames
  <2>3. PICK n : n = Cons("nextChunk", t) OBVIOUS
  <2>4. n \in StepSeqs /\ n # <<>> /\ Head(n) = "nextChunk" BY ONLY <1>0, <2>1, <2>3, StepNames
  <2>5. PICK w : w = Cons("write", n) OBVIOUS
  <2>6. w \in StepSeqs /\ Head(w) = "write" /\ Tail(w) = n BY ONLY <1>0, <2>4, <2>5, StepNames
  <2>7. Phase(w) = "writeChunk" BY ONLY <2>4, <2>5, PhaseOfCons, StepNames
  <2>8. Phase(Cons("reserve", w)) = "reserveChunk" BY ONLY <2>4, <2>6, PhaseOfCons, StepNames
  <2>9. Phase(t) \in {"alloc", "blockingWait"}
    <3>1. (\E u \in AfterBlockingWait : t = Cons("blockingWait", u))
          \/ t = Cons("alloc", Cons("blockingWait", Cons("kernel", Cons("write", <<>>))))
      BY DEF AfterAlloc
    <3>2. CASE \E u \in AfterBlockingWait : t = Cons("blockingWait", u) BY ONLY <1>4, <3>2
    <3>3. CASE t = Cons("alloc", Cons("blockingWait", Cons("kernel", Cons("write", <<>>))))
      <4>1. PICK u : u = Cons("blockingWait", Cons("kernel", Cons("write", <<>>))) OBVIOUS
      <4>2. u \in AfterAlloc BY <4>1 DEF AfterAlloc, AfterBlockingWait, AfterKernel
      <4>3. u \in StepSeqs BY <4>2, PlansAreSequences
      <4>4. Phase(Cons("alloc", u)) = "alloc" BY ONLY <4>3, PhaseOfCons, StepNames
      <4> QED BY ONLY <3>3, <4>1, <4>4
    <3> QED BY ONLY <3>1, <3>2, <3>3
  <2> QED BY ONLY <2>2, <2>3, <2>5, <2>7, <2>8, <2>9
<1>6. Phase(Cons("fence", CopyPlan)) = "fenceCopy" /\ Phase(Cons("fence", FlushPlan)) = "fenceFlush"
  BY ONLY <1>e, PhaseOfCons, StepNames, EndingIs
<1>7. PICK c : c = Cons("copy", <<>>) OBVIOUS
<1>8. c \in StepSeqs /\ Head(c) = "copy" BY ONLY <1>0, <1>e, <1>7, StepNames
<1>9. Phase(Cons("copy", <<>>)) = "copy" /\ Phase(Cons("signal", c)) = "signalDma"
      /\ Phase(Cons("waitCurrent", <<>>)) = "waitCurrent"
  BY ONLY <1>e, <1>8, PhaseOfCons, StepNames
<1>10. Phase(CopyPlan) = "copyWait" /\ Phase(FlushPlan) = "waitCurrent"
  <2>1. Cons("signal", c) \in StepSeqs BY ONLY <1>0, <1>8, StepNames
  <2>2. Phase(Cons("copyWait", Cons("signal", c))) = "copyWait" BY ONLY <2>1, PhaseOfCons, StepNames
  <2> QED BY ONLY <1>7, <1>9, <2>2 DEF CopyPlan, FlushPlan
<1>11. Phase(DispatchPlan) = "alloc"
  <2>1. PICK t \in AfterAlloc : t = Cons("blockingWait", Cons("kernel", Cons("write", <<>>)))
    BY DEF AfterAlloc, AfterBlockingWait, AfterKernel
  <2>2. DispatchPlan = Cons("alloc", t) BY ONLY <2>1 DEF DispatchPlan
  <2> QED BY ONLY <1>5, <2>2
<1> QED BY ONLY <1>1, <1>3, <1>4, <1>5, <1>6, <1>7, <1>9, <1>10, <1>11

(* The phase tells the step that is next, and who holds an index. *)
LEMMA PhaseOfPlan ==
  ASSUME NEW s, Planned(s)
  PROVE  /\ Phase(s) \in Phases /\ (s = <<>> <=> Phase(s) = "idle")
         /\ HoldPlan(s) <=> Phase(s) \in InSignal \cup InWrite
         /\ (s # <<>> /\ Head(s) = "copy") <=> Phase(s) = "copy"
         /\ \A x \in {"alloc", "nextChunk", "blockingWait", "kernel", "copyWait", "waitCurrent"} :
              (s # <<>> /\ Head(s) = x) => Phase(s) = x
         /\ (s # <<>> /\ Head(s) = "fence") => \/ Phase(s) = "fenceCopy" /\ Tail(s) = CopyPlan
                                               \/ Phase(s) = "fenceFlush" /\ Tail(s) = FlushPlan
         /\ (s # <<>> /\ Head(s) = "barrier") =>
              \E y \in Endings : /\ Phase(s) = Ending(y, "barrierLast", "barrierCopy", "barrierFlush")
                                 /\ Phase(Tail(s)) = Ending(y, "reserveLast", "reserveCopy", "reserveFlush")
         /\ (s # <<>> /\ Head(s) = "reserve") =>
              \/ \E y \in Endings : /\ Phase(s) = Ending(y, "reserveLast", "reserveCopy", "reserveFlush")
                                    /\ Phase(Tail(s)) = Ending(y, "signalLast", "signalCopy", "signalFlush")
              \/ Phase(s) = "reserveWait" /\ Phase(Tail(s)) = "writeWait"
              \/ Phase(s) = "reserveChunk" /\ Phase(Tail(s)) = "writeChunk"
         /\ (s # <<>> /\ Head(s) = "signal") =>
              \/ \E y \in Endings : /\ Phase(s) = Ending(y, "signalLast", "signalCopy", "signalFlush")
                                    /\ Phase(Tail(s)) = Ending(y, "writeLast", "writeCopy", "writeFlush")
              \/ Phase(s) = "signalDma" /\ Phase(Tail(s)) = "copy"
         /\ (s # <<>> /\ Head(s) = "write") =>
              \/ \E y \in Endings : /\ Phase(s) = Ending(y, "writeLast", "writeCopy", "writeFlush")
                                    /\ Phase(Tail(s)) = Ending(y, "idle", "copyWait", "waitCurrent")
              \/ Phase(s) = "writeWait" /\ Phase(Tail(s)) = "kernel"
              \/ Phase(s) = "writeChunk" /\ Phase(Tail(s)) = "nextChunk"
<1> DEFINE Parts ==
         /\ Phase(s) \in Phases /\ (s = <<>> <=> Phase(s) = "idle")
         /\ HoldPlan(s) <=> Phase(s) \in InSignal \cup InWrite
         /\ (s # <<>> /\ Head(s) = "copy") <=> Phase(s) = "copy"
         /\ \A x \in {"alloc", "nextChunk", "blockingWait", "kernel", "copyWait", "waitCurrent"} :
              (s # <<>> /\ Head(s) = x) => Phase(s) = x
         /\ (s # <<>> /\ Head(s) = "fence") => \/ Phase(s) = "fenceCopy" /\ Tail(s) = CopyPlan
                                               \/ Phase(s) = "fenceFlush" /\ Tail(s) = FlushPlan
         /\ (s # <<>> /\ Head(s) = "barrier") =>
              \E y \in Endings : /\ Phase(s) = Ending(y, "barrierLast", "barrierCopy", "barrierFlush")
                                 /\ Phase(Tail(s)) = Ending(y, "reserveLast", "reserveCopy", "reserveFlush")
         /\ (s # <<>> /\ Head(s) = "reserve") =>
              \/ \E y \in Endings : /\ Phase(s) = Ending(y, "reserveLast", "reserveCopy", "reserveFlush")
                                    /\ Phase(Tail(s)) = Ending(y, "signalLast", "signalCopy", "signalFlush")
              \/ Phase(s) = "reserveWait" /\ Phase(Tail(s)) = "writeWait"
              \/ Phase(s) = "reserveChunk" /\ Phase(Tail(s)) = "writeChunk"
         /\ (s # <<>> /\ Head(s) = "signal") =>
              \/ \E y \in Endings : /\ Phase(s) = Ending(y, "signalLast", "signalCopy", "signalFlush")
                                    /\ Phase(Tail(s)) = Ending(y, "writeLast", "writeCopy", "writeFlush")
              \/ Phase(s) = "signalDma" /\ Phase(Tail(s)) = "copy"
         /\ (s # <<>> /\ Head(s) = "write") =>
              \/ \E y \in Endings : /\ Phase(s) = Ending(y, "writeLast", "writeCopy", "writeFlush")
                                    /\ Phase(Tail(s)) = Ending(y, "idle", "copyWait", "waitCurrent")
              \/ Phase(s) = "writeWait" /\ Phase(Tail(s)) = "kernel"
              \/ Phase(s) = "writeChunk" /\ Phase(Tail(s)) = "nextChunk"
<1>0. ASSUME NEW y \in Endings, NEW a, NEW b, NEW c PROVE Ending(y, a, b, c) \in {a, b, c} BY DEF Ending
<1>1. CASE s = <<>>
  BY <1>1, PhaseTable DEF HoldPlan, Phases, InFence, InBarrier, InReserve, InSignal, InWrite
<1>2. ASSUME s # <<>> PROVE Parts
  <2>0. PICK a, t : a = Head(s) /\ t = Tail(s) /\ s = Cons(a, t) /\ a \in Steps BY <1>2, PlanHeads
  <2>1. CASE a \in {"alloc", "nextChunk"}
    <3>1. t \in AfterAlloc BY <1>2, <2>0, <2>1, PlanHeads
    <3>2. Phase(s) = a BY ONLY <2>0, <2>1, <3>1, PhaseTable
    <3> QED
      BY ONLY <1>2, <2>0, <2>1, <3>2
         DEF HoldPlan, Phases, InFence, InBarrier, InReserve, InSignal, InWrite
  <2>2. CASE a \in {"blockingWait", "kernel"}
    <3>1. (a = "blockingWait" /\ t \in AfterBlockingWait) \/ (a = "kernel" /\ t \in AfterKernel)
      BY <1>2, <2>0, <2>2, PlanHeads
    <3>2. Phase(s) = a BY ONLY <2>0, <2>2, <3>1, PhaseTable
    <3> QED
      BY ONLY <1>2, <2>0, <2>2, <3>2
         DEF HoldPlan, Phases, InFence, InBarrier, InReserve, InSignal, InWrite
  <2>3. CASE a \in {"copyWait", "copy", "waitCurrent"}
    <3>1. t \in StepSeqs BY <1>2, <2>0, <2>3, PlanHeads, PlansAreSequences, ConsSteps
    <3>2. Phase(s) = a BY ONLY <2>0, <2>3, <3>1, PhaseOfCons, StepNames
    <3> QED
      BY ONLY <1>2, <2>0, <2>3, <3>2
         DEF HoldPlan, Phases, InFence, InBarrier, InReserve, InSignal, InWrite
  <2>4. CASE a = "fence"
    <3>1. t \in AfterFence BY <1>2, <2>0, <2>4, PlanHeads
    <3>2. (t = CopyPlan /\ Phase(s) = "fenceCopy") \/ (t = FlushPlan /\ Phase(s) = "fenceFlush")
      <4>1. s = Cons("fence", t) BY ONLY <2>0, <2>4
      <4>2. t = CopyPlan \/ t = FlushPlan BY ONLY <3>1 DEF AfterFence
      <4>3. Phase(Cons("fence", CopyPlan)) = "fenceCopy" /\ Phase(Cons("fence", FlushPlan)) = "fenceFlush"
        BY ONLY PhaseTable
      <4> QED BY ONLY <4>1, <4>2, <4>3
    <3>3. ~HoldPlan(s) BY ONLY <2>0, <2>4 DEF HoldPlan
    <3>4. CASE t = CopyPlan /\ Phase(s) = "fenceCopy"
      BY ONLY <1>2, <2>0, <2>4, <3>3, <3>4
         DEF Phases, InFence, InBarrier, InReserve, InSignal, InWrite
    <3>5. CASE t = FlushPlan /\ Phase(s) = "fenceFlush"
      BY ONLY <1>2, <2>0, <2>4, <3>3, <3>5
         DEF Phases, InFence, InBarrier, InReserve, InSignal, InWrite
    <3> QED BY ONLY <3>2, <3>4, <3>5
  <2>5. CASE a = "barrier"
    <3>1. PICK y \in Endings : t = Cons("reserve", Cons("signal", Cons("write", y)))
      BY <1>2, <2>0, <2>5, PlanHeads DEF AfterBarrier
    <3>2. Phase(s) = Ending(y, "barrierLast", "barrierCopy", "barrierFlush")
          /\ Phase(t) = Ending(y, "reserveLast", "reserveCopy", "reserveFlush")
      BY ONLY <2>0, <2>5, <3>1, EndingPhases, y \in Endings
    <3>3. Phase(s) \in {"barrierLast", "barrierCopy", "barrierFlush"} BY ONLY <3>2, <1>0, y \in Endings
    <3> QED
      BY ONLY <1>2, <2>0, <2>5, <3>2, <3>3, y \in Endings
         DEF HoldPlan, Phases, InFence, InBarrier, InReserve, InSignal, InWrite
  <2>6. CASE a = "reserve"
    <3>1. t \in AfterReserve BY <1>2, <2>0, <2>6, PlanHeads
    <3>2. CASE \E y \in Endings : t = Cons("signal", Cons("write", y))
      <4>1. PICK y \in Endings : t = Cons("signal", Cons("write", y)) BY <3>2
      <4>2. Phase(s) = Ending(y, "reserveLast", "reserveCopy", "reserveFlush")
            /\ Phase(t) = Ending(y, "signalLast", "signalCopy", "signalFlush")
        BY ONLY <2>0, <2>6, <4>1, EndingPhases, y \in Endings
      <4>3. Phase(s) \in {"reserveLast", "reserveCopy", "reserveFlush"} BY ONLY <4>2, <1>0, y \in Endings
      <4> QED
        BY ONLY <1>2, <2>0, <2>6, <4>2, <4>3, y \in Endings
           DEF HoldPlan, Phases, InFence, InBarrier, InReserve, InSignal, InWrite
    <3>3. CASE \E u \in AfterAlloc : t = Cons("write", Cons("nextChunk", u))
      <4>1. Phase(s) = "reserveChunk" /\ Phase(t) = "writeChunk"
        <5>1. s = Cons("reserve", t) BY ONLY <2>0, <2>6
        <5>2. \A u \in AfterAlloc : Phase(Cons("reserve", Cons("write", Cons("nextChunk", u)))) = "reserveChunk" /\ Phase(Cons("write", Cons("nextChunk", u))) = "writeChunk"
          BY ONLY PhaseTable
        <5> QED BY ONLY <5>1, <5>2, <3>3
      <4>2. ~HoldPlan(s) BY ONLY <2>0, <2>6 DEF HoldPlan
      <4> QED
        BY ONLY <1>2, <2>0, <2>6, <4>1, <4>2
           DEF Phases, InFence, InBarrier, InReserve, InSignal, InWrite
    <3>4. CASE \E u \in AfterBlockingWait : t = Cons("write", u)
      <4>1. Phase(s) = "reserveWait" /\ Phase(t) = "writeWait"
        <5>1. s = Cons("reserve", t) BY ONLY <2>0, <2>6
        <5>2. \A u \in AfterBlockingWait : Phase(Cons("reserve", Cons("write", u))) = "reserveWait" /\ Phase(Cons("write", u)) = "writeWait"
          BY ONLY PhaseTable
        <5> QED BY ONLY <5>1, <5>2, <3>4
      <4>2. ~HoldPlan(s) BY ONLY <2>0, <2>6 DEF HoldPlan
      <4> QED
        BY ONLY <1>2, <2>0, <2>6, <4>1, <4>2
           DEF Phases, InFence, InBarrier, InReserve, InSignal, InWrite
    <3> QED BY ONLY <3>1, <3>2, <3>3, <3>4 DEF AfterReserve
  <2>7. CASE a = "signal"
    <3>0. Cons("copy", <<>>) \in StepSeqs BY ConsSteps, StepNames
    <3>1. t \in AfterSignal /\ t \in StepSeqs BY <1>2, <2>0, <2>7, PlanHeads, PlansAreSequences
    <3>2. CASE t = Cons("copy", <<>>)
      <4>1. Phase(s) = "signalDma" /\ Phase(t) = "copy"
        <5>1. s = Cons("signal", t) BY ONLY <2>0, <2>7
        <5>2. Phase(Cons("signal", Cons("copy", <<>>))) = "signalDma" /\ Phase(Cons("copy", <<>>)) = "copy"
          BY ONLY PhaseTable
        <5> QED BY ONLY <5>1, <5>2, <3>2
      <4>2. ~HoldPlan(s) BY ONLY <2>0, <2>7, <3>2 DEF HoldPlan
      <4> QED
        BY ONLY <1>2, <2>0, <2>7, <4>1, <4>2
           DEF Phases, InFence, InBarrier, InReserve, InSignal, InWrite
    <3>3. CASE t # Cons("copy", <<>>)
      <4>1. PICK y \in Endings : t = Cons("write", y) BY ONLY <3>1, <3>3 DEF AfterSignal
      <4>2. Phase(s) = Ending(y, "signalLast", "signalCopy", "signalFlush")
            /\ Phase(t) = Ending(y, "writeLast", "writeCopy", "writeFlush")
        BY ONLY <2>0, <2>7, <4>1, EndingPhases, y \in Endings
      <4>3. Phase(s) \in {"signalLast", "signalCopy", "signalFlush"} BY ONLY <4>2, <1>0, y \in Endings
      <4>4. s # Cons("signal", Cons("copy", <<>>)) BY ONLY <2>0, <3>0, <3>1, <3>3, ConsSteps, StepNames
      <4>5. HoldPlan(s) BY ONLY <1>2, <2>0, <2>7, <4>4 DEF HoldPlan
      <4> QED
        BY ONLY <1>2, <2>0, <2>7, <4>2, <4>3, <4>5, y \in Endings
           DEF Phases, InFence, InBarrier, InReserve, InSignal, InWrite
    <3> QED BY ONLY <3>2, <3>3
  <2>8. CASE a = "write"
    <3>1. t \in AfterWrite BY <1>2, <2>0, <2>8, PlanHeads
    <3>2. CASE t \in Endings
      <4>1. PICK y \in Endings : t = y BY <3>2
      <4>2. Phase(s) = Ending(y, "writeLast", "writeCopy", "writeFlush")
        BY ONLY <2>0, <2>8, <4>1, EndingPhases, y \in Endings
      <4>3. Phase(s) \in {"writeLast", "writeCopy", "writeFlush"} BY ONLY <4>2, <1>0, y \in Endings
      <4>4. Phase(t) = Ending(y, "idle", "copyWait", "waitCurrent")
        BY ONLY <4>1, PhaseTable, EndingIs, y \in Endings DEF Endings
      <4> QED
        BY ONLY <1>2, <2>0, <2>8, <4>2, <4>3, <4>4, y \in Endings
           DEF HoldPlan, Phases, InFence, InBarrier, InReserve, InSignal, InWrite
    <3>3. CASE \E u \in AfterAlloc : t = Cons("nextChunk", u)
      <4>1. PICK u \in AfterAlloc : t = Cons("nextChunk", u) BY <3>3
      <4>2. Phase(s) = "writeChunk" /\ Phase(t) = "nextChunk"
        <5>1. s = Cons("write", t) BY ONLY <2>0, <2>8
        <5>2. Phase(Cons("write", Cons("nextChunk", u))) = "writeChunk" /\ Phase(Cons("nextChunk", u)) = "nextChunk"
          BY ONLY PhaseTable, u \in AfterAlloc
        <5> QED BY ONLY <5>1, <5>2, <4>1
      <4>3. HoldPlan(s) BY ONLY <1>2, <2>0, <2>8 DEF HoldPlan
      <4> QED
        BY ONLY <1>2, <2>0, <2>8, <4>2, <4>3
           DEF Phases, InFence, InBarrier, InReserve, InSignal, InWrite
    <3>4. CASE t \in AfterBlockingWait
      <4>1. Phase(s) = "writeWait" /\ Phase(t) = "kernel" BY ONLY <2>0, <2>8, <3>4, PhaseTable
      <4> QED
        BY ONLY <1>2, <2>0, <2>8, <4>1
           DEF HoldPlan, Phases, InFence, InBarrier, InReserve, InSignal, InWrite
    <3> QED BY ONLY <3>1, <3>2, <3>3, <3>4 DEF AfterWrite
  <2> HIDE DEF Parts
  <2> QED BY ONLY <2>0, <2>1, <2>2, <2>3, <2>4, <2>5, <2>6, <2>7, <2>8 DEF Steps
<1> QED BY <1>1, <1>2

----------------------------------------
(* The order of a list: from the place after the current one round to it. *)

(* Signal s comes after r in the list whose current place is c. *)
Follows(l, c, r, s) == \E i \in 1..Len(l) : i # c /\ l[i] = r /\ l[NextId(i, l)] = s

(* No signal is twice in a list. *)
Distinct(l) == \A i, j \in 1..Len(l) : l[i] = l[j] => i = j

(* The place after a place of a list, round it. *)
LEMMA NextIdIs ==
  ASSUME NEW l, Len(l) \in Nat \ {0}, NEW i \in 1..Len(l)
  PROVE  /\ NextId(i, l) = IF i = Len(l) THEN 1 ELSE i + 1
         /\ NextId(i, l) \in 1..Len(l)
<1>1. PICK n \in Nat \ {0} : n = Len(l) OBVIOUS
<1>2. i \in 1..n /\ (i % n) + 1 = (IF i = n THEN 1 ELSE i + 1) /\ (i % n) + 1 \in 1..n BY <1>1
<1> QED BY <1>1, <1>2 DEF NextId

(* A new signal after the current one. *)
LEMMA GrownOrder ==
  ASSUME NEW l \in Seq(Pool), NEW c \in 1..Len(l), NEW x \in Pool,
         NEW i, i = NextId(c, l), NEW m, m = InsertAt(l, i, x)
  PROVE  /\ m[i] = x
         /\ \A r, s : Follows(l, c, r, s) => Follows(m, i, r, s)
         /\ \A r, s : Follows(m, i, r, s) => Follows(l, c, r, s) \/ (r = l[c] /\ s = x)
         /\ Follows(m, i, l[c], x)
         /\ \A s : s \in Range(m) <=> (s \in Range(l) \/ s = x)
         /\ Distinct(l) /\ x \notin Range(l) => Distinct(m)
<1>1. PICK n \in Nat \ {0} : n = Len(l) BY c \in 1..Len(l)
<1>2. c \in 1..n /\ c \in Nat BY <1>1
<1>3. i = (IF c = n THEN 1 ELSE c + 1) /\ i \in 1..n BY <1>1, NextIdIs
<1>4. /\ m \in Seq(Pool) /\ Len(m) = n + 1
      /\ \A j \in 1..n + 1 : m[j] = IF j < i THEN l[j] ELSE IF j = i THEN x ELSE l[j - 1]
  <2>0. i \in 1..Len(l) BY <1>1, <1>3
  <2>1. PICK k \in 1..Len(l) : k = i BY <2>0
  <2>2. /\ InsertAt(l, k, x) \in Seq(Pool) /\ Len(InsertAt(l, k, x)) = Len(l) + 1
        /\ \A j \in 1..Len(l) + 1 : InsertAt(l, k, x)[j] =
              IF j < k THEN l[j] ELSE IF j = k THEN x ELSE l[j - 1]
    <3>1. \A y \in Seq(Pool), t \in Pool : \A p \in 1..Len(y) :
             /\ InsertAt(y, p, t) \in Seq(Pool) /\ Len(InsertAt(y, p, t)) = Len(y) + 1
             /\ \A j \in 1..Len(y) + 1 : InsertAt(y, p, t)[j] =
                  IF j < p THEN y[j] ELSE IF j = p THEN t ELSE y[j - 1]
      BY Inserted
    <3> QED BY ONLY <3>1, l \in Seq(Pool), k \in 1..Len(l), x \in Pool
  <2>3. m = InsertAt(l, k, x) BY ONLY <2>1, m = InsertAt(l, i, x)
  <2>4. /\ m \in Seq(Pool) /\ Len(m) = Len(l) + 1
        /\ \A j \in 1..Len(l) + 1 : m[j] =
              IF j < k THEN l[j] ELSE IF j = k THEN x ELSE l[j - 1]
    BY ONLY <2>2, <2>3
  <2> QED BY ONLY <2>1, <2>4, <1>1
<1>5. \A j \in 1..n : NextId(j, l) = IF j = n THEN 1 ELSE j + 1 BY ONLY <1>1, NextIdIs
<1>6. \A j \in 1..n + 1 : NextId(j, m) = IF j = n + 1 THEN 1 ELSE j + 1
  <2>1. Len(m) \in Nat \ {0} BY <1>4
  <2> QED BY ONLY <1>4, <2>1, NextIdIs
<1>7. m[i] = x
  <2>1. i \in 1..n + 1 /\ ~(i < i) BY <1>3
  <2> QED BY ONLY <2>1, <1>4
<1>8. ASSUME NEW j \in 1..n
      PROVE  \E k \in 1..n + 1 : k # i /\ m[k] = l[j] /\ (j # c => m[NextId(k, m)] = l[NextId(j, l)])
                                 /\ (j = c => m[NextId(k, m)] = x)
  <2>1. CASE j < i
    <3>1. j \in 1..n + 1 /\ m[j] = l[j] /\ j # i BY <2>1, <1>3, <1>4
    <3>2. j # n + 1 /\ NextId(j, m) = j + 1 /\ j + 1 \in 1..n + 1 BY <1>6
    <3>3. CASE j = c BY <3>1, <3>2, <3>3, <1>2, <1>3, <1>4, <1>7, <2>1
    <3>4. CASE j # c
      <4>1. c # n /\ j + 1 < i /\ j # n /\ NextId(j, l) = j + 1 BY <3>4, <2>1, <1>2, <1>3, <1>5
      <4>2. m[j + 1] = l[j + 1] BY <4>1, <3>2, <1>4
      <4> QED BY <3>1, <3>2, <3>4, <4>1, <4>2
    <3> QED BY <3>3, <3>4
  <2>2. CASE j >= i
    <3>1. j + 1 \in 1..n + 1 /\ m[j + 1] = l[j] /\ j + 1 # i
      <4>1. j + 1 \in 1..n + 1 /\ ~(j + 1 < i) /\ j + 1 # i /\ j + 1 - 1 = j BY <2>2, <1>3
      <4> QED BY <4>1, <1>4
    <3>2. CASE j = c
      <4>1. c = n /\ i = 1 BY <3>2, <2>2, <1>2, <1>3
      <4>2. NextId(j + 1, m) = i BY <4>1, <3>2, <3>1, <1>6
      <4> QED BY <3>1, <3>2, <4>2, <1>7
    <3>3. CASE j # c
      <4>1. CASE j = n
        <5>1. NextId(j, l) = 1 /\ NextId(j + 1, m) = 1 /\ c # n /\ 1 < i /\ 1 \in 1..n + 1
          BY <4>1, <3>3, <3>1, <1>2, <1>3, <1>5, <1>6
        <5>2. m[1] = l[1] BY <5>1, <1>4
        <5> QED BY <3>1, <3>3, <5>1, <5>2
      <4>2. CASE j # n
        <5>1. NextId(j, l) = j + 1 /\ NextId(j + 1, m) = j + 1 + 1 /\ j + 1 + 1 \in 1..n + 1
              /\ ~(j + 1 + 1 < i) /\ j + 1 + 1 # i /\ j + 1 + 1 - 1 = j + 1
          BY <4>2, <2>2, <3>1, <1>3, <1>5, <1>6
        <5>2. m[j + 1 + 1] = l[j + 1] BY <5>1, <1>4
        <5> QED BY <3>1, <3>3, <5>1, <5>2
      <4> QED BY <4>1, <4>2
    <3> QED BY <3>2, <3>3
  <2> QED BY <2>1, <2>2, <1>3
<1>9. ASSUME NEW k \in 1..n + 1, k # i
      PROVE  \E j \in 1..n : m[k] = l[j] /\ (j # c => m[NextId(k, m)] = l[NextId(j, l)])
                             /\ (j = c => m[NextId(k, m)] = x) /\ k = (IF j < i THEN j ELSE j + 1)
  <2>1. PICK j \in 1..n : k = IF j < i THEN j ELSE j + 1
    <3>1. CASE k < i BY <3>1, <1>3
    <3>2. CASE k > i
      <4>1. k - 1 \in 1..n /\ ~(k - 1 < i) /\ k = k - 1 + 1 BY <3>2, <1>3
      <4> QED BY <4>1
    <3> QED BY <3>1, <3>2, <1>9, <1>3
  <2>2. m[k] = l[j]
    <3>1. k < i \/ (~(k < i) /\ k # i /\ k - 1 = j) BY <2>1, <1>9
    <3>2. CASE k < i BY <3>2, <2>1, <1>4, <1>3
    <3>3. CASE ~(k < i) /\ k # i /\ k - 1 = j BY <3>3, <1>4
    <3> QED BY <3>1, <3>2, <3>3
  <2>3. (j # c => m[NextId(k, m)] = l[NextId(j, l)]) /\ (j = c => m[NextId(k, m)] = x)
    <3>1. CASE j < i
      <4>1. k = j /\ NextId(k, m) = j + 1 /\ j + 1 \in 1..n + 1 BY <3>1, <2>1, <1>6
      <4>2. CASE j = c
        <5>1. c # n /\ j + 1 = i BY <4>2, <3>1, <1>2, <1>3
        <5> QED BY <4>1, <4>2, <5>1, <1>7
      <4>3. CASE j # c
        <5>1. c # n /\ j + 1 < i /\ j # n /\ NextId(j, l) = j + 1 BY <4>3, <3>1, <1>2, <1>3, <1>5
        <5>2. m[j + 1] = l[j + 1] BY <5>1, <4>1, <1>4
        <5> QED BY <4>1, <4>3, <5>1, <5>2
      <4> QED BY <4>2, <4>3
    <3>2. CASE ~(j < i)
      <4>1. k = j + 1 /\ NextId(k, m) = IF j = n THEN 1 ELSE j + 1 + 1 BY <3>2, <2>1, <1>6
      <4>2. CASE j = c
        <5>1. c = n /\ i = 1 BY <4>2, <3>2, <1>2, <1>3
        <5> QED BY <4>1, <4>2, <5>1, <1>7
      <4>3. CASE j # c /\ j = n
        <5>1. NextId(j, l) = 1 /\ c # n /\ 1 < i /\ 1 \in 1..n + 1 BY <4>3, <1>2, <1>3, <1>5
        <5>2. m[1] = l[1] BY <5>1, <1>4
        <5> QED BY <4>1, <4>3, <5>1, <5>2
      <4>4. CASE j # c /\ j # n
        <5>1. NextId(j, l) = j + 1 /\ j + 1 + 1 \in 1..n + 1
              /\ ~(j + 1 + 1 < i) /\ j + 1 + 1 # i /\ j + 1 + 1 - 1 = j + 1
          BY <4>4, <3>2, <1>3, <1>5
        <5>2. m[j + 1 + 1] = l[j + 1] BY <5>1, <1>4
        <5> QED BY <4>1, <4>4, <5>1, <5>2
      <4> QED BY <4>2, <4>3, <4>4
    <3> QED BY <3>1, <3>2
  <2> QED BY <2>1, <2>2, <2>3
<1>10. \A r, s : Follows(l, c, r, s) => Follows(m, i, r, s) BY ONLY <1>1, <1>4, <1>8 DEF Follows
<1>11. Follows(m, i, l[c], x) BY ONLY <1>2, <1>4, <1>8 DEF Follows
<1>12. \A r, s : Follows(m, i, r, s) => Follows(l, c, r, s) \/ (r = l[c] /\ s = x)
  BY ONLY <1>1, <1>4, <1>9 DEF Follows
<1>13. \A s : s \in Range(m) <=> (s \in Range(l) \/ s = x)
  <2>1. DOMAIN l = 1..n /\ DOMAIN m = 1..n + 1 /\ i \in 1..n + 1 BY <1>1, <1>3, <1>4
  <2>2. ASSUME NEW j \in 1..n PROVE l[j] \in Range(m) BY ONLY <2>1, <1>8, j \in 1..n DEF Range
  <2>3. ASSUME NEW k \in 1..n + 1 PROVE m[k] \in Range(l) \/ m[k] = x
    BY ONLY <2>1, <1>7, <1>9, k \in 1..n + 1 DEF Range
  <2>4. x \in Range(m) BY ONLY <2>1, <1>7 DEF Range
  <2>5. \A s : s \in Range(m) => \E k \in 1..n + 1 : s = m[k] BY ONLY <2>1 DEF Range
  <2>6. \A s : s \in Range(l) => \E k \in 1..n : s = l[k] BY ONLY <2>1 DEF Range
  <2> QED BY ONLY <2>2, <2>3, <2>4, <2>5, <2>6
<1>14. ASSUME Distinct(l), x \notin Range(l) PROVE Distinct(m)
  <2>1. DOMAIN l = 1..n BY <1>1
  <2>2. \A j \in 1..n : l[j] # x BY ONLY <2>1, <1>14 DEF Range
  <2>3. ASSUME NEW a \in 1..n + 1, NEW b \in 1..n + 1, m[a] = m[b] PROVE a = b
    <3>1. CASE a = i \/ b = i BY ONLY <3>1, <2>2, <2>3, <1>7, <1>9, a \in 1..n + 1, b \in 1..n + 1
    <3>2. CASE a # i /\ b # i
      <4>1. PICK j \in 1..n : m[a] = l[j] /\ a = (IF j < i THEN j ELSE j + 1)
        BY ONLY <3>2, <1>9, a \in 1..n + 1
      <4>2. PICK k \in 1..n : m[b] = l[k] /\ b = (IF k < i THEN k ELSE k + 1)
        BY ONLY <3>2, <1>9, b \in 1..n + 1
      <4>3. j = k BY ONLY <4>1, <4>2, <2>3, <1>14, <1>1, j \in 1..n, k \in 1..n DEF Distinct
      <4> QED BY ONLY <4>1, <4>2, <4>3
    <3> QED BY <3>1, <3>2
  <2> QED BY ONLY <2>3, <1>4 DEF Distinct
<1> QED BY ONLY <1>7, <1>10, <1>11, <1>12, <1>13, <1>14

(* The next signal is used again, or another one in its place. *)
LEMMA ReusedOrder ==
  ASSUME NEW l \in Seq(Pool), NEW c \in 1..Len(l), NEW i, i = NextId(c, l),
         NEW m \in Seq(Pool), Len(m) = Len(l), \A j \in 1..Len(l) : j # i => m[j] = l[j]
  PROVE  /\ \A r, s : Follows(l, c, r, s) => Follows(m, i, r, s) \/ r = l[i]
         /\ \A r, s : Follows(m, i, r, s) => Follows(l, c, r, s) \/ (r = l[c] /\ s = m[i])
         /\ \A s : s \in Range(m) => s \in Range(l) \/ s = m[i]
         /\ \A s : s \in Range(l) => s \in Range(m) \/ s = l[i]
         /\ m[i] \in Range(m) /\ l[i] \in Range(l)
         /\ Distinct(l) /\ (m[i] = l[i] \/ m[i] \notin Range(l)) => Distinct(m)
<1>1. PICK n \in Nat \ {0} : n = Len(l) /\ n = Len(m) BY c \in 1..Len(l)
<1>2. c \in 1..n BY <1>1
<1>3. i = (IF c = n THEN 1 ELSE c + 1) /\ i \in 1..n BY <1>1, NextIdIs
<1>4. \A j \in 1..n : NextId(j, l) = (IF j = n THEN 1 ELSE j + 1) /\ NextId(j, m) = NextId(j, l)
                      /\ NextId(j, l) \in 1..n
  BY ONLY <1>1, NextIdIs
<1>5. \A j \in 1..n : NextId(j, l) = i => j = c BY <1>2, <1>3, <1>4
<1>6. \A j \in 1..n : j # i => m[j] = l[j] BY <1>1
<1>7. \A r, s : Follows(l, c, r, s) => Follows(m, i, r, s) \/ r = l[i]
  BY ONLY <1>1, <1>4, <1>5, <1>6 DEF Follows
<1>8. \A r, s : Follows(m, i, r, s) => Follows(l, c, r, s) \/ (r = l[c] /\ s = m[i])
  <2> SUFFICES ASSUME NEW r, NEW s, Follows(m, i, r, s), ~(r = l[c] /\ s = m[i])
               PROVE  Follows(l, c, r, s)
    OBVIOUS
  <2>1. PICK j \in 1..n : j # i /\ m[j] = r /\ m[NextId(j, m)] = s
    BY ONLY <1>1, Follows(m, i, r, s) DEF Follows
  <2>2. j # c
    <3>1. NextId(c, m) = i BY <1>2, <1>4
    <3> QED BY <2>1, <3>1, <1>2, <1>6
  <2>3. NextId(j, l) # i /\ NextId(j, l) \in 1..n BY <2>2, <1>4, <1>5
  <2>4. l[j] = r /\ l[NextId(j, l)] = s BY ONLY <2>1, <2>3, <1>4, <1>6, j \in 1..n
  <2> QED BY ONLY <2>2, <2>4, <1>1, j \in 1..n DEF Follows
<1>9. DOMAIN l = 1..n /\ DOMAIN m = 1..n BY <1>1
<1>10. /\ \A s : s \in Range(m) => s \in Range(l) \/ s = m[i]
       /\ \A s : s \in Range(l) => s \in Range(m) \/ s = l[i]
       /\ m[i] \in Range(m) /\ l[i] \in Range(l)
  BY ONLY <1>3, <1>6, <1>9 DEF Range
<1>11. ASSUME Distinct(l), m[i] = l[i] \/ m[i] \notin Range(l) PROVE Distinct(m)
  <2>1. m[i] = l[i] \/ \A j \in 1..n : l[j] # m[i] BY ONLY <1>9, <1>11 DEF Range
  <2>2. \A a, b \in 1..n : l[a] = l[b] => a = b BY ONLY <1>1, <1>11 DEF Distinct
  <2>3. \A a, b \in 1..n : m[a] = m[b] => a = b BY ONLY <1>3, <1>6, <2>1, <2>2
  <2> QED BY ONLY <1>1, <2>3 DEF Distinct
<1> QED BY ONLY <1>7, <1>8, <1>10, <1>11

(* One place back. *)
LEMMA BackOrder ==
  ASSUME NEW l \in Seq(Pool), NEW c \in 1..Len(l), NEW k, k = IF c = 1 THEN Len(l) ELSE c - 1
  PROVE  /\ k \in 1..Len(l)
         /\ \A r, s : Follows(l, c, r, s) => Follows(l, k, r, s) \/ s = l[c]
         /\ \A r, s : Follows(l, k, r, s) => Follows(l, c, r, s) \/ r = l[c]
<1>1. PICK n \in Nat \ {0} : n = Len(l) BY c \in 1..Len(l)
<1>2. c \in 1..n /\ k = (IF c = 1 THEN n ELSE c - 1) /\ k \in 1..n BY <1>1
<1>3. NextId(k, l) = c BY <1>1, <1>2, NextIdIs
<1> QED BY ONLY <1>1, <1>2, <1>3 DEF Follows

(* What the order of a list is worth when no signal is in it twice. *)
LEMMA OrderFacts ==
  ASSUME NEW l \in Seq(Pool), Len(l) \in Nat \ {0, 1, 2}, NEW c \in 1..Len(l), Distinct(l)
  PROVE  /\ l[c] \in Range(l) /\ l[NextId(c, l)] # l[c]
         /\ \A r, s : Follows(l, c, r, s) => r \in Range(l) /\ s \in Range(l) /\ r # s /\ r # l[c]
         /\ \A s : Follows(l, c, l[NextId(c, l)], s) => s = l[NextId(NextId(c, l), l)]
         /\ \A r, s : Follows(l, c, r, s) => s # l[NextId(c, l)]
<1>1. PICK n \in Nat \ {0, 1, 2} : n = Len(l) OBVIOUS
<1>2. c \in 1..n /\ DOMAIN l = 1..n BY <1>1
<1>3. \A j \in 1..n : NextId(j, l) = (IF j = n THEN 1 ELSE j + 1) /\ NextId(j, l) \in 1..n /\ NextId(j, l) # j
  <2>1. Len(l) \in Nat \ {0} BY <1>1
  <2>2. \A j \in 1..n : NextId(j, l) = (IF j = n THEN 1 ELSE j + 1) /\ NextId(j, l) \in 1..n
    BY ONLY <1>1, <2>1, NextIdIs
  <2> QED BY <2>2
<1>4. \A a, b \in 1..n : l[a] = l[b] => a = b BY ONLY <1>1, Distinct(l) DEF Distinct
<1>5. l[c] \in Range(l) /\ l[NextId(c, l)] # l[c] BY ONLY <1>2, <1>3, <1>4 DEF Range
<1>6. \A r, s : Follows(l, c, r, s) => r \in Range(l) /\ s \in Range(l) /\ r # s /\ r # l[c]
  BY ONLY <1>1, <1>2, <1>3, <1>4 DEF Follows, Range
<1>7. \A s : Follows(l, c, l[NextId(c, l)], s) => s = l[NextId(NextId(c, l), l)]
  BY ONLY <1>1, <1>2, <1>3, <1>4 DEF Follows
<1>8. \A r, s : Follows(l, c, r, s) => s # l[NextId(c, l)]
  <2>1. ASSUME NEW j \in 1..n, NEW k \in 1..n, NextId(j, l) = NextId(k, l) PROVE j = k
    <3>1. (IF j = n THEN 1 ELSE j + 1) = (IF k = n THEN 1 ELSE k + 1) BY ONLY <1>3, <2>1
    <3> QED BY <3>1
  <2> QED BY ONLY <1>1, <1>2, <1>3, <1>4, <2>1 DEF Follows
<1> QED BY ONLY <1>5, <1>6, <1>7, <1>8

(* What holds of a signal and then of the ones after it holds of the
   current one. *)
LEMMA OrderEnds ==
  ASSUME NEW l \in Seq(Pool), NEW c \in 1..Len(l), NEW B,
         \A r, s : Follows(l, c, r, s) /\ r \in B => s \in B
  PROVE  \A r \in Range(l) : r \in B => l[c] \in B
<1>1. PICK n \in Nat \ {0} : n = Len(l) BY c \in 1..Len(l)
<1>2. c \in 1..n /\ DOMAIN l = 1..n BY <1>1
<1> DEFINE place(d) == IF d < c THEN c - d ELSE c - d + n
<1>3. \A d \in 0..n - 1 : place(d) \in 1..n /\ (d # 0 => place(d) # c /\ NextId(place(d), l) = place(d - 1) /\ d - 1 \in 0..n - 1)
  <2> SUFFICES ASSUME NEW d \in 0..n - 1
               PROVE  place(d) \in 1..n /\ (d # 0 => place(d) # c /\ NextId(place(d), l) = place(d - 1) /\ d - 1 \in 0..n - 1)
    OBVIOUS
  <2>1. place(d) \in 1..n /\ (d # 0 => place(d) # c /\ d - 1 \in 0..n - 1) BY <1>2
  <2>2. NextId(place(d), l) = IF place(d) = n THEN 1 ELSE place(d) + 1 BY <1>1, <2>1, NextIdIs
  <2>3. d # 0 => (IF place(d) = n THEN 1 ELSE place(d) + 1) = place(d - 1) BY <1>2
  <2> QED BY <2>1, <2>2, <2>3
<1>4. ASSUME NEW j \in 1..n PROVE \E d \in 0..n - 1 : place(d) = j
  <2>1. CASE j <= c
    <3>1. c - j \in 0..n - 1 /\ place(c - j) = j BY <2>1, <1>2
    <3> QED BY <3>1
  <2>2. CASE j > c
    <3>1. c - j + n \in 0..n - 1 /\ place(c - j + n) = j BY <2>2, <1>2
    <3> QED BY <3>1
  <2> QED BY <2>1, <2>2, <1>2
<1>5. place(0) = c BY <1>2
<1> HIDE DEF place
<1>6. SUFFICES ASSUME NEW r \in Range(l), r \in B PROVE l[c] \in B OBVIOUS
<1>7. PICK D : D = {d \in 0..n - 1 : l[place(d)] \in B} OBVIOUS
<1>8. PICK d0 \in 0..n - 1 : d0 \in D
  <2>1. PICK j \in 1..n : l[j] = r BY ONLY <1>2, r \in Range(l) DEF Range
  <2> QED BY ONLY <2>1, <1>4, <1>6, <1>7
<1>9. D \subseteq Nat /\ D # {} BY <1>7, <1>8
<1>10. PICK d \in D : \A e \in D : d <= e BY ONLY <1>9, Least
<1>11. d = 0
  <2> SUFFICES ASSUME d # 0 PROVE FALSE OBVIOUS
  <2>1. d \in 0..n - 1 /\ l[place(d)] \in B BY <1>7, <1>10
  <2>2. place(d) \in 1..n /\ place(d) # c /\ NextId(place(d), l) = place(d - 1) /\ d - 1 \in 0..n - 1
    BY <2>1, <1>3
  <2>3. Follows(l, c, l[place(d)], l[place(d - 1)]) BY ONLY <2>2, <1>1 DEF Follows
  <2>4. l[place(d - 1)] \in B BY <2>1, <2>3
  <2>5. d - 1 \in D BY ONLY <2>2, <2>4, <1>7
  <2> QED BY <2>5, <2>1, <1>10
<1> QED BY <1>5, <1>7, <1>10, <1>11

----------------------------------------
(* What is in the air: the packets in the rings, from the one that runs to
   those whose threads have yet to store them, the copies, and the packets
   in the hands of the other threads. *)

(* The places: an index of a ring, a copy, the hands of a device. *)
InRing(h, i) == <<"ring", h, i>>
InDma(x)     == <<"dma", x, 0>>
InHand(v)    == <<"hand", v, 0>>

(* The hardware queue of a device. *)
Hq(v) == setup.hwQueue[v]

(* The packet at an index of a ring. *)
At(h, i) ==
  IF i < ring[h].read THEN ring[h].running
  ELSE IF i \in Indices(h)
    THEN my[CHOOSE v \in VGPUs : Holding(v) /\ Hq(v) = h /\ my[v].index = i].packet
  ELSE ring[h].slot[i % RingSize]

(* The indices of a ring that the processor has not finished. *)
Live(h) == (ring[h].read..ring[h].write - 1)
           \cup (IF ring[h].running = None THEN {} ELSE {ring[h].read - 1})

(* The places where there is a packet or a copy. *)
Air == (UNION {{InRing(h, i) : i \in Live(h)} : h \in HwQueues})
       \cup {InDma(x) : x \in dma} \cup {InHand(v) : v \in {v \in VGPUs : ~Holding(v)}}

(* What is there. *)
Flight == [a \in Air |-> IF a[1] = "ring" THEN At(a[2], a[3])
                         ELSE IF a[1] = "dma" THEN a[2] ELSE my[a[2]].packet]

(* The signal that is lowered when it is finished, and those it waits for. *)
HasSignal(a)  == Flight[a].signal # NoTicket
Lowers(a)     == Flight[a].signal.signal
AwaitsAt(a, s) == \E t \in Flight[a].deps : t.signal = s

(* The phase of a device, its signals, and how they follow each other. *)
Ph(v)  == Phase(todo[v])
Own(v) == Range(vgpu[v].list)
Follow(v, r, s) == Follows(vgpu[v].list, vgpu[v].current, r, s)

(* The place of the packet of a call. *)
SpotOf(v) == IF Holding(v) THEN InRing(Hq(v), my[v].index) ELSE InHand(v)

----------------------------------------
(* Signals: what is in the air means the last use of each signal, and the
   signals it lowers are busy, each for one of them. *)
FreshOf(a) ==
  /\ HasSignal(a) => Flight[a].signal = Now(Lowers(a)) /\ Busy(Lowers(a)) /\ Lowers(a) \in Signals
  /\ \A t \in Flight[a].deps : t = Now(t.signal) /\ t.signal \in Pool

(* The signal is one of the list of a device, or guards a chunk of the
   device whose ring it is in. *)
HomeOf(a) == HasSignal(a) =>
  \/ \E v \in VGPUs : Lowers(a) \in Own(v)
  \/ \E v \in VGPUs, k \in Chunks : /\ Lowers(a) = <<v, k>>
                                    /\ (a = InHand(v) \/ \E i \in Int : a = InRing(Hq(v), i))

SignalInv ==
  /\ \A a \in Air : FreshOf(a) /\ HomeOf(a)
  /\ \A a, b \in Air : HasSignal(a) /\ Lowers(a) = Lowers(b) => a = b

(* Lists: no signal is twice in them. *)
ListInv ==
  /\ \A v \in VGPUs : Distinct(vgpu[v].list)
  /\ \A v, w \in VGPUs : v # w => Own(v) \cap Own(w) = {}

(* Commands: each is in one place. *)
CmdInv ==
  /\ \A a \in Air : Flight[a].cmd # None => Flight[a].cmd \in (1..created) \ done
  /\ \A a, b \in Air : Flight[a].cmd # None /\ Flight[a].cmd = Flight[b].cmd => a = b
  /\ \A v \in VGPUs : todo[v] # <<>> =>
       /\ my[v].cmd \notin done
       /\ \A a \in Air : Flight[a].cmd = my[v].cmd => a = SpotOf(v)
  /\ \A c \in Commands \ (1..created) : c \notin done /\ command[c].hwEvent = None

----------------------------------------
(* Calls: what a thread has in its hands, by the phase of its call. *)
Resolved == {"reserveLast", "reserveCopy", "reserveFlush", "reserveWait", "kernel", "writeWait"}
            \cup InSignal \cup {"writeLast", "writeCopy", "writeFlush"}

(* The phases before the waits of the command are resolved. *)
Unresolved == {"alloc", "nextChunk", "reserveChunk", "writeChunk", "blockingWait"} \cup InFence \cup InBarrier

(* The packet. *)
PacketOf(v) == LET p == my[v].packet IN
  /\ Ph(v) \notin InReserve \cup InSignal \cup InWrite \cup {"signalDma", "copy"} => p = Nothing
  /\ Ph(v) \in {"reserveChunk", "writeChunk"} => p.cmd = None /\ p.deps = {}
  /\ Ph(v) \in {"reserveWait", "writeWait", "signalDma", "reserveCopy", "reserveFlush", "signalCopy", "signalFlush"}
       => p.cmd = None /\ p.signal = NoTicket
  /\ Ph(v) \in {"reserveLast", "signalLast", "writeLast"} => p.cmd = my[v].cmd
  /\ Ph(v) \in {"reserveLast", "signalLast"} => p.signal = NoTicket
  /\ Ph(v) \in {"writeCopy", "writeFlush", "copy"} => p.cmd = None /\ p.signal.signal = Current(v)
  /\ Ph(v) = "writeLast" => p.signal.signal = Current(v) \/ (p.kind = "kernel" /\ p.signal = NoTicket)
  /\ Ph(v) \in InReserve \cup {"writeWait", "writeChunk", "writeCopy", "writeFlush", "signalCopy", "signalFlush"}
       => p.kind = "barrier"
  /\ p.kind = "kernel" => p.deps = {}

(* The engine the device last used and whether it has work that nothing
   will signal. *)
DeviceOf(v) ==
  /\ Ph(v) \in Resolved => vgpu[v].engine = "Compute"
  /\ Ph(v) \in {"signalDma", "copy"} => vgpu[v].engine = "Sdma"
  /\ Ph(v) \in {"barrierCopy", "barrierFlush", "reserveCopy", "reserveFlush", "signalCopy", "signalFlush",
                "writeCopy", "writeFlush", "copyWait", "waitCurrent", "signalDma", "copy"} => ~vgpu[v].pending

(* The signal the command gives to others, and those of the commands it
   waits for. *)
EventOf(v) == LET c == my[v].cmd IN
  /\ Ph(v) \notin {"idle", "writeLast"} => command[c].hwEvent = None
  /\ Ph(v) \in {"fenceFlush", "barrierFlush", "reserveFlush", "signalFlush", "writeFlush", "waitCurrent"}
       => command[c].waits = {}
  /\ Ph(v) = "barrierLast" => command[c].op \in {"marker", "nop"}
  /\ Ph(v) \in {"fenceCopy", "fenceFlush", "barrierCopy", "barrierFlush"} => command[c].op \notin {"marker", "nop"}
  /\ vgpu[v].external # {} => Ph(v) \in Unresolved
  /\ (vgpu[v].external # {} \/ Ph(v) = "fenceCopy") =>
       vgpu[v].external = {command[e].hwEvent : e \in command[c].waits}

CallInv == \A v \in VGPUs : PacketOf(v) /\ DeviceOf(v) /\ EventOf(v)

----------------------------------------
(* Waits: a signal stays until who waits for it has looked. *)

(* Signal u is lowered at or behind index j of ring h. *)
LowFrom(h, j, u) == \E k \in Int : k >= j /\ InRing(h, k) \in Air /\ Lowers(InRing(h, k)) = u

(* The next signal of the device is yet to be taken, for a packet. *)
Signalled(v) == Ph(v) \in {"writeLast", "writeCopy", "writeFlush"} /\ my[v].packet.signal # NoTicket
(* The phases that end in a packet; the device holds no index before j;
   its next signal is taken behind j. *)
Computes == {"alloc", "nextChunk", "blockingWait", "kernel"} \cup InBarrier \cup InReserve \cup InSignal \cup InWrite
Ahead(v, j) == Holding(v) => j <= my[v].index
OpenFor(v, j) == ~Signalled(v) /\ (vgpu[v].pending \/ Ph(v) \in Computes) /\ Ahead(v, j)

(* A device that uses ring h waits at j for the signal before one it has
   yet to lower. *)
OwnWait(v, h, j, s) ==
  /\ Hq(v) = h
  /\ \/ s = Current(v) /\ OpenFor(v, j)
     \/ \E u \in Own(v) : Follow(v, s, u) /\ LowFrom(h, j, u)

(* The command waits for what is behind the place in the ring. *)
CallBehind(v, h, j) ==
  /\ Hq(v) = h /\ todo[v] # <<>>
  /\ \/ Ph(v) \notin {"copyWait", "signalDma", "copy", "waitCurrent"} /\ Ahead(v, j)
     \/ Ph(v) = "copyWait" /\ LowFrom(h, j, Current(v))
     \/ Ph(v) \in {"signalDma", "copy"} /\ \E t \in my[v].packet.deps : LowFrom(h, j, t.signal)

(* Command d has something to do behind index j of ring h. *)
Behind(d, h, j) ==
  \/ \E k \in Int : k >= j /\ InRing(h, k) \in Air /\ Flight[InRing(h, k)].cmd = d
  \/ \E v \in VGPUs : my[v].cmd = d /\ CallBehind(v, h, j)
  \/ \E x \in dma : x.cmd = d /\ \E t \in x.deps : LowFrom(h, j, t.signal)

(* Such a command waits for signal s. *)
ExtWait(h, j, s) ==
  \E d \in Commands : Behind(d, h, j) /\ \E e \in command[d].waits : command[e].hwEvent = s

(* Who waits in a ring still has what it waits for in one of the two ways, *)
RingWaits == \A h \in HwQueues, i \in Int : InRing(h, i) \in Air =>
  \A t \in Flight[InRing(h, i)].deps :
    (\E v \in VGPUs : OwnWait(v, h, i, t.signal)) \/ ExtWait(h, i, t.signal)

(* a copy waits for the signals before its own, *)
DmaWaits == \A x \in dma : /\ command[x.cmd].queue \in VGPUs
                            /\ \A t \in x.deps : Follow(command[x.cmd].queue, t.signal, x.signal.signal)

(* and a packet in hand for the current signal or for those of other
   commands. *)
HandOf(v) == ~Holding(v) => \A t \in my[v].packet.deps :
  \/ Ph(v) \in InReserve /\ (t.signal = Current(v) \/ \E e \in command[my[v].cmd].waits : command[e].hwEvent = t.signal)
  \/ Ph(v) = "signalDma" /\ t.signal = Current(v)
  \/ Ph(v) = "copy" /\ Follow(v, t.signal, Current(v))

WaitInv == RingWaits /\ DmaWaits /\ \A v \in VGPUs : HandOf(v)

----------------------------------------
(* Order: the signals of a device fall in the order of its list. *)

(* Signal r is lowered or awaited at or before index i of ring h. *)
Stands(h, i, r) == \E k \in Int : /\ k <= i /\ InRing(h, k) \in Air
                                  /\ (Lowers(InRing(h, k)) = r \/ AwaitsAt(InRing(h, k), r))

(* What is at a comes after the fall of signal r. *)
Stays(a, r) == \/ \E h \in HwQueues, i \in Int : a = InRing(h, i) /\ Stands(h, i, r)
               \/ AwaitsAt(a, r)

(* While a signal is busy, so is the next one of the list, and it is
   lowered after the first. *)
FallInv == \A v \in VGPUs, r \in Pool, s \in Pool : Follow(v, r, s) /\ Busy(r) =>
  Busy(s) /\ \A a \in Air : Lowers(a) = s => Stays(a, r)

(* What a device does next comes after the fall of its current signal. *)
ReadyOf(v) ==
  /\ Busy(Current(v)) /\ vgpu[v].engine = "Compute" =>
       IF Holding(v) THEN Stands(Hq(v), my[v].index, Current(v))
       ELSE (\E i \in Int : Stands(Hq(v), i, Current(v))) \/ (Ph(v) \in InReserve /\ AwaitsAt(InHand(v), Current(v)))
  /\ Busy(Current(v)) /\ Ph(v) = "signalDma" => AwaitsAt(InHand(v), Current(v))

(* What the GPU does for the device, and what comes after it. *)
Belongs(v, a) == \/ Flight[a].cmd # None /\ command[Flight[a].cmd].queue = v
                 \/ \E k \in Chunks : Lowers(a) = <<v, k>>
Quiet(v) == ~vgpu[v].pending /\ Ph(v) \in {"idle", "copyWait", "signalDma", "copy", "waitCurrent"} \cup InFence

(* What the GPU does for a quiet device ends before one of its signals
   falls. *)
CoverOf(v) == \A i \in Int : InRing(Hq(v), i) \in Air /\ Belongs(v, InRing(Hq(v), i)) =>
  /\ Quiet(v) => \E u \in Own(v) : LowFrom(Hq(v), i, u)
  /\ Ahead(v, i)

OrderInv == FallInv /\ \A v \in VGPUs : ReadyOf(v) /\ CoverOf(v)

(* Chunks: the signal of one is busy from the barrier that guards it on. *)
ChunkInv ==
  /\ \A v \in VGPUs : Busy(<<v, vgpu[v].chunk>>) => Ph(v) \in {"reserveChunk", "writeChunk", "nextChunk"}
  /\ \A v \in VGPUs, k \in Chunks : Busy(<<v, k>>) => \E a \in Air : Lowers(a) = <<v, k>>
  /\ \A v \in VGPUs, k \in Chunks : InHand(v) \in Air /\ Lowers(InHand(v)) = <<v, k>> => Ph(v) = "reserveChunk"

(* Rings: a kernel waits for nothing. *)
KindInv == \A h \in HwQueues, i \in Int : InRing(h, i) \in Air =>
             (Flight[InRing(h, i)].kind = "kernel" => Flight[InRing(h, i)].deps = {})

(* The invariant. *)
AirInv == SignalInv /\ ListInv /\ CmdInv /\ CallInv /\ WaitInv /\ OrderInv /\ ChunkInv /\ KindInv

(* Places of different kinds, or names, are different. *)
LEMMA PlacesApart ==
  /\ \A h, i, g, j : InRing(h, i) = InRing(g, j) => h = g /\ i = j
  /\ \A x, y : InDma(x) = InDma(y) => x = y
  /\ \A v, w : InHand(v) = InHand(w) => v = w
  /\ \A h, i, x, v : InRing(h, i) # InDma(x) /\ InRing(h, i) # InHand(v) /\ InDma(x) # InHand(v)
BY DEF InRing, InDma, InHand

(* What is in the air, by the state of the rings and the threads. *)
RingAir(h) ==
  /\ ring[h].running # None => /\ InRing(h, ring[h].read - 1) \in Air
                               /\ Flight[InRing(h, ring[h].read - 1)] = ring[h].running
  /\ \A i \in ring[h].read..ring[h].write - 1 :
       /\ InRing(h, i) \in Air
       /\ i \notin Indices(h) => Flight[InRing(h, i)] = ring[h].slot[i % RingSize]
  /\ \A i : InRing(h, i) \in Air =>
       i \in ring[h].read..ring[h].write - 1 \/ (ring[h].running # None /\ i = ring[h].read - 1)

(* What is in which place. *)
AirFacts ==
  /\ \A h \in HwQueues : RingAir(h)
  /\ \A v \in VGPUs : Holding(v) =>
       /\ Flight[InRing(Hq(v), my[v].index)] = my[v].packet
       /\ my[v].index \in ring[Hq(v)].read..ring[Hq(v)].write - 1 /\ my[v].index \in Indices(Hq(v))
  /\ \A x : InDma(x) \in Air <=> x \in dma
  /\ \A x \in dma : Flight[InDma(x)] = x
  /\ \A v : InHand(v) \in Air <=> v \in VGPUs /\ ~Holding(v)
  /\ \A v \in VGPUs : ~Holding(v) => Flight[InHand(v)] = my[v].packet
  /\ \A a \in Air : \/ \E h \in HwQueues, i \in Int : a = InRing(h, i)
                    \/ \E x \in dma : a = InDma(x)
                    \/ \E v \in VGPUs : a = InHand(v) /\ ~Holding(v)
  /\ \A h, i : InRing(h, i) \in Air => h \in HwQueues /\ i \in Int

(* The invariant of the rings gives these facts, *)
LEMMA AirIs == VirtualAssumptions /\ VirtualInv => AirFacts
<1> SUFFICES ASSUME VirtualAssumptions, VirtualInv PROVE AirFacts OBVIOUS
<1>1. /\ \A h \in HwQueues : ring[h] \in RingRecord /\ ring[h].read \in Nat /\ ring[h].write \in Nat
      /\ \A v \in VGPUs : Hq(v) \in HwQueues
  <2>1. ring \in [HwQueues -> RingRecord] /\ setup \in Setups BY DEF VirtualInv, Basic, Types
  <2> QED BY <2>1, SetupFacts DEF RingRecord, Hq
<1>2. \A h \in HwQueues : Indices(h) \subseteq ring[h].read..ring[h].write - 1
  BY DEF VirtualInv, RingOK, RingOf, RingPart
<1>3. /\ \A h, i : InRing(h, i) \in Air <=> h \in HwQueues /\ i \in Live(h)
      /\ \A x : InDma(x) \in Air <=> x \in dma
      /\ \A v : InHand(v) \in Air <=> v \in VGPUs /\ ~Holding(v)
      /\ \A a \in Air : \/ \E h \in HwQueues : \E i \in Live(h) : a = InRing(h, i)
                        \/ \E x \in dma : a = InDma(x)
                        \/ \E v \in VGPUs : a = InHand(v) /\ ~Holding(v)
  <2>1. \A a : a \in Air <=> \/ \E h \in HwQueues : \E i \in Live(h) : a = InRing(h, i)
                             \/ \E x \in dma : a = InDma(x)
                             \/ \E v \in VGPUs : a = InHand(v) /\ ~Holding(v)
    <3> SUFFICES ASSUME NEW a
                 PROVE  a \in Air <=> \/ \E h \in HwQueues : \E i \in Live(h) : a = InRing(h, i)
                                      \/ \E x \in dma : a = InDma(x)
                                      \/ \E v \in VGPUs : a = InHand(v) /\ ~Holding(v)
      OBVIOUS
    <3>1. a \in UNION {{InRing(h, i) : i \in Live(h)} : h \in HwQueues}
            <=> \E h \in HwQueues : \E i \in Live(h) : a = InRing(h, i)
      <4>1. ASSUME a \in UNION {{InRing(h, i) : i \in Live(h)} : h \in HwQueues}
            PROVE  \E h \in HwQueues : \E i \in Live(h) : a = InRing(h, i)
        <5>1. PICK T \in {{InRing(h, i) : i \in Live(h)} : h \in HwQueues} : a \in T BY ONLY <4>1
        <5>2. PICK h \in HwQueues : T = {InRing(h, i) : i \in Live(h)} BY ONLY <5>1
        <5> QED BY ONLY <5>1, <5>2
      <4>2. ASSUME NEW h \in HwQueues, NEW i \in Live(h), a = InRing(h, i)
            PROVE  a \in UNION {{InRing(g, j) : j \in Live(g)} : g \in HwQueues}
        <5>1. a \in {InRing(h, j) : j \in Live(h)} BY ONLY <4>2, i \in Live(h), Zenon
        <5>2. {InRing(h, j) : j \in Live(h)} \in {{InRing(g, j) : j \in Live(g)} : g \in HwQueues}
          BY ONLY h \in HwQueues, Zenon
        <5> QED BY ONLY <5>1, <5>2, Zenon
      <4> QED BY ONLY <4>1, <4>2, Zenon
    <3>2. a \in {InDma(x) : x \in dma} <=> \E x \in dma : a = InDma(x) BY ONLY TRUE
    <3>3. a \in {InHand(v) : v \in {v \in VGPUs : ~Holding(v)}} <=> \E v \in VGPUs : a = InHand(v) /\ ~Holding(v)
      BY ONLY TRUE
    <3>4. PICK R : R = UNION {{InRing(h, i) : i \in Live(h)} : h \in HwQueues} OBVIOUS
    <3>5. PICK D : D = {InDma(x) : x \in dma} OBVIOUS
    <3>6. PICK H : H = {InHand(v) : v \in {v \in VGPUs : ~Holding(v)}} OBVIOUS
    <3>7. Air = (R \cup D) \cup H BY ONLY <3>4, <3>5, <3>6, Zenon DEF Air
    <3>8. /\ a \in R <=> \E h \in HwQueues : \E i \in Live(h) : a = InRing(h, i)
          /\ a \in D <=> \E x \in dma : a = InDma(x)
          /\ a \in H <=> \E v \in VGPUs : a = InHand(v) /\ ~Holding(v)
      BY ONLY <3>1, <3>2, <3>3, <3>4, <3>5, <3>6, Zenon
    <3> QED BY ONLY <3>7, <3>8
  <2> QED BY ONLY <2>1, PlacesApart
<1>4. \A h \in HwQueues : \A i \in Live(h) :
        i \in Int /\ (i \in ring[h].read..ring[h].write - 1 \/ (ring[h].running # None /\ i = ring[h].read - 1))
  BY <1>1 DEF Live
<1>5. /\ \A h, i : InRing(h, i) \in Air => Flight[InRing(h, i)] = At(h, i)
      /\ \A x : InDma(x) \in Air => Flight[InDma(x)] = x
      /\ \A v : InHand(v) \in Air => Flight[InHand(v)] = my[v].packet
  BY DEF Flight, InRing, InDma, InHand
<1>6. ASSUME NEW h \in HwQueues PROVE RingAir(h)
  <2>1. ring[h].running # None => ring[h].read - 1 \in Live(h) /\ At(h, ring[h].read - 1) = ring[h].running
    BY <1>1 DEF Live, At
  <2>2. \A i \in ring[h].read..ring[h].write - 1 :
           i \in Live(h) /\ (i \notin Indices(h) => At(h, i) = ring[h].slot[i % RingSize])
    BY <1>1 DEF Live, At
  <2> QED BY ONLY <1>3, <1>4, <1>5, <2>1, <2>2, h \in HwQueues DEF RingAir
<1>7. ASSUME NEW v \in VGPUs, Holding(v)
      PROVE  /\ Flight[InRing(Hq(v), my[v].index)] = my[v].packet
             /\ my[v].index \in ring[Hq(v)].read..ring[Hq(v)].write - 1 /\ my[v].index \in Indices(Hq(v))
  <2>1. my[v].index \in Indices(Hq(v)) BY <1>7 DEF Indices, Hq
  <2>2. my[v].index \in ring[Hq(v)].read..ring[Hq(v)].write - 1 BY <1>1, <1>2, <2>1
  <2>3. \A w \in VGPUs : Holding(w) /\ Hq(w) = Hq(v) /\ my[w].index = my[v].index => w = v
    BY <1>7 DEF VirtualInv, RingOK, OwnIndex, Hq
  <2>4. (CHOOSE w \in VGPUs : Holding(w) /\ Hq(w) = Hq(v) /\ my[w].index = my[v].index) = v BY <1>7, <2>3
  <2>5. At(Hq(v), my[v].index) = my[v].packet
    <3>1. ~(my[v].index < ring[Hq(v)].read) BY <1>1, <2>2
    <3> QED BY ONLY <2>1, <2>4, <3>1 DEF At
  <2>6. my[v].index \in Live(Hq(v)) BY <2>2 DEF Live
  <2> QED BY <1>1, <1>3, <1>5, <2>1, <2>2, <2>5, <2>6
<1> QED BY ONLY <1>3, <1>4, <1>5, <1>6, <1>7 DEF AirFacts

(* and after a step too. *)
LEMMA AirIsNext == ASSUME VirtualAssumptions PROVE VirtualInv' => AirFacts'
<1>1. VirtualInv => AirFacts BY AirIs
<1> QED BY <1>1, PTL

----------------------------------------
(* The phases before and after each step. *)

(* What follows a packet is one of three, whatever the three are called. *)
LEMMA EndingCases ==
  ASSUME NEW y \in Endings, NEW a, NEW b, NEW c, NEW e, NEW f, NEW g
  PROVE  \/ Ending(y, a, b, c) = a /\ Ending(y, e, f, g) = e
         \/ Ending(y, a, b, c) = b /\ Ending(y, e, f, g) = f
         \/ Ending(y, a, b, c) = c /\ Ending(y, e, f, g) = g
BY EndingIs DEF Endings

(* The arguments of a kernel: in this chunk, or after the barrier that
   guards it. *)
LEMMA AllocPhases ==
  ASSUME VirtualAssumptions, Basic, NEW v \in VGPUs, Alloc(v)
  PROVE  /\ Ph(v) = "alloc"
         /\ Ph(v)' \in (IF vgpu[v].used < ChunkSize THEN {"alloc", "blockingWait"} ELSE {"reserveChunk"})
<1>0. Plans /\ todo \in [VGPUs -> StepSeqs] BY DEF Basic, Types
<1>1. PICK t : t = Tail(todo[v]) OBVIOUS
<1>2. Planned(todo[v]) /\ todo[v] # <<>> /\ Head(todo[v]) = "alloc" BY <1>0 DEF Plans, Alloc, Do
<1>3. /\ t \in AfterAlloc
      /\ todo' = [todo EXCEPT ![v] = IF vgpu[v].used < ChunkSize THEN t
                                    ELSE Cons("reserve", Cons("write", Cons("nextChunk", t)))]
  BY <1>0, <1>1, OthersGoOn
<1>4. todo'[v] = IF vgpu[v].used < ChunkSize THEN t ELSE Cons("reserve", Cons("write", Cons("nextChunk", t)))
  BY ONLY <1>0, <1>3, v \in VGPUs
<1> QED BY ONLY <1>2, <1>3, <1>4, PhaseOfPlan, PhaseTable DEF Ph

(* A kernel waits in a packet of its own, or not at all. *)
LEMMA WaitPhases ==
  ASSUME VirtualAssumptions, Basic, NEW v \in VGPUs, BlockingWait(v)
  PROVE  Ph(v) = "blockingWait" /\ Ph(v)' = IF Waiting(v, "Compute") = {} THEN "kernel" ELSE "reserveWait"
<1>0. Plans /\ todo \in [VGPUs -> StepSeqs] BY DEF Basic, Types
<1>1. PICK t : t = Tail(todo[v]) OBVIOUS
<1>2. Planned(todo[v]) /\ todo[v] # <<>> /\ Head(todo[v]) = "blockingWait"
  BY <1>0 DEF Plans, BlockingWait, Do
<1>3. /\ t \in AfterBlockingWait
      /\ todo' = [todo EXCEPT ![v] = IF Waiting(v, "Compute") = {} THEN t ELSE Cons("reserve", Cons("write", t))]
  BY <1>0, <1>1, OthersGoOn
<1>4. todo'[v] = IF Waiting(v, "Compute") = {} THEN t ELSE Cons("reserve", Cons("write", t))
  BY ONLY <1>0, <1>3, v \in VGPUs
<1> QED BY ONLY <1>2, <1>3, <1>4, PhaseOfPlan, PhaseTable DEF Ph

(* A fence makes a barrier when there is something to wait for. *)
LEMMA FencePhases ==
  ASSUME VirtualAssumptions, Basic, NEW v \in VGPUs, Fence(v)
  PROVE  \/ Ph(v) = "fenceCopy" /\ Ph(v)' = IF vgpu[v].pending \/ vgpu[v].external # {} THEN "barrierCopy" ELSE "copyWait"
         \/ Ph(v) = "fenceFlush" /\ Ph(v)' = IF vgpu[v].pending \/ vgpu[v].external # {} THEN "barrierFlush" ELSE "waitCurrent"
<1>0. Plans /\ todo \in [VGPUs -> StepSeqs] BY DEF Basic, Types
<1>1. PICK t : t = Tail(todo[v]) OBVIOUS
<1>2. Planned(todo[v]) /\ todo[v] # <<>> /\ Head(todo[v]) = "fence" BY <1>0 DEF Plans, Fence, Do
<1>3. /\ t \in AfterFence
      /\ todo' = [todo EXCEPT ![v] = IF vgpu[v].pending \/ vgpu[v].external # {}
                                    THEN Cons("barrier", Cons("reserve", Cons("signal", Cons("write", t))))
                                    ELSE t]
  BY <1>0, <1>1, OthersGoOn
<1>4. todo'[v] = IF vgpu[v].pending \/ vgpu[v].external # {}
                 THEN Cons("barrier", Cons("reserve", Cons("signal", Cons("write", t)))) ELSE t
  BY ONLY <1>0, <1>3, v \in VGPUs
<1>5. t \in Endings BY <1>3 DEF AfterFence, Endings
<1>6. Phase(Cons("barrier", Cons("reserve", Cons("signal", Cons("write", t)))))
        = Ending(t, "barrierLast", "barrierCopy", "barrierFlush")
  BY ONLY <1>5, EndingPhases
<1>7. (t = CopyPlan /\ Phase(todo[v]) = "fenceCopy") \/ (t = FlushPlan /\ Phase(todo[v]) = "fenceFlush")
  BY ONLY <1>1, <1>2, PhaseOfPlan
<1>8. CASE t = CopyPlan /\ Phase(todo[v]) = "fenceCopy"
  BY ONLY <1>4, <1>6, <1>8, PhaseTable, EndingIs DEF Ph
<1>9. CASE t = FlushPlan /\ Phase(todo[v]) = "fenceFlush"
  BY ONLY <1>4, <1>6, <1>9, PhaseTable, EndingIs DEF Ph
<1> QED BY ONLY <1>7, <1>8, <1>9

(* A copy that fails is done by a kernel. *)
LEMMA FailPhases ==
  ASSUME VirtualAssumptions, Basic, NEW v \in VGPUs, CopyFails(v)
  PROVE  Ph(v) = "copy" /\ Ph(v)' = "alloc"
<1>0. Plans /\ todo \in [VGPUs -> StepSeqs] BY DEF Basic, Types
<1>2. Planned(todo[v]) /\ todo[v] # <<>> /\ Head(todo[v]) = "copy" BY <1>0 DEF Plans, CopyFails, Do
<1>3. todo' = [todo EXCEPT ![v] = DispatchPlan]
  <2>1. PICK t : t = Tail(todo[v]) OBVIOUS
  <2> QED BY <1>0, <2>1, OthersGoOn
<1>4. todo'[v] = DispatchPlan BY ONLY <1>0, <1>3, v \in VGPUs
<1> QED BY ONLY <1>2, <1>4, PhaseOfPlan, PhaseTable DEF Ph

(* The steps that only go on. *)
LEMMA PlainPhases ==
  ASSUME VirtualAssumptions, Basic, NEW v \in VGPUs
  PROVE  /\ NextChunk(v) => Ph(v) = "nextChunk" /\ Ph(v)' \in {"alloc", "blockingWait"}
         /\ Barrier(v) => \/ Ph(v) = "barrierLast" /\ Ph(v)' = "reserveLast"
                          \/ Ph(v) = "barrierCopy" /\ Ph(v)' = "reserveCopy"
                          \/ Ph(v) = "barrierFlush" /\ Ph(v)' = "reserveFlush"
         /\ CopyWait(v) => Ph(v) = "copyWait" /\ Ph(v)' = "signalDma"
         /\ GrowList(v) \/ ReuseSignal(v) => \/ Ph(v) = "signalLast" /\ Ph(v)' = "writeLast"
                                             \/ Ph(v) = "signalCopy" /\ Ph(v)' = "writeCopy"
                                             \/ Ph(v) = "signalFlush" /\ Ph(v)' = "writeFlush"
                                             \/ Ph(v) = "signalDma" /\ Ph(v)' = "copy"
         /\ Reserve(v) => \/ Ph(v) = "reserveLast" /\ Ph(v)' = "signalLast"
                          \/ Ph(v) = "reserveCopy" /\ Ph(v)' = "signalCopy"
                          \/ Ph(v) = "reserveFlush" /\ Ph(v)' = "signalFlush"
                          \/ Ph(v) = "reserveWait" /\ Ph(v)' = "writeWait"
                          \/ Ph(v) = "reserveChunk" /\ Ph(v)' = "writeChunk"
         /\ Kernel(v) => Ph(v) = "kernel" /\ Ph(v)' \in {"writeLast", "signalLast"}
         /\ Write(v) => \/ Ph(v) = "writeLast" /\ Ph(v)' = "idle"
                        \/ Ph(v) = "writeCopy" /\ Ph(v)' = "copyWait"
                        \/ Ph(v) = "writeFlush" /\ Ph(v)' = "waitCurrent"
                        \/ Ph(v) = "writeWait" /\ Ph(v)' = "kernel"
                        \/ Ph(v) = "writeChunk" /\ Ph(v)' = "nextChunk"
         /\ WaitCurrent(v) => Ph(v) = "waitCurrent" /\ Ph(v)' = "idle"
         /\ StartCopy(v) => Ph(v) = "copy" /\ Ph(v)' = "idle"
<1>0. Plans /\ todo \in [VGPUs -> StepSeqs] BY DEF Basic, Types
<1>1. PICK s : s = todo[v] /\ Planned(s) BY <1>0 DEF Plans
<1>2. Ph(v) = Phase(s) BY ONLY <1>1 DEF Ph
<1>3. Plain(v) => s # <<>> /\ Ph(v)' = Phase(Tail(s))
  <2> SUFFICES ASSUME Plain(v) PROVE s # <<>> /\ Ph(v)' = Phase(Tail(s)) OBVIOUS
  <2>1. todo[v] # <<>> /\ todo' = [todo EXCEPT ![v] = Tail(todo[v])] BY <1>0, PlainGoesOn
  <2>2. todo'[v] = Tail(s) BY ONLY <1>0, <1>1, <2>1, v \in VGPUs
  <2> QED BY ONLY <1>1, <2>1, <2>2 DEF Ph
<1>4. PICK t : t = Tail(s) OBVIOUS
<1>5. NextChunk(v) => Ph(v) = "nextChunk" /\ Ph(v)' \in {"alloc", "blockingWait"}
  <2> SUFFICES ASSUME NextChunk(v)
               PROVE Ph(v) = "nextChunk" /\ Ph(v)' \in {"alloc", "blockingWait"}
    OBVIOUS
  <2>1. s # <<>> /\ Head(s) = "nextChunk" /\ Ph(v)' = Phase(t)
    BY <1>1, <1>3, <1>4 DEF Plain, NextChunk, Do
  <2>2. t \in AfterAlloc BY ONLY <1>1, <1>4, <2>1, PlanHeads
  <2> QED BY ONLY <1>1, <1>2, <2>1, <2>2, PhaseOfPlan, PhaseTable
<1>6. Kernel(v) => Ph(v) = "kernel" /\ Ph(v)' \in {"writeLast", "signalLast"}
  <2> SUFFICES ASSUME Kernel(v)
               PROVE Ph(v) = "kernel" /\ Ph(v)' \in {"writeLast", "signalLast"}
    OBVIOUS
  <2>1. s # <<>> /\ Head(s) = "kernel" /\ Ph(v)' = Phase(t) BY <1>1, <1>3, <1>4 DEF Plain, Kernel, Do
  <2>2. t \in AfterKernel BY ONLY <1>1, <1>4, <2>1, PlanHeads
  <2> QED BY ONLY <1>1, <1>2, <2>1, <2>2, PhaseOfPlan, PhaseTable
<1>7. CopyWait(v) => Ph(v) = "copyWait" /\ Ph(v)' = "signalDma"
  <2> SUFFICES ASSUME CopyWait(v) PROVE Ph(v) = "copyWait" /\ Ph(v)' = "signalDma" OBVIOUS
  <2>1. s # <<>> /\ Head(s) = "copyWait" /\ Ph(v)' = Phase(t) BY <1>1, <1>3, <1>4 DEF Plain, CopyWait, Do
  <2>2. t = Cons("signal", Cons("copy", <<>>)) BY ONLY <1>1, <1>4, <2>1, PlanHeads DEF AfterCopyWait
  <2> QED BY ONLY <1>1, <1>2, <2>1, <2>2, PhaseOfPlan, PhaseTable
<1>8. WaitCurrent(v) \/ StartCopy(v) => (WaitCurrent(v) => Ph(v) = "waitCurrent") /\ (StartCopy(v) => Ph(v) = "copy")
                                        /\ Ph(v)' = "idle"
  <2> SUFFICES ASSUME WaitCurrent(v) \/ StartCopy(v)
               PROVE  (WaitCurrent(v) => Ph(v) = "waitCurrent") /\ (StartCopy(v) => Ph(v) = "copy") /\ Ph(v)' = "idle"
    OBVIOUS
  <2>1. s # <<>> /\ Ph(v)' = Phase(t) /\ Head(s) \in {"waitCurrent", "copy"}
        /\ (WaitCurrent(v) => Head(s) = "waitCurrent") /\ (StartCopy(v) => Head(s) = "copy")
    BY <1>1, <1>3, <1>4 DEF Plain, WaitCurrent, StartCopy, Do
  <2>2. t = <<>> BY ONLY <1>1, <1>4, <2>1, PlanHeads
  <2> QED BY ONLY <1>1, <1>2, <2>1, <2>2, PhaseOfPlan, PhaseTable
<1>9. Barrier(v) => \/ Ph(v) = "barrierLast" /\ Ph(v)' = "reserveLast"
                    \/ Ph(v) = "barrierCopy" /\ Ph(v)' = "reserveCopy"
                    \/ Ph(v) = "barrierFlush" /\ Ph(v)' = "reserveFlush"
  <2> SUFFICES ASSUME Barrier(v)
               PROVE  \/ Ph(v) = "barrierLast" /\ Ph(v)' = "reserveLast"
                      \/ Ph(v) = "barrierCopy" /\ Ph(v)' = "reserveCopy"
                      \/ Ph(v) = "barrierFlush" /\ Ph(v)' = "reserveFlush"
    OBVIOUS
  <2>1. s # <<>> /\ Head(s) = "barrier" /\ Ph(v)' = Phase(Tail(s)) BY <1>1, <1>3 DEF Plain, Barrier, Do
  <2>2. PICK y \in Endings : Phase(s) = Ending(y, "barrierLast", "barrierCopy", "barrierFlush") /\ Phase(Tail(s)) = Ending(y, "reserveLast", "reserveCopy", "reserveFlush")
    BY ONLY <1>1, <2>1, PhaseOfPlan
  <2> QED BY ONLY <1>2, <2>1, <2>2, EndingCases
<1>10. Reserve(v) => \/ Ph(v) = "reserveLast" /\ Ph(v)' = "signalLast"
                     \/ Ph(v) = "reserveCopy" /\ Ph(v)' = "signalCopy"
                     \/ Ph(v) = "reserveFlush" /\ Ph(v)' = "signalFlush"
                     \/ Ph(v) = "reserveWait" /\ Ph(v)' = "writeWait"
                     \/ Ph(v) = "reserveChunk" /\ Ph(v)' = "writeChunk"
  <2> SUFFICES ASSUME Reserve(v)
               PROVE  \/ Ph(v) = "reserveLast" /\ Ph(v)' = "signalLast"
                      \/ Ph(v) = "reserveCopy" /\ Ph(v)' = "signalCopy"
                      \/ Ph(v) = "reserveFlush" /\ Ph(v)' = "signalFlush"
                      \/ Ph(v) = "reserveWait" /\ Ph(v)' = "writeWait"
                      \/ Ph(v) = "reserveChunk" /\ Ph(v)' = "writeChunk"
    OBVIOUS
  <2>1. s # <<>> /\ Head(s) = "reserve" /\ Ph(v)' = Phase(Tail(s)) BY <1>1, <1>3 DEF Plain, Reserve, Do
  <2>2. CASE ~\E y \in Endings : Phase(s) = Ending(y, "reserveLast", "reserveCopy", "reserveFlush") /\ Phase(Tail(s)) = Ending(y, "signalLast", "signalCopy", "signalFlush")
    BY ONLY <1>1, <1>2, <2>1, <2>2, PhaseOfPlan
  <2>3. CASE \E y \in Endings : Phase(s) = Ending(y, "reserveLast", "reserveCopy", "reserveFlush") /\ Phase(Tail(s)) = Ending(y, "signalLast", "signalCopy", "signalFlush")
    <3>1. PICK y \in Endings : Phase(s) = Ending(y, "reserveLast", "reserveCopy", "reserveFlush") /\ Phase(Tail(s)) = Ending(y, "signalLast", "signalCopy", "signalFlush")
      BY ONLY <2>3
    <3> QED BY ONLY <1>2, <2>1, <3>1, EndingCases
  <2> QED BY ONLY <2>2, <2>3
<1>11. GrowList(v) \/ ReuseSignal(v) => \/ Ph(v) = "signalLast" /\ Ph(v)' = "writeLast"
                                        \/ Ph(v) = "signalCopy" /\ Ph(v)' = "writeCopy"
                                        \/ Ph(v) = "signalFlush" /\ Ph(v)' = "writeFlush"
                                        \/ Ph(v) = "signalDma" /\ Ph(v)' = "copy"
  <2> SUFFICES ASSUME GrowList(v) \/ ReuseSignal(v)
               PROVE  \/ Ph(v) = "signalLast" /\ Ph(v)' = "writeLast"
                      \/ Ph(v) = "signalCopy" /\ Ph(v)' = "writeCopy"
                      \/ Ph(v) = "signalFlush" /\ Ph(v)' = "writeFlush"
                      \/ Ph(v) = "signalDma" /\ Ph(v)' = "copy"
    OBVIOUS
  <2>1. s # <<>> /\ Head(s) = "signal" /\ Ph(v)' = Phase(Tail(s))
    BY <1>1, <1>3 DEF Plain, GrowList, ReuseSignal, Do
  <2>2. CASE ~\E y \in Endings : Phase(s) = Ending(y, "signalLast", "signalCopy", "signalFlush") /\ Phase(Tail(s)) = Ending(y, "writeLast", "writeCopy", "writeFlush")
    BY ONLY <1>1, <1>2, <2>1, <2>2, PhaseOfPlan
  <2>3. CASE \E y \in Endings : Phase(s) = Ending(y, "signalLast", "signalCopy", "signalFlush") /\ Phase(Tail(s)) = Ending(y, "writeLast", "writeCopy", "writeFlush")
    <3>1. PICK y \in Endings : Phase(s) = Ending(y, "signalLast", "signalCopy", "signalFlush") /\ Phase(Tail(s)) = Ending(y, "writeLast", "writeCopy", "writeFlush")
      BY ONLY <2>3
    <3> QED BY ONLY <1>2, <2>1, <3>1, EndingCases
  <2> QED BY ONLY <2>2, <2>3
<1>12. Write(v) => \/ Ph(v) = "writeLast" /\ Ph(v)' = "idle"
                   \/ Ph(v) = "writeCopy" /\ Ph(v)' = "copyWait"
                   \/ Ph(v) = "writeFlush" /\ Ph(v)' = "waitCurrent"
                   \/ Ph(v) = "writeWait" /\ Ph(v)' = "kernel"
                   \/ Ph(v) = "writeChunk" /\ Ph(v)' = "nextChunk"
  <2> SUFFICES ASSUME Write(v)
               PROVE  \/ Ph(v) = "writeLast" /\ Ph(v)' = "idle"
                      \/ Ph(v) = "writeCopy" /\ Ph(v)' = "copyWait"
                      \/ Ph(v) = "writeFlush" /\ Ph(v)' = "waitCurrent"
                      \/ Ph(v) = "writeWait" /\ Ph(v)' = "kernel"
                      \/ Ph(v) = "writeChunk" /\ Ph(v)' = "nextChunk"
    OBVIOUS
  <2>1. s # <<>> /\ Head(s) = "write" /\ Ph(v)' = Phase(Tail(s)) BY <1>1, <1>3 DEF Plain, Write, Do
  <2>2. CASE ~\E y \in Endings : Phase(s) = Ending(y, "writeLast", "writeCopy", "writeFlush") /\ Phase(Tail(s)) = Ending(y, "idle", "copyWait", "waitCurrent")
    BY ONLY <1>1, <1>2, <2>1, <2>2, PhaseOfPlan
  <2>3. CASE \E y \in Endings : Phase(s) = Ending(y, "writeLast", "writeCopy", "writeFlush") /\ Phase(Tail(s)) = Ending(y, "idle", "copyWait", "waitCurrent")
    <3>1. PICK y \in Endings : Phase(s) = Ending(y, "writeLast", "writeCopy", "writeFlush") /\ Phase(Tail(s)) = Ending(y, "idle", "copyWait", "waitCurrent")
      BY ONLY <2>3
    <3> QED BY ONLY <1>2, <2>1, <3>1, EndingCases
  <2> QED BY ONLY <2>2, <2>3
<1> QED BY ONLY <1>5, <1>6, <1>7, <1>8, <1>9, <1>10, <1>11, <1>12

(* A call begins with what its operation needs. *)
LEMMA SubmitPhases ==
  ASSUME VirtualAssumptions, Basic, NEW v \in VGPUs, NEW op \in Operations, NEW W,
         Submit(v, op, W)
  PROVE  /\ Ph(v) = "idle" /\ Ph(v)' \in {"alloc", "barrierLast", "fenceCopy", "fenceFlush"}
         /\ Ph(v)' = "fenceFlush" <=> op = "flush"
         /\ Ph(v)' = "barrierLast" => op \in {"marker", "nop"}
         /\ Ph(v)' = "fenceCopy" => op = "copy"
<1>0. todo \in [VGPUs -> StepSeqs] BY DEF Basic, Types
<1>1. todo[v] = <<>> /\ todo' = [todo EXCEPT ![v] = Call[op]] BY DEF Submit
<1>2. todo'[v] = Call[op] /\ Ph(v) = "idle" BY ONLY <1>0, <1>1, v \in VGPUs, PhaseTable DEF Ph
<1>3. PICK s : s = Call[op] OBVIOUS
<1>4. /\ Planned(s) /\ s # <<>>
      /\ op \in {"kernel", "timed", "fill"} => Head(s) = "alloc"
      /\ op \in {"marker", "nop"} => s = Cons("barrier", Cons("reserve", Cons("signal", Cons("write", <<>>))))
      /\ op = "copy" => s = Cons("fence", CopyPlan)
      /\ op = "flush" => s = Cons("fence", FlushPlan)
  BY <1>3, CallIsPlan DEF VirtualAssumptions
<1>5. op \in {"kernel", "timed", "fill", "marker", "nop", "copy", "flush"}
  BY DEF VirtualAssumptions, VirtualGPUAssumption
<1>6. <<>> \in Endings BY DEF Endings
<1>7. /\ Phase(s) \in {"alloc", "barrierLast", "fenceCopy", "fenceFlush"} /\ (Phase(s) = "fenceFlush" <=> op = "flush")
      /\ (Phase(s) = "barrierLast" => op \in {"marker", "nop"}) /\ (Phase(s) = "fenceCopy" => op = "copy")
  BY ONLY <1>4, <1>5, <1>6, PhaseOfPlan, PhaseTable, EndingPhases, EndingIs
<1> QED BY ONLY <1>2, <1>3, <1>7 DEF Ph

----------------------------------------
(* What a step does to what is in the air. *)

(* Whatever is not in one of the places stays as it is. *)
Steady(S) == \A a : a \notin S => (a \in Air' <=> a \in Air) /\ (a \in Air => Flight'[a] = Flight[a])

(* A step of one device. *)
Frame(v) == setup' = setup /\ \A w \in VGPUs : w # v => todo'[w] = todo[w] /\ my'[w] = my[w] /\ vgpu'[w] = vgpu[w]

(* Device w holds index i of ring h. *)
HeldAt(h, i, w) == w \in VGPUs /\ Holding(w) /\ Hq(w) = h /\ my[w].index = i

(* The indices that are held, before a step *)
LEMMA IndicesAre == \A h, i : i \in Indices(h) <=> \E w : HeldAt(h, i, w)
BY DEF Indices, HeldAt, Hq

(* and after it. *)
LEMMA IndicesAreNext == \A h, i : i \in Indices(h)' <=> \E w : HeldAt(h, i, w)'
BY DEF Indices, HeldAt, Hq

(* The facts on both sides of a step. *)
LEMMA BothAir == ASSUME VirtualAssumptions, VirtualInv, VirtualInv' PROVE AirFacts /\ AirFacts'
BY AirIs, AirIsNext

(* The packet at one place of a ring. *)
LEMMA OneRing ==
  ASSUME VirtualAssumptions, VirtualInv, VirtualInv', setup' = setup, NEW h \in HwQueues,
         NEW i \in Int,
         i \in ring'[h].read..ring'[h].write - 1 <=> i \in ring[h].read..ring[h].write - 1,
         (ring'[h].running # None /\ i = ring'[h].read - 1) <=> (ring[h].running # None /\ i = ring[h].read - 1),
         (ring[h].running # None /\ i = ring[h].read - 1) => ring'[h].running = ring[h].running,
         i \in ring[h].read..ring[h].write - 1 /\ i \notin Indices(h)
           => ring'[h].slot[i % RingSize] = ring[h].slot[i % RingSize],
         \A w \in VGPUs : HeldAt(h, i, w)' <=> HeldAt(h, i, w),
         \A w \in VGPUs : HeldAt(h, i, w) => my'[w].packet = my[w].packet
  PROVE  /\ InRing(h, i) \in Air' <=> InRing(h, i) \in Air
         /\ InRing(h, i) \in Air => Flight'[InRing(h, i)] = Flight[InRing(h, i)]
<1>1. RingAir(h) /\ RingAir(h)' BY BothAir DEF AirFacts
<1>2. InRing(h, i) \in Air <=> i \in ring[h].read..ring[h].write - 1 \/ (ring[h].running # None /\ i = ring[h].read - 1)
  BY ONLY <1>1 DEF RingAir
<1>3. InRing(h, i) \in Air' <=> i \in ring'[h].read..ring'[h].write - 1 \/ (ring'[h].running # None /\ i = ring'[h].read - 1)
  BY ONLY <1>1 DEF RingAir
<1>4. CASE ring[h].running # None /\ i = ring[h].read - 1
  <2>1. Flight[InRing(h, i)] = ring[h].running BY ONLY <1>1, <1>4 DEF RingAir
  <2>2. Flight'[InRing(h, i)] = ring'[h].running
    <3>1. ring'[h].running # None /\ i = ring'[h].read - 1 BY <1>4
    <3> QED BY ONLY <1>1, <3>1 DEF RingAir
  <2> QED BY <1>2, <1>3, <1>4, <2>1, <2>2
<1>5. CASE i \in ring[h].read..ring[h].write - 1 /\ i \notin Indices(h)
  <2>1. i \in ring'[h].read..ring'[h].write - 1 /\ i \notin Indices(h)'
    <3>1. ~\E w : HeldAt(h, i, w) BY <1>5, IndicesAre
    <3>2. ~\E w : HeldAt(h, i, w)'
      <4>1. \A w : HeldAt(h, i, w)' => w \in VGPUs BY DEF HeldAt
      <4> QED BY <3>1, <4>1
    <3> QED BY <1>5, <3>2, IndicesAreNext
  <2>2. Flight[InRing(h, i)] = ring[h].slot[i % RingSize] BY ONLY <1>1, <1>5 DEF RingAir
  <2>3. Flight'[InRing(h, i)] = ring'[h].slot[i % RingSize] BY ONLY <1>1, <2>1 DEF RingAir
  <2> QED BY <1>2, <1>3, <1>5, <2>1, <2>2, <2>3
<1>6. CASE i \in Indices(h)
  <2>1. PICK w : HeldAt(h, i, w) BY <1>6, IndicesAre
  <2>2. w \in VGPUs /\ HeldAt(h, i, w)' BY <2>1 DEF HeldAt
  <2>3. Flight[InRing(h, i)] = my[w].packet
    BY ONLY BothAir, VirtualAssumptions, VirtualInv, VirtualInv', <2>1 DEF AirFacts, HeldAt
  <2>4. Flight'[InRing(h, i)] = my'[w].packet
    BY ONLY BothAir, VirtualAssumptions, VirtualInv, VirtualInv', <2>2 DEF AirFacts, HeldAt
  <2> QED BY <1>2, <1>3, <2>1, <2>2, <2>3, <2>4
<1> QED BY <1>2, <1>3, <1>4, <1>5, <1>6

(* When the places outside S are steady. *)
LEMMA SteadyFrom ==
  ASSUME VirtualAssumptions, VirtualInv, VirtualInv', NEW S,
         \A h \in HwQueues, i \in Int : InRing(h, i) \notin S =>
            /\ InRing(h, i) \in Air' <=> InRing(h, i) \in Air
            /\ InRing(h, i) \in Air => Flight'[InRing(h, i)] = Flight[InRing(h, i)],
         \A x : InDma(x) \notin S => (x \in dma' <=> x \in dma),
         \A w \in VGPUs : InHand(w) \notin S =>
            /\ HoldPlan(todo'[w]) <=> Holding(w)
            /\ ~Holding(w) => my'[w].packet = my[w].packet
  PROVE  Steady(S)
<1> SUFFICES ASSUME NEW a, a \notin S
             PROVE  (a \in Air' <=> a \in Air) /\ (a \in Air => Flight'[a] = Flight[a])
  BY DEF Steady
<1>1. /\ \A b \in Air : \/ \E h \in HwQueues, i \in Int : b = InRing(h, i)
                        \/ \E x \in dma : b = InDma(x)
                        \/ \E v \in VGPUs : b = InHand(v) /\ ~Holding(v)
      /\ \A x : InDma(x) \in Air <=> x \in dma
      /\ \A x \in dma : Flight[InDma(x)] = x
      /\ \A v : InHand(v) \in Air <=> v \in VGPUs /\ ~Holding(v)
      /\ \A v \in VGPUs : ~Holding(v) => Flight[InHand(v)] = my[v].packet
      /\ \A h, i : InRing(h, i) \in Air => h \in HwQueues /\ i \in Int
  BY BothAir DEF AirFacts
<1>2. /\ \A b \in Air' : \/ \E h \in HwQueues, i \in Int : b = InRing(h, i)
                         \/ \E x \in dma' : b = InDma(x)
                         \/ \E v \in VGPUs : b = InHand(v) /\ ~HoldPlan(todo'[v])
      /\ \A x : InDma(x) \in Air' <=> x \in dma'
      /\ \A x \in dma' : Flight'[InDma(x)] = x
      /\ \A v : InHand(v) \in Air' <=> v \in VGPUs /\ ~HoldPlan(todo'[v])
      /\ \A v \in VGPUs : ~HoldPlan(todo'[v]) => Flight'[InHand(v)] = my'[v].packet
      /\ \A h, i : InRing(h, i) \in Air' => h \in HwQueues /\ i \in Int
  BY BothAir DEF AirFacts, Holding, InRing, InDma, InHand
<1>3. CASE \E h \in HwQueues, i \in Int : a = InRing(h, i) BY <1>3
<1>4. CASE \E x : a = InDma(x) BY <1>1, <1>2, <1>4
<1>5. CASE \E v \in VGPUs : a = InHand(v) BY <1>1, <1>2, <1>5
<1> QED BY <1>1, <1>2, <1>3, <1>4, <1>5

(* The packet a device has is in one place. *)
LEMMA SpotFacts ==
  ASSUME VirtualAssumptions, VirtualInv, NEW v \in VGPUs
  PROVE  SpotOf(v) \in Air /\ Flight[SpotOf(v)] = my[v].packet
<1>1. AirFacts BY AirIs
<1>2. CASE Holding(v)
  <2>1. /\ Flight[InRing(Hq(v), my[v].index)] = my[v].packet
        /\ my[v].index \in ring[Hq(v)].read..ring[Hq(v)].write - 1
    BY ONLY <1>1, <1>2, v \in VGPUs DEF AirFacts
  <2>2. Hq(v) \in HwQueues BY SetupFacts DEF VirtualInv, Basic, Types, Hq
  <2>3. InRing(Hq(v), my[v].index) \in Air BY ONLY <1>1, <2>1, <2>2 DEF AirFacts, RingAir
  <2> QED BY ONLY <1>2, <2>1, <2>3 DEF SpotOf
<1>3. CASE ~Holding(v) BY ONLY <1>1, <1>3, v \in VGPUs DEF AirFacts, SpotOf
<1> QED BY <1>2, <1>3

(* The packet of each device is in its place, *)
SpotIs == \A v \in VGPUs : SpotOf(v) \in Air /\ Flight[SpotOf(v)] = my[v].packet

(* after a step too. *)
LEMMA SpotIsNext == ASSUME VirtualAssumptions PROVE VirtualInv' => SpotIs'
<1>1. VirtualInv => SpotIs BY SpotFacts DEF SpotIs
<1> QED BY <1>1, PTL

(* The same for one device. *)
LEMMA SpotFactsNext ==
  ASSUME VirtualAssumptions, VirtualInv', NEW v \in VGPUs
  PROVE  SpotOf(v)' \in Air' /\ Flight'[SpotOf(v)'] = my'[v].packet
BY SpotIsNext DEF SpotIs

(* A step of a device that leaves its packet where it is. *)
LEMMA SpotEffect ==
  ASSUME VirtualAssumptions, VirtualInv, VirtualInv', NEW v \in VGPUs, Frame(v), ring' = ring,
         dma' = dma,
         HoldPlan(todo'[v]) <=> Holding(v), Holding(v) => my'[v].index = my[v].index
  PROVE  /\ Steady({SpotOf(v)}) /\ SpotOf(v)' = SpotOf(v) /\ SpotOf(v) \in Air /\ SpotOf(v) \in Air'
         /\ Flight[SpotOf(v)] = my[v].packet /\ Flight'[SpotOf(v)] = my'[v].packet
<1>1. setup' = setup /\ \A w \in VGPUs : w # v => todo'[w] = todo[w] /\ my'[w] = my[w] BY DEF Frame
<1>2. SpotOf(v)' = SpotOf(v) BY <1>1 DEF SpotOf, Holding, Hq
<1>3. ASSUME NEW h \in HwQueues, NEW i \in Int, InRing(h, i) # SpotOf(v)
      PROVE  /\ InRing(h, i) \in Air' <=> InRing(h, i) \in Air
             /\ InRing(h, i) \in Air => Flight'[InRing(h, i)] = Flight[InRing(h, i)]
  <2>1. \A w \in VGPUs : HeldAt(h, i, w)' <=> HeldAt(h, i, w) BY <1>1 DEF HeldAt, Holding, Hq
  <2>2. ~HeldAt(h, i, v) BY <1>3 DEF HeldAt, SpotOf
  <2>3. \A w \in VGPUs : HeldAt(h, i, w) => my'[w].packet = my[w].packet BY <1>1, <2>2
  <2> QED BY <1>1, <2>1, <2>3, OneRing
<1>4. Steady({SpotOf(v)})
  <2>1. \A x : x \in dma' <=> x \in dma OBVIOUS
  <2>2. \A w \in VGPUs : InHand(w) # SpotOf(v) =>
            /\ HoldPlan(todo'[w]) <=> Holding(w)
            /\ ~Holding(w) => my'[w].packet = my[w].packet
    BY <1>1 DEF SpotOf, Holding
  <2>3. PICK S : S = {SpotOf(v)} OBVIOUS
  <2>4. Steady(S) BY ONLY VirtualAssumptions, VirtualInv, VirtualInv', <1>3, <2>1, <2>2, <2>3, SteadyFrom
  <2> QED BY ONLY <2>3, <2>4
<1> QED BY <1>2, <1>4, SpotFacts, SpotFactsNext

(* A step that takes an index. *)
LEMMA TakeEffect ==
  ASSUME VirtualAssumptions, VirtualInv, VirtualInv', NEW v \in VGPUs, Reserve(v) \/ Kernel(v),
         NEW n, n = InRing(Hq(v), ring[Hq(v)].write)
  PROVE  /\ Steady({InHand(v), n}) /\ InHand(v) \in Air /\ InHand(v) \notin Air' /\ n \notin Air /\ n \in Air'
         /\ Flight[InHand(v)] = my[v].packet /\ Flight'[n] = my'[v].packet
         /\ SpotOf(v) = InHand(v) /\ SpotOf(v)' = n /\ my'[v].index = ring[Hq(v)].write
         /\ ring[Hq(v)].write \in Nat
         /\ \A i : InRing(Hq(v), i) \in Air => i < ring[Hq(v)].write
<1>1. /\ ring'[Hq(v)] = [ring[Hq(v)] EXCEPT !.write = @ + 1]
      /\ \A g \in HwQueues : g # Hq(v) => ring'[g] = ring[g]
      /\ my'[v].index = ring[Hq(v)].write /\ \A w \in VGPUs : w # v => my'[w] = my[w]
      /\ ring[Hq(v)].write \notin Indices(Hq(v))
  BY ReserveRing DEF Hq
<1>2. ~Holding(v) /\ HoldPlan(todo'[v]) BY HoldSteps DEF VirtualInv, Holding, Host
<1>3. setup' = setup /\ dma' = dma BY DEF Reserve, Kernel, Reserved
<1>4. \A w \in VGPUs : w # v => todo'[w] = todo[w] BY HostTodoTypes DEF VirtualInv, Host
<1>5. /\ ring \in [HwQueues -> RingRecord] /\ Hq(v) \in HwQueues
      /\ ring[Hq(v)].read \in Nat /\ ring[Hq(v)].write \in Nat /\ ring[Hq(v)].read <= ring[Hq(v)].write
  <2>1. ring \in [HwQueues -> RingRecord] /\ setup \in Setups BY DEF VirtualInv, Basic, Types
  <2>2. Hq(v) \in HwQueues BY <2>1, SetupFacts DEF Hq
  <2> QED BY <2>1, <2>2 DEF RingRecord, VirtualInv, RingOK, RingOf, RingPart
<1>6. /\ ring'[Hq(v)].read = ring[Hq(v)].read /\ ring'[Hq(v)].write = ring[Hq(v)].write + 1
      /\ ring'[Hq(v)].running = ring[Hq(v)].running /\ ring'[Hq(v)].slot = ring[Hq(v)].slot
  BY ONLY <1>1, <1>5 DEF RingRecord
<1>7. SpotOf(v) = InHand(v) /\ SpotOf(v)' = n BY <1>1, <1>2, <1>3 DEF SpotOf, Holding, Hq
<1>8. ASSUME NEW h \in HwQueues, NEW i \in Int, InRing(h, i) # n
      PROVE  /\ InRing(h, i) \in Air' <=> InRing(h, i) \in Air
             /\ InRing(h, i) \in Air => Flight'[InRing(h, i)] = Flight[InRing(h, i)]
  <2>1. ~(h = Hq(v) /\ i = ring[Hq(v)].write) BY <1>8
  <2>2. \A w \in VGPUs : HeldAt(h, i, w)' <=> HeldAt(h, i, w)
    BY <1>1, <1>2, <1>3, <1>4, <2>1 DEF HeldAt, Holding, Hq
  <2>3. \A w \in VGPUs : HeldAt(h, i, w) => my'[w].packet = my[w].packet BY <1>1, <1>2 DEF HeldAt
  <2>4. /\ i \in ring'[h].read..ring'[h].write - 1 <=> i \in ring[h].read..ring[h].write - 1
        /\ ring'[h].read = ring[h].read /\ ring'[h].running = ring[h].running /\ ring'[h].slot = ring[h].slot
    <3>1. CASE h = Hq(v)
      <4>1. i # ring[Hq(v)].write BY <3>1, <2>1
      <4> QED BY <3>1, <4>1, <1>5, <1>6
    <3>2. CASE h # Hq(v) BY <3>2, <1>1
    <3> QED BY <3>1, <3>2
  <2> QED BY <1>3, <2>2, <2>3, <2>4, OneRing
<1>9. PICK S : S = {InHand(v), n} OBVIOUS
<1>10. Steady(S)
  <2>1. \A x : x \in dma' <=> x \in dma BY <1>3
  <2>2. \A w \in VGPUs : InHand(w) # InHand(v) =>
            /\ HoldPlan(todo'[w]) <=> Holding(w)
            /\ ~Holding(w) => my'[w].packet = my[w].packet
    BY <1>1, <1>4 DEF Holding
  <2> QED BY ONLY VirtualAssumptions, VirtualInv, VirtualInv', <1>8, <1>9, <2>1, <2>2, SteadyFrom
<1>11. AirFacts /\ AirFacts' BY BothAir
<1>12. InHand(v) \in Air /\ InHand(v) \notin Air'
  <2>1. InHand(v) \in Air <=> ~Holding(v) BY ONLY <1>11, v \in VGPUs DEF AirFacts
  <2>2. InHand(v) \in Air' <=> ~HoldPlan(todo'[v])
    BY ONLY <1>11, v \in VGPUs DEF AirFacts, Holding, InHand
  <2> QED BY <1>2, <2>1, <2>2
<1>13. \A i : InRing(Hq(v), i) \in Air => i < ring[Hq(v)].write
  <2> SUFFICES ASSUME NEW i, InRing(Hq(v), i) \in Air PROVE i < ring[Hq(v)].write OBVIOUS
  <2>1. i \in ring[Hq(v)].read..ring[Hq(v)].write - 1 \/ i = ring[Hq(v)].read - 1
    BY ONLY <1>5, <1>11, InRing(Hq(v), i) \in Air DEF AirFacts, RingAir
  <2> QED BY <1>5, <2>1
<1>14. n \notin Air
  <2> SUFFICES ASSUME n \in Air PROVE FALSE OBVIOUS
  <2>1. ring[Hq(v)].write < ring[Hq(v)].write BY <1>13
  <2> QED BY <2>1, <1>5
<1> QED BY <1>1, <1>5, <1>7, <1>9, <1>10, <1>12, <1>13, <1>14, SpotFacts, SpotFactsNext

(* The packet is stored: it stays where it is, and the hands are empty. *)
LEMMA WriteEffect ==
  ASSUME VirtualAssumptions, VirtualInv, VirtualInv', NEW v \in VGPUs, Write(v)
  PROVE  /\ Steady({InHand(v)}) /\ InHand(v) \notin Air /\ InHand(v) \in Air'
         /\ Flight'[InHand(v)] = Nothing
         /\ Holding(v) /\ ~HoldPlan(todo'[v])
         /\ SpotOf(v) = InRing(Hq(v), my[v].index) /\ SpotOf(v)' = InHand(v)
<1>2. Holding(v) /\ ~HoldPlan(todo'[v]) BY HoldSteps DEF VirtualInv, Holding, Host
<1>3. setup' = setup /\ dma' = dma BY DEF Write
<1>4. \A w \in VGPUs : w # v => todo'[w] = todo[w] BY HostTodoTypes DEF VirtualInv, Host
<1>5. /\ ring \in [HwQueues -> RingRecord] /\ Hq(v) \in HwQueues
      /\ my \in [VGPUs -> MyRecord] /\ my[v].index \in Nat
  <2>1. ring \in [HwQueues -> RingRecord] /\ setup \in Setups /\ my \in [VGPUs -> MyRecord]
    BY DEF VirtualInv, Basic, Types
  <2> QED BY <2>1, SetupFacts DEF Hq, MyRecord
<1>6. /\ ring' = [ring EXCEPT ![Hq(v)].slot[my[v].index % RingSize] = my[v].packet]
      /\ my' = [my EXCEPT ![v].packet = Nothing, ![v].index = 0]
  BY DEF Write, Hq
<1>7. my'[v].packet = Nothing /\ \A w \in VGPUs : w # v => my'[w] = my[w] BY <1>5, <1>6 DEF MyRecord
<1>8. /\ \A g \in HwQueues : g # Hq(v) => ring'[g] = ring[g]
      /\ \A g \in HwQueues : ring'[g].read = ring[g].read /\ ring'[g].write = ring[g].write
                             /\ ring'[g].running = ring[g].running
      /\ \A k \in 0..RingSize - 1 : k # my[v].index % RingSize => ring'[Hq(v)].slot[k] = ring[Hq(v)].slot[k]
      /\ ring'[Hq(v)].slot[my[v].index % RingSize] = my[v].packet
  <2>0. RingSize \in Nat \ {0, 1} BY SetupFacts DEF VirtualInv, Basic, Types
  <2>1. PICK k \in 0..RingSize - 1 : k = my[v].index % RingSize BY <1>5, <2>0
  <2>2. ring' = [ring EXCEPT ![Hq(v)].slot[k] = my[v].packet] BY <1>6, <2>1
  <2>3. /\ \A g \in HwQueues : g # Hq(v) => ring'[g] = ring[g]
        /\ \A g \in HwQueues : ring'[g].read = ring[g].read /\ ring'[g].write = ring[g].write
                               /\ ring'[g].running = ring[g].running
        /\ \A j \in 0..RingSize - 1 : j # k => ring'[Hq(v)].slot[j] = ring[Hq(v)].slot[j]
        /\ ring'[Hq(v)].slot[k] = my[v].packet
    BY ONLY <1>5, <2>2, k \in 0..RingSize - 1 DEF RingRecord
  <2> QED BY ONLY <2>1, <2>3
<1>9. ring[Hq(v)].slot[my[v].index % RingSize] = None BY WriteRing DEF Write, Hq
<1>10. AirFacts /\ AirFacts' BY BothAir
<1>11. ASSUME NEW h \in HwQueues, NEW i \in Int, InRing(h, i) # SpotOf(v)
       PROVE  /\ InRing(h, i) \in Air' <=> InRing(h, i) \in Air
              /\ InRing(h, i) \in Air => Flight'[InRing(h, i)] = Flight[InRing(h, i)]
  <2>1. ~(h = Hq(v) /\ i = my[v].index) BY <1>2, <1>11 DEF SpotOf
  <2>2. \A w \in VGPUs : HeldAt(h, i, w)' <=> HeldAt(h, i, w)
    BY <1>2, <1>3, <1>4, <1>7, <2>1 DEF HeldAt, Holding, Hq
  <2>3. \A w \in VGPUs : HeldAt(h, i, w) => my'[w].packet = my[w].packet BY <1>7, <2>1 DEF HeldAt
  <2>4. i \in ring[h].read..ring[h].write - 1 /\ i \notin Indices(h)
          => ring'[h].slot[i % RingSize] = ring[h].slot[i % RingSize]
    <3> SUFFICES ASSUME i \in ring[h].read..ring[h].write - 1, i \notin Indices(h), h = Hq(v)
                 PROVE  ring'[h].slot[i % RingSize] = ring[h].slot[i % RingSize]
      BY <1>8
    <3>1. i % RingSize \in 0..RingSize - 1
      <4>1. ring[h].read \in Nat /\ ring[h].write \in Nat BY <1>5 DEF RingRecord
      <4> QED BY <4>1, SetupFacts DEF VirtualInv, Basic, Types
    <3>2. ring[h].slot[i % RingSize] # None BY DEF VirtualInv, RingOK, RingOf, RingPart
    <3> QED BY <1>8, <1>9, <3>1, <3>2
  <2> QED BY <1>3, <1>8, <2>2, <2>3, <2>4, OneRing
<1>12. SpotOf(v) = InRing(Hq(v), my[v].index) /\ SpotOf(v)' = InHand(v) BY <1>2 DEF SpotOf, Holding
<1>13. InRing(Hq(v), my[v].index) \in Air' /\ Flight'[InRing(Hq(v), my[v].index)] = my[v].packet
  <2>0. PICK h \in HwQueues : h = Hq(v) BY <1>5
  <2>1. my[v].index \in ring[h].read..ring[h].write - 1
    BY ONLY <1>2, <1>10, <2>0, v \in VGPUs DEF AirFacts
  <2>5. PICK n : n = my[v].index OBVIOUS
  <2>2. n \in ring'[h].read..ring'[h].write - 1 BY ONLY <1>8, <2>1, <2>5, h \in HwQueues
  <2>3. n \notin Indices(h)'
    <3> SUFFICES ASSUME NEW w, HeldAt(h, n, w)' PROVE FALSE BY IndicesAreNext
    <3>1. w \in VGPUs /\ w # v /\ HoldPlan(todo'[w]) /\ Hq(w) = h /\ my'[w].index = n
      BY <1>2, <1>3 DEF HeldAt, Holding, Hq
    <3>2. Holding(w) /\ my[w].index = n BY <1>4, <1>7, <3>1 DEF Holding
    <3> QED BY <1>2, <2>0, <2>5, <3>1, <3>2 DEF VirtualInv, RingOK, OwnIndex, Hq
  <2>4. RingAir(h)' BY ONLY h \in HwQueues, <1>10 DEF AirFacts
  <2>6. InRing(h, n) \in Air' /\ Flight'[InRing(h, n)] = ring'[h].slot[n % RingSize]
    BY ONLY <2>2, <2>3, <2>4 DEF RingAir
  <2> QED BY ONLY <1>8, <2>0, <2>5, <2>6
<1>14. InRing(Hq(v), my[v].index) \in Air /\ Flight[InRing(Hq(v), my[v].index)] = my[v].packet
  BY <1>12, SpotFacts
<1>15. Steady({InHand(v)})
  <2>1. \A x : x \in dma' <=> x \in dma BY <1>3
  <2>2. \A w \in VGPUs : InHand(w) # InHand(v) =>
            /\ HoldPlan(todo'[w]) <=> Holding(w)
            /\ ~Holding(w) => my'[w].packet = my[w].packet
    BY <1>4, <1>7 DEF Holding
  <2>3. PICK S : S = {InHand(v)} OBVIOUS
  <2>4. \A h \in HwQueues, i \in Int :
            /\ InRing(h, i) \in Air' <=> InRing(h, i) \in Air
            /\ InRing(h, i) \in Air => Flight'[InRing(h, i)] = Flight[InRing(h, i)]
    <3> SUFFICES ASSUME NEW h \in HwQueues, NEW i \in Int
                 PROVE  /\ InRing(h, i) \in Air' <=> InRing(h, i) \in Air
                        /\ InRing(h, i) \in Air => Flight'[InRing(h, i)] = Flight[InRing(h, i)]
      OBVIOUS
    <3>1. CASE InRing(h, i) # SpotOf(v) BY <1>11, <3>1
    <3>2. CASE InRing(h, i) = SpotOf(v) BY ONLY <3>2, <1>12, <1>13, <1>14
    <3> QED BY <3>1, <3>2
  <2>5. Steady(S) BY ONLY VirtualAssumptions, VirtualInv, VirtualInv', <2>1, <2>2, <2>3, <2>4, SteadyFrom
  <2> QED BY ONLY <2>3, <2>5
<1>16. InHand(v) \notin Air BY ONLY <1>2, <1>10 DEF AirFacts
<1>17. InHand(v) \in Air' /\ Flight'[InHand(v)] = my'[v].packet BY <1>12, SpotFactsNext
<1> QED BY ONLY <1>2, <1>7, <1>12, <1>15, <1>16, <1>17

(* A copy leaves the hands of its device for an engine. *)
LEMMA StartCopyEffect ==
  ASSUME VirtualAssumptions, VirtualInv, VirtualInv', NEW v \in VGPUs, StartCopy(v), NEW x,
         x = [cmd |-> my[v].cmd, deps |-> my[v].packet.deps, signal |-> my[v].packet.signal]
  PROVE  /\ Steady({InHand(v), InDma(x)}) /\ InHand(v) \in Air /\ InHand(v) \in Air'
         /\ Flight[InHand(v)] = my[v].packet /\ Flight'[InHand(v)] = Nothing
         /\ InDma(x) \in Air' /\ Flight'[InDma(x)] = x /\ dma' = dma \cup {x}
         /\ ~Holding(v) /\ ~HoldPlan(todo'[v]) /\ SpotOf(v) = InHand(v) /\ SpotOf(v)' = InHand(v)
<1>1. setup' = setup /\ ring' = ring /\ dma' = dma \cup {x} /\ my' = [my EXCEPT ![v].packet = Nothing]
  BY DEF StartCopy
<1>2. ~Holding(v) /\ ~HoldPlan(todo'[v])
  <2>1. HoldPlan(todo'[v]) <=> HoldPlan(todo[v])
    BY HoldSteps DEF VirtualInv, Host, StartCopy, Reserve, Kernel, Write, Do
  <2>2. Planned(todo[v]) BY DEF VirtualInv, Basic, Plans
  <2>3. ~HoldPlan(todo[v]) BY <2>2 DEF HoldPlan, StartCopy, Do
  <2> QED BY <2>1, <2>3 DEF Holding
<1>3. my \in [VGPUs -> MyRecord] BY DEF VirtualInv, Basic, Types
<1>4. my'[v].packet = Nothing /\ \A w \in VGPUs : w # v => my'[w] = my[w] BY <1>1, <1>3 DEF MyRecord
<1>5. \A w \in VGPUs : w # v => todo'[w] = todo[w] BY HostTodoTypes DEF VirtualInv, Host
<1>6. AirFacts /\ AirFacts' BY BothAir
<1>7. Steady({InHand(v), InDma(x)})
  <2>1. PICK S : S = {InHand(v), InDma(x)} OBVIOUS
  <2>2. \A y : InDma(y) \notin S => (y \in dma' <=> y \in dma) BY <1>1, <2>1
  <2>3. \A w \in VGPUs : InHand(w) \notin S =>
            /\ HoldPlan(todo'[w]) <=> Holding(w)
            /\ ~Holding(w) => my'[w].packet = my[w].packet
    BY <1>4, <1>5, <2>1 DEF Holding
  <2>4. \A h \in HwQueues, i \in Int :
            /\ InRing(h, i) \in Air' <=> InRing(h, i) \in Air
            /\ InRing(h, i) \in Air => Flight'[InRing(h, i)] = Flight[InRing(h, i)]
    <3> SUFFICES ASSUME NEW h \in HwQueues, NEW i \in Int
                 PROVE  /\ InRing(h, i) \in Air' <=> InRing(h, i) \in Air
                        /\ InRing(h, i) \in Air => Flight'[InRing(h, i)] = Flight[InRing(h, i)]
      OBVIOUS
    <3>1. \A w \in VGPUs : HeldAt(h, i, w)' <=> HeldAt(h, i, w)
      BY <1>1, <1>2, <1>4, <1>5 DEF HeldAt, Holding, Hq
    <3>2. \A w \in VGPUs : HeldAt(h, i, w) => my'[w].packet = my[w].packet BY <1>2, <1>4 DEF HeldAt
    <3> QED BY <1>1, <3>1, <3>2, OneRing
  <2>5. Steady(S) BY ONLY VirtualAssumptions, VirtualInv, VirtualInv', <2>2, <2>3, <2>4, SteadyFrom
  <2> QED BY ONLY <2>1, <2>5
<1>8. SpotOf(v) = InHand(v) /\ SpotOf(v)' = InHand(v) BY <1>2 DEF SpotOf, Holding
<1>9. x \in dma' BY <1>1
<1>10. InDma(x) \in Air' /\ Flight'[InDma(x)] = x BY ONLY <1>6, <1>9 DEF AirFacts, InDma
<1> QED
  BY ONLY <1>1, <1>2, <1>4, <1>7, <1>8, <1>10, SpotFacts, SpotFactsNext, VirtualAssumptions,
     VirtualInv, VirtualInv', v \in VGPUs

(* The processor takes the packet at the head of its ring. *)
LEMMA ConsumeEffect ==
  ASSUME VirtualAssumptions, VirtualInv, VirtualInv', NEW h \in HwQueues,
         StartKernel(h) \/ PassBarrier(h),
         NEW r, r = ring[h].read
  PROVE  /\ \A g \in HwQueues, i \in Int : InRing(g, i) # InRing(h, r) =>
              /\ InRing(g, i) \in Air' <=> InRing(g, i) \in Air
              /\ InRing(g, i) \in Air => Flight'[InRing(g, i)] = Flight[InRing(g, i)]
         /\ r \in Nat /\ InRing(h, r) \in Air /\ Flight[InRing(h, r)] = AtHead(h) /\ AtHead(h) # None
         /\ \A i : InRing(h, i) \in Air => i >= r
         /\ ring'[h].read = r + 1 /\ ring'[h].running = IF StartKernel(h) THEN AtHead(h) ELSE None
<1>1. RingOK' /\ r \notin Indices(h) /\ r < ring[h].write BY ConsumeRing
<1>2. /\ setup' = setup /\ todo' = todo /\ my' = my /\ AtHead(h) # None /\ ring[h].running = None
      /\ \E x : ring' = Consumed(h, x) /\ x = (IF StartKernel(h) THEN AtHead(h) ELSE None)
  <2>1. StartKernel(h) => AtHead(h).kind = "kernel" BY DEF StartKernel, Ready
  <2>2. PassBarrier(h) => AtHead(h).kind = "barrier" BY DEF PassBarrier, Ready
  <2> QED BY <2>1, <2>2 DEF StartKernel, PassBarrier, Ready
<1>3. AtHead(h) \in Packet \cup {None} BY SlotFacts DEF VirtualInv, Basic
<1>4. /\ ring'[h].read = r + 1 /\ ring'[h].write = ring[h].write
      /\ ring'[h].running = (IF StartKernel(h) THEN AtHead(h) ELSE None)
      /\ ring'[h].slot = [ring[h].slot EXCEPT ![r % RingSize] = None]
      /\ \A g \in HwQueues : g # h => ring'[g] = ring[g]
  BY <1>2, <1>3, ConsumedRing DEF VirtualInv, Basic
<1>5. /\ ring[h].read \in Nat /\ ring[h].write \in Nat /\ r \in Nat
      /\ ring[h].slot \in [0..RingSize - 1 -> Packet \cup {None}]
      /\ \A i \in Nat : i % RingSize \in 0..RingSize - 1
      /\ AtHead(h) = ring[h].slot[r % RingSize]
  BY SlotFacts DEF VirtualInv, Basic, AtHead
<1>6. AirFacts BY AirIs
<1>7. InRing(h, r) \in Air /\ Flight[InRing(h, r)] = AtHead(h)
  <2>1. r \in ring[h].read..ring[h].write - 1
    <3>1. r < ring[h].write /\ ring[h].write \in Nat /\ r \in Nat /\ ring[h].read = r
      BY ONLY <1>1, <1>5, r = ring[h].read
    <3> QED BY ONLY <3>1
  <2>2. Flight[InRing(h, r)] = ring[h].slot[r % RingSize] /\ InRing(h, r) \in Air
    BY ONLY <1>1, r = ring[h].read, <1>6, <2>1, h \in HwQueues DEF AirFacts, RingAir
  <2> QED BY ONLY <1>5, <2>2
<1>8. \A i : InRing(h, i) \in Air => i >= r
  <2> SUFFICES ASSUME NEW i, InRing(h, i) \in Air PROVE i >= r OBVIOUS
  <2>1. i \in ring[h].read..ring[h].write - 1
    BY ONLY <1>2, <1>6, InRing(h, i) \in Air, h \in HwQueues DEF AirFacts, RingAir
  <2> QED BY <1>5, <2>1
<1>9. ASSUME NEW g \in HwQueues, NEW i \in Int, InRing(g, i) # InRing(h, r)
      PROVE  /\ InRing(g, i) \in Air' <=> InRing(g, i) \in Air
             /\ InRing(g, i) \in Air => Flight'[InRing(g, i)] = Flight[InRing(g, i)]
  <2>1. \A w \in VGPUs : (HeldAt(g, i, w)' <=> HeldAt(g, i, w)) /\ my'[w].packet = my[w].packet
    BY <1>2 DEF HeldAt, Holding, Hq
  <2>2. CASE g # h BY <1>2, <1>4, <2>1, <2>2, OneRing
  <2>3. CASE g = h
    <3>1. i # r BY <1>9, <2>3
    <3>2. i \in ring'[h].read..ring'[h].write - 1 <=> i \in ring[h].read..ring[h].write - 1
      <4>1. PICK w \in Nat : w = ring[h].write /\ w = ring'[h].write BY <1>4, <1>5
      <4>2. i \in r + 1..w - 1 <=> i \in r..w - 1
        <5>1. r < w /\ w \in Nat /\ r \in Nat BY ONLY <4>1, <1>1, <1>5, w \in Nat
        <5> QED BY ONLY <3>1, <5>1, i \in Int
      <4> QED BY ONLY <4>1, <4>2, <1>4, r = ring[h].read
    <3>3. ~(ring'[h].running # None /\ i = ring'[h].read - 1) /\ ~(ring[h].running # None /\ i = ring[h].read - 1)
      <4>1. ring'[h].read - 1 = r BY ONLY <1>4, <1>5
      <4> QED BY ONLY <4>1, <3>1, <1>2
    <3>4. i \in ring[h].read..ring[h].write - 1 /\ i \notin Indices(h)
            => ring'[h].slot[i % RingSize] = ring[h].slot[i % RingSize]
      <4> SUFFICES ASSUME i \in ring[h].read..ring[h].write - 1, i \notin Indices(h)
                   PROVE  ring'[h].slot[i % RingSize] = ring[h].slot[i % RingSize]
        OBVIOUS
      <4>1. i \in (ring'[h].read..ring'[h].write - 1) /\ i \in Nat BY <3>2, <1>5
      <4>2. i \notin Indices(h)'
        <5>1. ~\E w : HeldAt(h, i, w) BY IndicesAre
        <5>2. ~\E w : HeldAt(h, i, w)' BY <2>1, <2>3, <5>1 DEF HeldAt
        <5> QED BY <5>2, IndicesAreNext
      <4>3. ring'[h].slot[i % RingSize] # None BY <1>1, <4>1, <4>2 DEF RingOK, RingOf, RingPart
      <4>4. i % RingSize # r % RingSize /\ i % RingSize \in 0..RingSize - 1 BY <1>4, <1>5, <4>1, <4>3
      <4> QED BY <1>4, <1>5, <4>4
    <3> QED BY <1>2, <2>1, <2>3, <3>2, <3>3, <3>4, OneRing
  <2> QED BY <2>2, <2>3
<1> QED BY <1>2, <1>4, <1>5, <1>7, <1>8, <1>9

(* A kernel that starts stays where it is. *)
LEMMA StartKernelEffect ==
  ASSUME VirtualAssumptions, VirtualInv, VirtualInv', NEW h \in HwQueues, StartKernel(h)
  PROVE  Steady({}) /\ setup' = setup /\ todo' = todo /\ my' = my
<1>1. PICK r : r = ring[h].read OBVIOUS
<1>2. /\ \A g \in HwQueues, i \in Int : InRing(g, i) # InRing(h, r) =>
           /\ InRing(g, i) \in Air' <=> InRing(g, i) \in Air
           /\ InRing(g, i) \in Air => Flight'[InRing(g, i)] = Flight[InRing(g, i)]
      /\ r \in Nat /\ InRing(h, r) \in Air /\ Flight[InRing(h, r)] = AtHead(h) /\ AtHead(h) # None
      /\ ring'[h].read = r + 1 /\ ring'[h].running = AtHead(h)
  BY <1>1, ConsumeEffect
<1>3. setup' = setup /\ todo' = todo /\ my' = my /\ dma' = dma BY DEF StartKernel
<1>4. RingAir(h)' BY BothAir DEF AirFacts
<1>5. InRing(h, r) \in Air' /\ Flight'[InRing(h, r)] = AtHead(h)
  <2>1. ring'[h].running # None /\ ring'[h].read - 1 = r BY <1>2
  <2> QED BY ONLY <1>2, <1>4, <2>1 DEF RingAir
<1>6. PICK S : S = {} OBVIOUS
<1>7. Steady(S)
  <2>1. \A x : x \in dma' <=> x \in dma BY <1>3
  <2>2. \A w \in VGPUs : (HoldPlan(todo'[w]) <=> Holding(w)) /\ my'[w].packet = my[w].packet
    BY <1>3 DEF Holding
  <2>3. \A g \in HwQueues, i \in Int :
           /\ InRing(g, i) \in Air' <=> InRing(g, i) \in Air
           /\ InRing(g, i) \in Air => Flight'[InRing(g, i)] = Flight[InRing(g, i)]
    BY ONLY <1>2, <1>5
  <2> QED BY ONLY VirtualAssumptions, VirtualInv, VirtualInv', <2>1, <2>2, <2>3, SteadyFrom
<1> QED BY ONLY <1>3, <1>6, <1>7

----------------------------------------
(* What the GPU finishes leaves the air, from the front of its ring. *)
Finishes(a) ==
  /\ Steady({a}) /\ a \in Air /\ a \notin Air'
  /\ \A h, i, k : a = InRing(h, k) /\ InRing(h, i) \in Air => i >= k
  /\ ~\E v : a = InHand(v)
  /\ signal' = Lowered(Flight[a].signal) /\ Finished(Flight[a].cmd)
  /\ \/ Satisfied(Flight[a].deps)
     \/ Flight[a].kind = "kernel" /\ \E h \in HwQueues, k \in Int : a = InRing(h, k)
  /\ setup' = setup /\ created' = created /\ command' = command /\ vgpu' = vgpu /\ todo' = todo /\ my' = my
  /\ \A x \in dma' : x \in dma

(* The end of a kernel, *)
LEMMA EndKernelFinishes ==
  ASSUME VirtualAssumptions, VirtualInv, VirtualInv', NEW h \in HwQueues, EndKernel(h)
  PROVE  \E a : Finishes(a)
<1>1. PICK k : k = ring[h].read - 1 OBVIOUS
<1>2. PICK a : a = InRing(h, k) OBVIOUS
<1>3. /\ ring'[h].read = ring[h].read /\ ring'[h].write = ring[h].write
      /\ ring'[h].slot = ring[h].slot /\ ring'[h].running = None
      /\ \A g \in HwQueues : g # h => ring'[g] = ring[g]
  BY EndKernelRing
<1>4. /\ ring[h].running # None /\ signal' = Lowered(ring[h].running.signal) /\ Finished(ring[h].running.cmd)
      /\ setup' = setup /\ created' = created /\ command' = command /\ vgpu' = vgpu /\ todo' = todo /\ my' = my
      /\ dma' = dma
  BY DEF EndKernel
<1>5. /\ ring[h].read \in Nat /\ ring[h].write \in Nat /\ ring[h].running.kind = "kernel"
  BY <1>4, SlotFacts DEF VirtualInv, Basic, RingOK, RunningOf
<1>6. RingAir(h) /\ RingAir(h)' BY BothAir DEF AirFacts
<1>7. a \in Air /\ Flight[a] = ring[h].running BY ONLY <1>1, <1>2, <1>4, <1>6 DEF RingAir
<1>8. a \notin Air'
  <2>1. InRing(h, k) \in Air' => k \in ring'[h].read..ring'[h].write - 1 BY ONLY <1>3, <1>6 DEF RingAir
  <2> QED BY <1>1, <1>2, <1>3, <1>5, <2>1
<1>9. \A i : InRing(h, i) \in Air => i >= k
  <2> SUFFICES ASSUME NEW i, InRing(h, i) \in Air PROVE i >= k OBVIOUS
  <2>1. i \in ring[h].read..ring[h].write - 1 \/ i = ring[h].read - 1
    BY ONLY <1>6, InRing(h, i) \in Air DEF RingAir
  <2> QED BY <1>1, <1>5, <2>1
<1>10. ASSUME NEW g \in HwQueues, NEW i \in Int, InRing(g, i) # a
       PROVE  /\ InRing(g, i) \in Air' <=> InRing(g, i) \in Air
              /\ InRing(g, i) \in Air => Flight'[InRing(g, i)] = Flight[InRing(g, i)]
  <2>1. \A w \in VGPUs : (HeldAt(g, i, w)' <=> HeldAt(g, i, w)) /\ my'[w].packet = my[w].packet
    BY <1>4 DEF HeldAt, Holding, Hq
  <2>2. ~(g = h /\ i = ring[h].read - 1) BY <1>1, <1>2, <1>10
  <2> QED BY <1>3, <1>4, <2>1, <2>2, OneRing
<1>11. Steady({a})
  <2>1. PICK S : S = {a} OBVIOUS
  <2>2. \A x : x \in dma' <=> x \in dma BY <1>4
  <2>3. \A w \in VGPUs : (HoldPlan(todo'[w]) <=> Holding(w)) /\ my'[w].packet = my[w].packet
    BY <1>4 DEF Holding
  <2>4. Steady(S) BY ONLY VirtualAssumptions, VirtualInv, VirtualInv', <1>10, <2>1, <2>2, <2>3, SteadyFrom
  <2> QED BY ONLY <2>1, <2>4
<1>12. (\A g, i, j : a = InRing(g, j) /\ InRing(g, i) \in Air => i >= j) /\ ~\E v : a = InHand(v)
  BY ONLY <1>2, <1>9, PlacesApart
<1>13. Flight[a].kind = "kernel" /\ \E g \in HwQueues, j \in Int : a = InRing(g, j)
  BY <1>1, <1>2, <1>5, <1>7
<1> QED BY ONLY <1>4, <1>7, <1>8, <1>11, <1>12, <1>13 DEF Finishes

(* of a barrier whose signals have fallen, *)
LEMMA PassBarrierFinishes ==
  ASSUME VirtualAssumptions, VirtualInv, VirtualInv', NEW h \in HwQueues, PassBarrier(h)
  PROVE  \E a : Finishes(a)
<1>1. PICK r : r = ring[h].read OBVIOUS
<1>2. PICK a : a = InRing(h, r) OBVIOUS
<1>3. /\ \A g \in HwQueues, i \in Int : InRing(g, i) # a =>
           /\ InRing(g, i) \in Air' <=> InRing(g, i) \in Air
           /\ InRing(g, i) \in Air => Flight'[InRing(g, i)] = Flight[InRing(g, i)]
      /\ r \in Nat /\ a \in Air /\ Flight[a] = AtHead(h)
      /\ \A i : InRing(h, i) \in Air => i >= r
      /\ ring'[h].read = r + 1 /\ ring'[h].running = IF StartKernel(h) THEN AtHead(h) ELSE None
  BY <1>1, <1>2, ConsumeEffect
<1>4. /\ signal' = Lowered(AtHead(h).signal) /\ Finished(AtHead(h).cmd) /\ Satisfied(AtHead(h).deps)
      /\ setup' = setup /\ created' = created /\ command' = command /\ vgpu' = vgpu /\ todo' = todo /\ my' = my
      /\ dma' = dma /\ AtHead(h).kind = "barrier"
  BY DEF PassBarrier, Ready
<1>5. ~StartKernel(h) BY <1>4 DEF StartKernel, Ready
<1>6. RingAir(h)' BY BothAir DEF AirFacts
<1>7. a \notin Air'
  <2>1. InRing(h, r) \in Air' => r \in ring'[h].read..ring'[h].write - 1
    BY ONLY <1>3, <1>5, <1>6 DEF RingAir
  <2>2. ring'[h].write \in Nat BY <1>3, SlotFacts DEF VirtualInv, Basic, Types, RingRecord
  <2> QED BY <1>2, <1>3, <2>1, <2>2
<1>8. Steady({a})
  <2>1. PICK S : S = {a} OBVIOUS
  <2>2. \A x : x \in dma' <=> x \in dma BY <1>4
  <2>3. \A w \in VGPUs : (HoldPlan(todo'[w]) <=> Holding(w)) /\ my'[w].packet = my[w].packet
    BY <1>4 DEF Holding
  <2>4. Steady(S) BY ONLY VirtualAssumptions, VirtualInv, VirtualInv', <1>3, <2>1, <2>2, <2>3, SteadyFrom
  <2> QED BY ONLY <2>1, <2>4
<1>9. (\A g, i, j : a = InRing(g, j) /\ InRing(g, i) \in Air => i >= j) /\ ~\E v : a = InHand(v)
  BY ONLY <1>2, <1>3, PlacesApart
<1> QED BY ONLY <1>3, <1>4, <1>7, <1>8, <1>9 DEF Finishes

(* and of a copy finish what is in the place. *)
LEMMA RunCopyFinishes ==
  ASSUME VirtualAssumptions, VirtualInv, VirtualInv', NEW x \in dma, RunCopy(x)
  PROVE  \E a : Finishes(a)
<1>1. PICK a : a = InDma(x) OBVIOUS
<1>2. /\ signal' = Lowered(x.signal) /\ Finished(x.cmd) /\ Satisfied(x.deps) /\ dma' = dma \ {x}
      /\ setup' = setup /\ created' = created /\ command' = command /\ vgpu' = vgpu /\ todo' = todo /\ my' = my
      /\ ring' = ring
  BY DEF RunCopy
<1>3. a \in Air /\ Flight[a] = x BY <1>1, BothAir DEF AirFacts
<1>4. x \notin dma' BY <1>2
<1>5. a \notin Air' BY <1>1, <1>4, BothAir DEF AirFacts, InDma
<1>6. Steady({a})
  <2>1. PICK S : S = {a} OBVIOUS
  <2>2. \A y : InDma(y) \notin S => (y \in dma' <=> y \in dma) BY <1>1, <1>2, <2>1
  <2>3. \A w \in VGPUs : (HoldPlan(todo'[w]) <=> Holding(w)) /\ my'[w].packet = my[w].packet
    BY <1>2 DEF Holding
  <2>5. \A h \in HwQueues, i \in Int :
            /\ InRing(h, i) \in Air' <=> InRing(h, i) \in Air
            /\ InRing(h, i) \in Air => Flight'[InRing(h, i)] = Flight[InRing(h, i)]
    <3> SUFFICES ASSUME NEW h \in HwQueues, NEW i \in Int
                 PROVE  /\ InRing(h, i) \in Air' <=> InRing(h, i) \in Air
                        /\ InRing(h, i) \in Air => Flight'[InRing(h, i)] = Flight[InRing(h, i)]
      OBVIOUS
    <3>1. \A w \in VGPUs : (HeldAt(h, i, w)' <=> HeldAt(h, i, w)) /\ my'[w].packet = my[w].packet
      BY <1>2 DEF HeldAt, Holding, Hq
    <3> QED BY <1>2, <3>1, OneRing
  <2>4. Steady(S) BY ONLY VirtualAssumptions, VirtualInv, VirtualInv', <2>2, <2>3, <2>5, SteadyFrom
  <2> QED BY ONLY <2>1, <2>4
<1>7. (\A g, i, j : a = InRing(g, j) /\ InRing(g, i) \in Air => i >= j) /\ ~\E v : a = InHand(v)
  BY ONLY <1>1, PlacesApart
<1> QED BY ONLY <1>2, <1>3, <1>5, <1>6, <1>7 DEF Finishes

----------------------------------------
(* The invariant of what is in the air. *)

(* The signals of the pool, those of the chunks and the null signal are
   different. *)
LEMMA SignalKinds ==
  ASSUME VirtualAssumptions
  PROVE  /\ \A s \in Pool : s \in Signals /\ s # None /\ s # NoTicket.signal
         /\ \A v \in VGPUs, k \in Chunks : <<v, k>> \in Signals /\ <<v, k>> \notin Pool /\ <<v, k>> # NoTicket.signal
         /\ NoTicket.signal = None
BY Kinds DEF NoTicket

(* What lowers a signal has one, which is busy. *)
LEMMA LowersIs ==
  ASSUME VirtualAssumptions, SignalInv, NEW a \in Air, NEW s \in Signals, Lowers(a) = s
  PROVE  /\ HasSignal(a) /\ Busy(s) /\ Flight[a].signal = Now(s)
         /\ \A b \in Air : Lowers(b) = s => a = b
<1>1. HasSignal(a) BY Kinds DEF HasSignal, Lowers, NoTicket
<1> QED BY ONLY <1>1, SignalInv, a \in Air, Lowers(a) = s DEF SignalInv, FreshOf

(* A signal that is to be lowered is busy. *)
LEMMA LowFromIs ==
  ASSUME VirtualAssumptions, SignalInv, NEW h, NEW j, NEW s \in Signals, LowFrom(h, j, s)
  PROVE  Busy(s)
BY LowersIs DEF LowFrom

(* The GPU finishes something. *)
LEMMA FinishFacts ==
  ASSUME VirtualAssumptions, VirtualInv, VirtualInv', AirInv, NEW a, Finishes(a)
  PROVE  /\ \A b : b \in Air' <=> b \in Air /\ b # a
         /\ \A b \in Air' : /\ Flight'[b] = Flight[b] /\ Lowers(b)' = Lowers(b) /\ (HasSignal(b)' <=> HasSignal(b))
                            /\ \A s : AwaitsAt(b, s)' <=> AwaitsAt(b, s)
         /\ \A s \in Signals : /\ Now(s)' = Now(s) /\ (Busy(s)' <=> Busy(s) /\ s # Lowers(a))
         /\ \A s : AwaitsAt(a, s) => s \in Pool /\ ~Busy(s)
         /\ \A v \in VGPUs : a # SpotOf(v)
         /\ done' = IF Flight[a].cmd = None THEN done ELSE done \cup {Flight[a].cmd}
<1>1. \A b : b \in Air' <=> b \in Air /\ b # a BY DEF Finishes, Steady
<1>2. \A b \in Air' : Flight'[b] = Flight[b] BY DEF Finishes, Steady
<1>3. \A b \in Air' : /\ Lowers(b)' = Lowers(b) /\ (HasSignal(b)' <=> HasSignal(b))
                      /\ \A s : AwaitsAt(b, s)' <=> AwaitsAt(b, s)
  BY ONLY <1>2 DEF Lowers, HasSignal, AwaitsAt
<1>4. \A s \in Signals : /\ Now(s)' = Now(s) /\ (Busy(s)' <=> Busy(s) /\ s # Lowers(a))
  <2>1. signal' = Lowered(Flight[a].signal) /\ signal \in [Signals -> [value : {0, 1}, uses : Nat]]
    BY DEF Finishes, VirtualInv, Basic, Types
  <2>2. CASE ~HasSignal(a)
    <3>1. signal' = signal /\ Lowers(a) = None BY <2>1, <2>2 DEF HasSignal, Lowers, Lowered, NoTicket
    <3> QED BY <3>1, Kinds DEF Now, Busy
  <2>3. CASE HasSignal(a)
    <3>1. signal' = [signal EXCEPT ![Lowers(a)].value = 0] BY <2>1, <2>3 DEF HasSignal, Lowers, Lowered
    <3> QED BY <2>1, <3>1 DEF Now, Busy
  <2> QED BY <2>2, <2>3
<1>5. \A s : AwaitsAt(a, s) => s \in Pool /\ ~Busy(s)
  <2>1. a \in Air /\ FreshOf(a) /\ Satisfied(Flight[a].deps)
    <3>1. Flight[a].kind = "kernel" /\ (\E h \in HwQueues, k \in Int : a = InRing(h, k)) => Flight[a].deps = {}
      BY DEF AirInv, KindInv, Finishes
    <3> QED BY <3>1 DEF Finishes, AirInv, SignalInv, Satisfied
  <2> QED BY ONLY <2>1 DEF FreshOf, Satisfied, AwaitsAt
<1>6. \A v \in VGPUs : a # SpotOf(v)
  <2>1. \A v \in VGPUs : SpotOf(v)' = SpotOf(v) BY DEF Finishes, SpotOf, Holding, Hq
  <2> QED BY <1>1, <2>1, SpotFactsNext
<1>7. done' = IF Flight[a].cmd = None THEN done ELSE done \cup {Flight[a].cmd} BY DEF Finishes, Finished
<1> QED BY ONLY <1>1, <1>2, <1>3, <1>4, <1>5, <1>6, <1>7

(* A step that leaves the devices and their calls as they are. *)
LEMMA DevicesStay ==
  ASSUME setup' = setup, vgpu' = vgpu, todo' = todo, my' = my
  PROVE  /\ \A v : /\ Ph(v)' = Ph(v) /\ Own(v)' = Own(v) /\ Current(v)' = Current(v) /\ Hq(v)' = Hq(v)
                   /\ (Holding(v)' <=> Holding(v)) /\ SpotOf(v)' = SpotOf(v)
                   /\ (Signalled(v)' <=> Signalled(v)) /\ (Quiet(v)' <=> Quiet(v))
         /\ \A v, j : (OpenFor(v, j)' <=> OpenFor(v, j)) /\ (Ahead(v, j)' <=> Ahead(v, j))
         /\ \A v, r, s : Follow(v, r, s)' <=> Follow(v, r, s)
<1>1. \A v : /\ Ph(v)' = Ph(v) /\ Own(v)' = Own(v) /\ Current(v)' = Current(v) /\ Hq(v)' = Hq(v)
             /\ (Holding(v)' <=> Holding(v))
  BY DEF Ph, Own, Current, Hq, Holding
<1>2. \A v : (SpotOf(v)' = SpotOf(v)) /\ (Signalled(v)' <=> Signalled(v)) /\ (Quiet(v)' <=> Quiet(v))
  BY <1>1 DEF SpotOf, Signalled, Quiet
<1>3. \A v, j : (OpenFor(v, j)' <=> OpenFor(v, j)) /\ (Ahead(v, j)' <=> Ahead(v, j))
  BY <1>1, <1>2 DEF OpenFor, Ahead
<1>4. \A v, r, s : Follow(v, r, s)' <=> Follow(v, r, s) BY DEF Follow
<1> QED BY ONLY <1>1, <1>2, <1>3, <1>4

(* What the GPU finishes keeps the signals, lists, commands, calls and
   chunks, *)
LEMMA FinishKeepsSignals ==
  ASSUME VirtualAssumptions, VirtualInv, VirtualInv', AirInv, NEW a, Finishes(a)
  PROVE  SignalInv' /\ ListInv' /\ CmdInv' /\ CallInv' /\ ChunkInv' /\ KindInv'
<1>0. a \in Air /\ setup' = setup /\ created' = created /\ command' = command /\ vgpu' = vgpu /\ todo' = todo /\ my' = my
  BY DEF Finishes
<1>1. /\ \A b : b \in Air' <=> b \in Air /\ b # a
      /\ \A b \in Air' : /\ Flight'[b] = Flight[b] /\ Lowers(b)' = Lowers(b) /\ (HasSignal(b)' <=> HasSignal(b))
                         /\ \A s : AwaitsAt(b, s)' <=> AwaitsAt(b, s)
      /\ \A s \in Signals : /\ Now(s)' = Now(s) /\ (Busy(s)' <=> Busy(s) /\ s # Lowers(a))
      /\ \A s : AwaitsAt(a, s) => s \in Pool /\ ~Busy(s)
      /\ \A v \in VGPUs : a # SpotOf(v)
      /\ done' = IF Flight[a].cmd = None THEN done ELSE done \cup {Flight[a].cmd}
  BY FinishFacts
<1>2. \A v : /\ Ph(v)' = Ph(v) /\ Own(v)' = Own(v) /\ Current(v)' = Current(v) /\ Hq(v)' = Hq(v)
             /\ (Holding(v)' <=> Holding(v)) /\ SpotOf(v)' = SpotOf(v)
  BY <1>0, DevicesStay
<1>3. /\ \A s \in Pool : s \in Signals /\ s # None /\ s # NoTicket.signal
      /\ \A v \in VGPUs, k \in Chunks : <<v, k>> \in Signals /\ <<v, k>> \notin Pool /\ <<v, k>> # NoTicket.signal
  BY SignalKinds
<1>4. SignalInv'
  <2>1. SignalInv BY DEF AirInv
  <2>2. ASSUME NEW b \in Air' PROVE FreshOf(b)' /\ HomeOf(b)'
    <3>1. b \in Air /\ b # a /\ FreshOf(b) /\ HomeOf(b) BY ONLY <1>1, <2>1, b \in Air' DEF SignalInv
    <3>2. HasSignal(b) => Lowers(b) # Lowers(a) BY ONLY <3>1, <2>1, <1>0 DEF SignalInv
    <3>3. FreshOf(b)' BY ONLY <1>1, <1>3, <3>1, <3>2, b \in Air' DEF FreshOf
    <3>4. HomeOf(b)' BY ONLY <1>1, <1>2, <3>1, b \in Air' DEF HomeOf, InHand, InRing
    <3> QED BY ONLY <3>3, <3>4
  <2>3. \A b, c \in Air' : HasSignal(b)' /\ Lowers(b)' = Lowers(c)' => b = c
    BY ONLY <1>1, <2>1 DEF SignalInv
  <2> QED BY ONLY <2>2, <2>3 DEF SignalInv
<1>5. ListInv' BY <1>0, <1>2 DEF ListInv, AirInv
<1>6. CmdInv'
  <2>1. CmdInv BY DEF AirInv
  <2>2. ASSUME NEW b \in Air', Flight'[b].cmd # None
        PROVE Flight'[b].cmd \in (1..created) \ done'
    BY ONLY <1>0, <1>1, <2>1, <2>2, b \in Air' DEF CmdInv
  <2>3. \A b, c \in Air' : Flight'[b].cmd # None /\ Flight'[b].cmd = Flight'[c].cmd => b = c
    BY ONLY <1>1, <2>1 DEF CmdInv
  <2>4. ASSUME NEW v \in VGPUs, todo[v] # <<>>
        PROVE  my[v].cmd \notin done' /\ \A b \in Air' : Flight'[b].cmd = my[v].cmd => b = SpotOf(v)
    BY ONLY <1>0, <1>1, <2>1, <2>4, v \in VGPUs DEF CmdInv
  <2>5. ASSUME NEW c \in Commands \ (1..created)
        PROVE c \notin done' /\ command[c].hwEvent = None
    BY ONLY <1>0, <1>1, <2>1, c \in Commands \ (1..created) DEF CmdInv
  <2> QED BY ONLY <1>0, <1>2, <2>2, <2>3, <2>4, <2>5 DEF CmdInv
<1>7. CallInv'
  <2>1. \A v \in VGPUs : PacketOf(v) /\ DeviceOf(v) /\ EventOf(v) BY DEF AirInv, CallInv
  <2>2. \A v \in VGPUs : PacketOf(v)' BY ONLY <1>0, <1>2, <2>1 DEF PacketOf
  <2>3. \A v \in VGPUs : DeviceOf(v)' BY ONLY <1>0, <1>2, <2>1 DEF DeviceOf
  <2>4. \A v \in VGPUs : EventOf(v)' BY ONLY <1>0, <1>2, <2>1 DEF EventOf
  <2> QED BY ONLY <2>2, <2>3, <2>4 DEF CallInv
<1>8. ChunkInv'
  <2>1. ChunkInv /\ vgpu \in [VGPUs -> VirtualDevice] BY DEF AirInv, VirtualInv, Basic, Types
  <2>2. \A v \in VGPUs : <<v, vgpu[v].chunk>> \in Signals BY ONLY <1>3, <2>1 DEF VirtualDevice
  <2>3. \A v \in VGPUs : Busy(<<v, vgpu[v].chunk>>)' => Ph(v) \in {"reserveChunk", "writeChunk", "nextChunk"}
    <3>1. \A v \in VGPUs : Busy(<<v, vgpu[v].chunk>>)' => Busy(<<v, vgpu[v].chunk>>) BY <1>0, <1>1, <2>2
    <3> QED BY ONLY <2>1, <3>1 DEF ChunkInv
  <2>4. ASSUME NEW v \in VGPUs, NEW k \in Chunks, Busy(<<v, k>>)'
        PROVE \E b \in Air' : Lowers(b)' = <<v, k>>
    <3>1. Busy(<<v, k>>) /\ <<v, k>> # Lowers(a) BY ONLY <1>1, <1>3, <2>4, v \in VGPUs, k \in Chunks
    <3>2. PICK b \in Air : Lowers(b) = <<v, k>> BY ONLY <2>1, <3>1, v \in VGPUs, k \in Chunks DEF ChunkInv
    <3>3. b # a BY ONLY <3>1, <3>2
    <3> QED BY ONLY <1>1, <3>2, <3>3
  <2>5. \A v \in VGPUs, k \in Chunks : InHand(v) \in Air' /\ Lowers(InHand(v))' = <<v, k>> => Ph(v) = "reserveChunk"
    BY ONLY <1>1, <2>1 DEF ChunkInv
  <2> QED BY ONLY <1>0, <1>2, <2>3, <2>4, <2>5 DEF ChunkInv, InHand
<1>9. KindInv'
  <2>1. KindInv BY DEF AirInv
  <2> QED BY ONLY <1>1, <2>1 DEF KindInv, InRing
<1> QED BY ONLY <1>4, <1>5, <1>6, <1>7, <1>8, <1>9

(* and the waits and their order: no one who waits for the signal lies
   before it. *)
LEMMA FinishKeepsWaits ==
  ASSUME VirtualAssumptions, VirtualInv, VirtualInv', AirInv, NEW a, Finishes(a)
  PROVE  WaitInv' /\ OrderInv'
<1>0. a \in Air /\ setup' = setup /\ created' = created /\ command' = command /\ vgpu' = vgpu /\ todo' = todo /\ my' = my
      /\ (\A h, i, k : a = InRing(h, k) /\ InRing(h, i) \in Air => i >= k)
      /\ (\A x \in dma' : x \in dma) /\ ~\E v : a = InHand(v)
  BY DEF Finishes
<1>1. /\ \A b : b \in Air' <=> b \in Air /\ b # a
      /\ \A b \in Air' : /\ Flight'[b] = Flight[b] /\ Lowers(b)' = Lowers(b) /\ (HasSignal(b)' <=> HasSignal(b))
                         /\ \A s : AwaitsAt(b, s)' <=> AwaitsAt(b, s)
      /\ \A s \in Signals : /\ Now(s)' = Now(s) /\ (Busy(s)' <=> Busy(s) /\ s # Lowers(a))
      /\ \A s : AwaitsAt(a, s) => s \in Pool /\ ~Busy(s)
      /\ \A v \in VGPUs : a # SpotOf(v)
  BY FinishFacts
<1>2. /\ \A v : /\ Ph(v)' = Ph(v) /\ Own(v)' = Own(v) /\ Current(v)' = Current(v) /\ Hq(v)' = Hq(v)
                /\ (Holding(v)' <=> Holding(v)) /\ SpotOf(v)' = SpotOf(v) /\ (Quiet(v)' <=> Quiet(v))
      /\ \A v, j : (OpenFor(v, j)' <=> OpenFor(v, j)) /\ (Ahead(v, j)' <=> Ahead(v, j))
      /\ \A v, r, s : Follow(v, r, s)' <=> Follow(v, r, s)
  BY <1>0, DevicesStay
<1>3. /\ \A s \in Pool : s \in Signals /\ s # None /\ s # NoTicket.signal
      /\ \A v \in VGPUs, k \in Chunks : <<v, k>> \in Signals /\ <<v, k>> \notin Pool /\ <<v, k>> # NoTicket.signal
  BY SignalKinds
<1>4. SignalInv /\ WaitInv /\ OrderInv BY DEF AirInv
<1>5. \A v \in VGPUs : Current(v) \in Pool /\ Own(v) \subseteq Pool
  <2> SUFFICES ASSUME NEW v \in VGPUs PROVE Current(v) \in Pool /\ Own(v) \subseteq Pool OBVIOUS
  <2>1. vgpu[v].list \in Seq(Pool) /\ vgpu[v].current \in 1..Len(vgpu[v].list)
    BY DEF VirtualInv, Basic, Types, ListTypes, VirtualDevice
  <2> QED BY ONLY <2>1 DEF Current, Own, Range
<1>6. ASSUME NEW h, NEW j \in Int, NEW u, LowFrom(h, j, u), InRing(h, j) \in Air'
      PROVE LowFrom(h, j, u)'
  <2>1. PICK k \in Int : k >= j /\ InRing(h, k) \in Air /\ Lowers(InRing(h, k)) = u
    BY ONLY <1>6 DEF LowFrom
  <2>2. InRing(h, k) # a
    <3> SUFFICES ASSUME InRing(h, k) = a PROVE FALSE OBVIOUS
    <3>1. j >= k BY ONLY <1>0, <1>1, <1>6, InRing(h, k) = a
    <3>2. j = k BY ONLY <2>1, <3>1, j \in Int, k \in Int
    <3> QED BY ONLY <1>1, <1>6, <3>2, InRing(h, k) = a
  <2>3. InRing(h, k) \in Air' /\ Lowers(InRing(h, k))' = u BY ONLY <1>1, <2>1, <2>2
  <2> QED BY ONLY <2>1, <2>3 DEF LowFrom, InRing
<1>7. ASSUME NEW h, NEW j \in Int, NEW v \in VGPUs, CallBehind(v, h, j), InRing(h, j) \in Air'
      PROVE CallBehind(v, h, j)'
  BY ONLY <1>0, <1>2, <1>6, <1>7, j \in Int DEF CallBehind
<1>8. ASSUME NEW h, NEW j \in Int, NEW d, Behind(d, h, j), InRing(h, j) \in Air'
      PROVE Behind(d, h, j)'
  <2>1. CASE \E k \in Int : k >= j /\ InRing(h, k) \in Air /\ Flight[InRing(h, k)].cmd = d
    <3>1. PICK k \in Int : k >= j /\ InRing(h, k) \in Air /\ Flight[InRing(h, k)].cmd = d BY ONLY <2>1
    <3>2. InRing(h, k) # a
      <4> SUFFICES ASSUME InRing(h, k) = a PROVE FALSE OBVIOUS
      <4>1. j >= k BY ONLY <1>0, <1>1, <1>8, InRing(h, k) = a
      <4>2. j = k BY ONLY <3>1, <4>1, j \in Int, k \in Int
      <4> QED BY ONLY <1>1, <1>8, <4>2, InRing(h, k) = a
    <3>3. InRing(h, k) \in Air' /\ Flight'[InRing(h, k)].cmd = d BY ONLY <1>1, <3>1, <3>2
    <3> QED BY ONLY <3>1, <3>3 DEF Behind, InRing
  <2>2. CASE \E v \in VGPUs : my[v].cmd = d /\ CallBehind(v, h, j)
    BY ONLY <1>0, <1>7, <1>8, <2>2, j \in Int DEF Behind
  <2>3. CASE \E x \in dma : x.cmd = d /\ \E t \in x.deps : LowFrom(h, j, t.signal)
    <3>1. PICK x \in dma : x.cmd = d /\ \E t \in x.deps : LowFrom(h, j, t.signal) BY ONLY <2>3
    <3>2. PICK t \in x.deps : LowFrom(h, j, t.signal) BY ONLY <3>1
    <3>3. InDma(x) \in Air /\ Flight[InDma(x)] = x BY BothAir DEF AirFacts
    <3>4. AwaitsAt(InDma(x), t.signal) BY ONLY <3>3, t \in x.deps DEF AwaitsAt
    <3>5. InDma(x) # a
      <4> SUFFICES ASSUME InDma(x) = a PROVE FALSE OBVIOUS
      <4>1. t.signal \in Pool /\ ~Busy(t.signal) BY ONLY <1>1, <3>4, InDma(x) = a
      <4> QED BY <1>3, <1>4, <3>2, <4>1, LowFromIs
    <3>6. x \in dma'
      <4>1. InDma(x) \in Air' BY ONLY <1>1, <3>3, <3>5
      <4> QED BY <4>1, BothAir DEF AirFacts, InDma
    <3>7. LowFrom(h, j, t.signal)' BY ONLY <1>6, <1>8, <3>2, j \in Int
    <3> QED BY ONLY <3>1, <3>6, <3>7, t \in x.deps DEF Behind
  <2> QED BY ONLY <1>8, <2>1, <2>2, <2>3 DEF Behind
<1>9. ASSUME NEW v \in VGPUs, NEW h, NEW j \in Int, NEW s, OwnWait(v, h, j, s),
             InRing(h, j) \in Air' PROVE OwnWait(v, h, j, s)'
  BY ONLY <1>2, <1>6, <1>9, j \in Int DEF OwnWait
<1>10. ASSUME NEW h, NEW j \in Int, NEW s, ExtWait(h, j, s), InRing(h, j) \in Air'
       PROVE ExtWait(h, j, s)'
  BY ONLY <1>0, <1>8, <1>10, j \in Int DEF ExtWait
<1>11. RingWaits'
  <2> SUFFICES ASSUME NEW h \in HwQueues, NEW i \in Int, InRing(h, i) \in Air',
                      NEW t \in Flight'[InRing(h, i)].deps
               PROVE  (\E v \in VGPUs : OwnWait(v, h, i, t.signal)') \/ ExtWait(h, i, t.signal)'
    BY DEF RingWaits, InRing
  <2>1. (\E v \in VGPUs : OwnWait(v, h, i, t.signal)) \/ ExtWait(h, i, t.signal)
    <3>1. InRing(h, i) \in Air /\ t \in Flight[InRing(h, i)].deps
      BY ONLY <1>1, InRing(h, i) \in Air', t \in Flight'[InRing(h, i)].deps
    <3> QED BY ONLY <1>4, <3>1, h \in HwQueues, i \in Int DEF WaitInv, RingWaits
  <2> QED BY ONLY <1>9, <1>10, <2>1, InRing(h, i) \in Air', i \in Int
<1>12. DmaWaits' BY ONLY <1>0, <1>2, <1>4 DEF WaitInv, DmaWaits
<1>13. \A v \in VGPUs : HandOf(v)' BY ONLY <1>0, <1>2, <1>4 DEF WaitInv, HandOf
<1>14. ASSUME NEW h, NEW i \in Int, NEW r \in Pool, Stands(h, i, r), Busy(r)'
       PROVE Stands(h, i, r)'
  <2>1. PICK k \in Int : k <= i /\ InRing(h, k) \in Air /\ (Lowers(InRing(h, k)) = r \/ AwaitsAt(InRing(h, k), r))
    BY ONLY <1>14 DEF Stands
  <2>2. InRing(h, k) # a BY ONLY <1>1, <1>3, <1>14, <2>1, r \in Pool
  <2>3. InRing(h, k) \in Air' /\ (Lowers(InRing(h, k))' = r \/ AwaitsAt(InRing(h, k), r)')
    BY ONLY <1>1, <2>1, <2>2
  <2> QED BY ONLY <2>1, <2>3 DEF Stands, InRing
<1>15. FallInv'
  <2> SUFFICES ASSUME NEW v \in VGPUs, NEW r \in Pool, NEW s \in Pool, Follow(v, r, s)',
                      Busy(r)'
               PROVE  Busy(s)' /\ \A b \in Air' : Lowers(b)' = s => Stays(b, r)'
    BY DEF FallInv
  <2>1. Busy(r) /\ r # Lowers(a) BY ONLY <1>1, <1>3, r \in Pool, Busy(r)'
  <2>2. Busy(s) /\ \A b \in Air : Lowers(b) = s => Stays(b, r)
    BY ONLY <1>2, <1>4, <2>1, r \in Pool, s \in Pool, v \in VGPUs, Follow(v, r, s)'
       DEF OrderInv, FallInv
  <2>3. s # Lowers(a)
    <3> SUFFICES ASSUME s = Lowers(a) PROVE FALSE OBVIOUS
    <3>1. Stays(a, r) /\ ~AwaitsAt(a, r) BY ONLY <1>0, <1>1, <2>1, <2>2, s = Lowers(a)
    <3>2. PICK h \in HwQueues, i \in Int : a = InRing(h, i) /\ Stands(h, i, r) BY ONLY <3>1 DEF Stays
    <3>3. PICK k \in Int : k <= i /\ InRing(h, k) \in Air /\ (Lowers(InRing(h, k)) = r \/ AwaitsAt(InRing(h, k), r))
      BY ONLY <3>2 DEF Stands
    <3>4. k >= i BY ONLY <1>0, <3>2, <3>3
    <3>5. k = i BY ONLY <3>3, <3>4, k \in Int, i \in Int
    <3> QED BY ONLY <2>1, <3>1, <3>2, <3>3, <3>5
  <2>4. ASSUME NEW b \in Air', Lowers(b)' = s PROVE Stays(b, r)'
    <3>1. Stays(b, r) BY ONLY <1>1, <2>2, <2>4
    <3> QED BY ONLY <1>1, <1>14, <3>1, r \in Pool, Busy(r)', b \in Air' DEF Stays, InRing
  <2> QED BY ONLY <1>1, <1>3, <2>2, <2>3, <2>4, s \in Pool
<1>16. ASSUME NEW v \in VGPUs PROVE ReadyOf(v)' /\ CoverOf(v)'
  <2>1. ReadyOf(v) /\ CoverOf(v) /\ Current(v) \in Pool BY ONLY <1>4, <1>5, v \in VGPUs DEF OrderInv
  <2>2. Busy(Current(v))' => Busy(Current(v))
    <3>1. \A s \in Pool : Busy(s)' => Busy(s) BY ONLY <1>1, <1>3
    <3>2. PICK s \in Pool : s = Current(v) BY <2>1
    <3>3. s = Current(v)' BY ONLY <1>2, <3>2
    <3> QED BY ONLY <3>1, <3>2, <3>3 DEF Busy
  <2>3. PICK s \in Pool : s = Current(v) /\ s = Current(v)' BY ONLY <1>2, <2>1
  <2>4. PICK h : h = Hq(v) /\ h = Hq(v)' BY ONLY <1>2
  <2>5. ReadyOf(v)'
    <3>1. InHand(v) \in Air' <=> InHand(v) \in Air BY ONLY <1>0, <1>1
    <3>2. Ph(v) \in InReserve \cup {"signalDma"} => InHand(v) \in Air
      <4>1. HoldPlan(todo[v]) <=> Phase(todo[v]) \in InSignal \cup InWrite
        BY PhaseOfPlan DEF VirtualInv, Basic, Plans
      <4>2. Ph(v) \in InReserve \cup {"signalDma"} => ~Holding(v)
        BY ONLY <4>1 DEF Ph, Holding, InReserve, InSignal, InWrite
      <4> QED BY <4>2, BothAir DEF AirFacts
    <3>3. Busy(s)' /\ vgpu[v].engine = "Compute" =>
            IF Holding(v) THEN Stands(h, my[v].index, s)
            ELSE (\E i \in Int : Stands(h, i, s)) \/ (Ph(v) \in InReserve /\ AwaitsAt(InHand(v), s))
      BY ONLY <2>1, <2>2, <2>3, <2>4 DEF ReadyOf, Busy
    <3>4. Busy(s)' /\ Ph(v) = "signalDma" => AwaitsAt(InHand(v), s)
      BY ONLY <2>1, <2>2, <2>3, <2>4 DEF ReadyOf, Busy
    <3>5. my[v].index \in Int BY DEF VirtualInv, Basic, Types, MyRecord
    <3>6. Busy(s)' /\ vgpu[v].engine = "Compute" =>
            IF Holding(v) THEN Stands(h, my[v].index, s)'
            ELSE (\E i \in Int : Stands(h, i, s)') \/ (Ph(v) \in InReserve /\ AwaitsAt(InHand(v), s)')
      BY ONLY <1>0, <1>1, <1>14, <3>1, <3>2, <3>3, <3>5, s \in Pool
    <3>7. Busy(s)' /\ Ph(v) = "signalDma" => AwaitsAt(InHand(v), s)' BY ONLY <1>1, <3>1, <3>2, <3>4
    <3> QED BY ONLY <1>0, <1>2, <2>3, <2>4, <3>6, <3>7 DEF ReadyOf, InHand, Busy
  <2>6. CoverOf(v)'
    <3>1. ASSUME NEW i \in Int, InRing(h, i) \in Air', Belongs(v, InRing(h, i))'
          PROVE  /\ Quiet(v) => \E u \in Own(v) : LowFrom(h, i, u)'
                 /\ Ahead(v, i)
      <4>1. Belongs(v, InRing(h, i)) /\ InRing(h, i) \in Air BY ONLY <1>0, <1>1, <3>1 DEF Belongs, InRing
      <4>2. (Quiet(v) => \E u \in Own(v) : LowFrom(h, i, u)) /\ Ahead(v, i)
        BY ONLY <2>1, <2>4, <4>1, i \in Int DEF CoverOf
      <4> QED BY ONLY <1>6, <3>1, <4>2, i \in Int
    <3>2. (Quiet(v)' <=> Quiet(v)) /\ Own(v)' = Own(v) /\ \A i : Ahead(v, i)' <=> Ahead(v, i)
      BY ONLY <1>0, <1>2 DEF Quiet, Own, Ahead, Ph, Holding
    <3> QED BY ONLY <2>4, <3>1, <3>2 DEF CoverOf, InRing
  <2> QED BY ONLY <2>5, <2>6
<1> QED BY ONLY <1>11, <1>12, <1>13, <1>15, <1>16 DEF WaitInv, OrderInv

----------------------------------------
(* A step of a device moves at most the packet it has, from p to q. *)
Moves(v, p, q) ==
  /\ Frame(v) /\ p = SpotOf(v) /\ p \in Air /\ Flight[p] = my[v].packet /\ q \in Air'
  /\ \A a \in Air : a # p => a \in Air' /\ a # q /\ a # InHand(v) /\ Flight'[a] = Flight[a]
  /\ \A a \in Air' : \/ a = q
                     \/ a = InHand(v) /\ Flight'[a] = Nothing
                     \/ a \in Air /\ a # p /\ a # q /\ Flight'[a] = Flight[a]
  /\ \A h, i : p = InRing(h, i) => q = p
  /\ \A h, i : q = InRing(h, i) => h = Hq(v)
  /\ \A j : InRing(Hq(v), j) \in Air' /\ (InRing(Hq(v), j) = q \/ Ahead(v, j)) => Ahead(v, j)'
  /\ \A w : q = InHand(w) => w = v /\ p = q

(* A step that leaves the packet where it is. *)
LEMMA StayMoves ==
  ASSUME VirtualAssumptions, VirtualInv, VirtualInv', NEW v \in VGPUs, Frame(v), ring' = ring,
         dma' = dma,
         HoldPlan(todo'[v]) <=> Holding(v), Holding(v) => my'[v].index = my[v].index
  PROVE  Moves(v, SpotOf(v), SpotOf(v)) /\ Flight'[SpotOf(v)] = my'[v].packet /\ SpotOf(v)' = SpotOf(v)
<1>1. /\ Steady({SpotOf(v)}) /\ SpotOf(v)' = SpotOf(v) /\ SpotOf(v) \in Air /\ SpotOf(v) \in Air'
      /\ Flight[SpotOf(v)] = my[v].packet /\ Flight'[SpotOf(v)] = my'[v].packet
  BY SpotEffect
<1>2. InHand(v) \in Air <=> ~Holding(v) BY BothAir DEF AirFacts
<1>3. SpotOf(v) = IF Holding(v) THEN InRing(Hq(v), my[v].index) ELSE InHand(v) BY DEF SpotOf
<1>4. \A j : InRing(Hq(v), j) = SpotOf(v) \/ Ahead(v, j) => Ahead(v, j)'
  <2>1. Holding(v)' <=> Holding(v) BY DEF Holding
  <2>2. Holding(v) => my[v].index \in Int BY DEF VirtualInv, Basic, Types, MyRecord
  <2> QED BY <1>3, <2>1, <2>2, PlacesApart DEF Ahead
<1>5. \A a : a # SpotOf(v) => (a \in Air' <=> a \in Air) /\ (a \in Air => Flight'[a] = Flight[a])
  BY ONLY <1>1 DEF Steady
<1>6. \A a \in Air : a # SpotOf(v) => a # InHand(v) BY ONLY <1>2, <1>3
<1>7. \A h, i : SpotOf(v) = InRing(h, i) => h = Hq(v) BY ONLY <1>3, PlacesApart
<1>8. \A w : SpotOf(v) = InHand(w) => w = v BY ONLY <1>3, PlacesApart
<1> QED BY ONLY <1>1, <1>4, <1>5, <1>6, <1>7, <1>8, Frame(v) DEF Moves

(* A packet gets an index of the ring. *)
LEMMA TakeMoves ==
  ASSUME VirtualAssumptions, VirtualInv, VirtualInv', NEW v \in VGPUs, Reserve(v) \/ Kernel(v),
         NEW n, n = InRing(Hq(v), ring[Hq(v)].write)
  PROVE  /\ Moves(v, InHand(v), n) /\ Flight'[n] = my'[v].packet /\ SpotOf(v)' = n /\ n \notin Air
         /\ \A w \in VGPUs : ~Holding(w)' => w # v
<1>1. /\ Steady({InHand(v), n}) /\ InHand(v) \in Air /\ InHand(v) \notin Air' /\ n \notin Air /\ n \in Air'
      /\ Flight[InHand(v)] = my[v].packet /\ Flight'[n] = my'[v].packet
      /\ SpotOf(v) = InHand(v) /\ SpotOf(v)' = n /\ my'[v].index = ring[Hq(v)].write
      /\ ring[Hq(v)].write \in Nat
      /\ \A i : InRing(Hq(v), i) \in Air => i < ring[Hq(v)].write
  BY TakeEffect
<1>2. ~Holding(v) /\ HoldPlan(todo'[v]) BY HoldSteps DEF VirtualInv, Holding, Host
<1>3. Frame(v)
  <2>1. setup' = setup /\ vgpu' = vgpu BY DEF Reserve, Kernel, Reserved
  <2>2. \A w \in VGPUs : w # v => todo'[w] = todo[w] BY HostTodoTypes DEF VirtualInv, Host
  <2>3. \A w \in VGPUs : w # v => my'[w] = my[w] BY ReserveRing
  <2> QED BY <2>1, <2>2, <2>3 DEF Frame
<1>4. \A a : a # InHand(v) /\ a # n => (a \in Air' <=> a \in Air) /\ (a \in Air => Flight'[a] = Flight[a])
  BY ONLY <1>1 DEF Steady
<1>5. n # InHand(v) /\ (\A h, i : n = InRing(h, i) => h = Hq(v) /\ i = ring[Hq(v)].write) /\ \A h, i : InHand(v) # InRing(h, i)
  BY PlacesApart
<1>6. ASSUME NEW j, InRing(Hq(v), j) \in Air' PROVE Ahead(v, j)'
  <2>1. j = ring[Hq(v)].write \/ j < ring[Hq(v)].write
    BY ONLY <1>1, <1>4, <1>5, <1>6, PlacesApart, n = InRing(Hq(v), ring[Hq(v)].write)
  <2>2. j \in Int BY <1>6, BothAir DEF AirFacts, InRing
  <2>3. j <= my'[v].index BY ONLY <2>1, <2>2, <1>1
  <2> QED BY <2>3 DEF Ahead
<1>7. \A w \in VGPUs : ~Holding(w)' => w # v BY <1>2 DEF Holding
<1>8. \A w : n # InHand(w) BY PlacesApart
<1> QED BY ONLY <1>1, <1>3, <1>4, <1>5, <1>6, <1>7, <1>8 DEF Moves

(* A packet is stored. *)
LEMMA WriteMoves ==
  ASSUME VirtualAssumptions, VirtualInv, VirtualInv', NEW v \in VGPUs, Write(v)
  PROVE  /\ Moves(v, SpotOf(v), SpotOf(v)) /\ Flight'[SpotOf(v)] = my[v].packet /\ SpotOf(v)' = InHand(v)
         /\ SpotOf(v) = InRing(Hq(v), my[v].index) /\ Holding(v) /\ ~HoldPlan(todo'[v])
<1>1. /\ Steady({InHand(v)}) /\ InHand(v) \notin Air /\ InHand(v) \in Air'
      /\ Flight'[InHand(v)] = Nothing
      /\ Holding(v) /\ ~HoldPlan(todo'[v])
      /\ SpotOf(v) = InRing(Hq(v), my[v].index) /\ SpotOf(v)' = InHand(v)
  BY WriteEffect
<1>2. Frame(v)
  <2>1. \A w \in VGPUs : w # v => todo'[w] = todo[w] BY HostTodoTypes DEF VirtualInv, Host
  <2>2. setup' = setup /\ vgpu \in [VGPUs -> VirtualDevice] /\ my \in [VGPUs -> MyRecord]
    BY DEF Write, VirtualInv, Basic, Types
  <2> QED BY <2>1, <2>2 DEF Frame, Write
<1>3. SpotOf(v) \in Air /\ Flight[SpotOf(v)] = my[v].packet BY SpotFacts
<1>4. \A a : a # InHand(v) => (a \in Air' <=> a \in Air) /\ (a \in Air => Flight'[a] = Flight[a])
  BY ONLY <1>1 DEF Steady
<1>5. SpotOf(v) # InHand(v) /\ \A h, i : SpotOf(v) = InRing(h, i) => h = Hq(v) BY ONLY <1>1, PlacesApart
<1>6. \A j : Ahead(v, j)' BY ONLY <1>1 DEF Ahead, Holding
<1>7. \A w : SpotOf(v) # InHand(w) BY ONLY <1>1, PlacesApart
<1> QED BY ONLY <1>1, <1>2, <1>3, <1>4, <1>5, <1>6, <1>7 DEF Moves

(* A copy starts. *)
LEMMA StartCopyMoves ==
  ASSUME VirtualAssumptions, VirtualInv, VirtualInv', CmdInv, NEW v \in VGPUs, StartCopy(v),
         NEW x,
         x = [cmd |-> my[v].cmd, deps |-> my[v].packet.deps, signal |-> my[v].packet.signal]
  PROVE  /\ Moves(v, InHand(v), InDma(x)) /\ Flight'[InDma(x)] = x /\ SpotOf(v)' = InHand(v) /\ SpotOf(v) = InHand(v)
         /\ dma' = dma \cup {x} /\ x \notin dma /\ Flight'[InHand(v)] = Nothing /\ ~Holding(v) /\ ~HoldPlan(todo'[v])
<1>1. /\ Steady({InHand(v), InDma(x)}) /\ InHand(v) \in Air /\ InHand(v) \in Air'
      /\ Flight[InHand(v)] = my[v].packet /\ Flight'[InHand(v)] = Nothing
      /\ InDma(x) \in Air' /\ Flight'[InDma(x)] = x /\ dma' = dma \cup {x}
      /\ ~Holding(v) /\ ~HoldPlan(todo'[v]) /\ SpotOf(v) = InHand(v) /\ SpotOf(v)' = InHand(v)
  BY StartCopyEffect
<1>2. Frame(v)
  <2>1. \A w \in VGPUs : w # v => todo'[w] = todo[w] BY HostTodoTypes DEF VirtualInv, Host
  <2>2. setup' = setup /\ vgpu' = vgpu /\ my \in [VGPUs -> MyRecord]
    BY DEF StartCopy, VirtualInv, Basic, Types
  <2> QED BY <2>1, <2>2 DEF Frame, StartCopy
<1>3. \A a : a # InHand(v) /\ a # InDma(x) => (a \in Air' <=> a \in Air) /\ (a \in Air => Flight'[a] = Flight[a])
  BY ONLY <1>1 DEF Steady
<1>4. InDma(x) \notin Air /\ x \notin dma
  <2>1. x \notin dma
    <3> SUFFICES ASSUME x \in dma PROVE FALSE OBVIOUS
    <3>1. InDma(x) \in Air /\ Flight[InDma(x)] = x BY BothAir DEF AirFacts
    <3>2. todo[v] # <<>> BY DEF StartCopy, Do
    <3>3. InDma(x) = SpotOf(v) BY <3>1, <3>2 DEF CmdInv
    <3> QED BY ONLY <1>1, <3>3, PlacesApart
  <2> QED BY <2>1, BothAir DEF AirFacts
<1>5. InDma(x) # InHand(v) /\ (\A h, i : InDma(x) # InRing(h, i)) /\ \A h, i : InHand(v) # InRing(h, i)
  BY PlacesApart
<1>6. \A j : Ahead(v, j)' BY ONLY <1>1 DEF Ahead, Holding
<1>7. \A w : InDma(x) # InHand(w) BY PlacesApart
<1> QED BY ONLY <1>1, <1>2, <1>3, <1>4, <1>5, <1>6, <1>7 DEF Moves

(* The other devices see nothing of it. *)
LEMMA OthersStay ==
  ASSUME NEW v \in VGPUs, Frame(v), NEW w \in VGPUs, w # v
  PROVE  /\ Ph(w)' = Ph(w) /\ Own(w)' = Own(w) /\ Current(w)' = Current(w)
         /\ (Holding(w)' <=> Holding(w)) /\ SpotOf(w)' = SpotOf(w) /\ (Quiet(w)' <=> Quiet(w))
         /\ \A j : (OpenFor(w, j)' <=> OpenFor(w, j)) /\ (Ahead(w, j)' <=> Ahead(w, j))
         /\ \A r, s : Follow(w, r, s)' <=> Follow(w, r, s)
         /\ setup' = setup /\ todo'[w] = todo[w] /\ my'[w] = my[w] /\ vgpu'[w] = vgpu[w]
<1>1. setup' = setup /\ todo'[w] = todo[w] /\ my'[w] = my[w] /\ vgpu'[w] = vgpu[w] BY DEF Frame
<1>2. /\ Ph(w)' = Ph(w) /\ Own(w)' = Own(w) /\ Current(w)' = Current(w)
      /\ (Holding(w)' <=> Holding(w)) /\ (\A r, s : Follow(w, r, s)' <=> Follow(w, r, s))
  BY ONLY <1>1 DEF Ph, Own, Current, Holding, Follow
<1>3. SpotOf(w)' = SpotOf(w) /\ (Quiet(w)' <=> Quiet(w)) /\ (Signalled(w)' <=> Signalled(w))
  BY ONLY <1>1, <1>2 DEF SpotOf, Quiet, Signalled, Hq, InRing, InHand
<1>4. \A j : (OpenFor(w, j)' <=> OpenFor(w, j)) /\ (Ahead(w, j)' <=> Ahead(w, j))
  BY ONLY <1>1, <1>2, <1>3 DEF OpenFor, Ahead
<1> QED BY ONLY <1>1, <1>2, <1>3, <1>4

(* No device changes its hardware queue. *)
LEMMA HqStays == ASSUME setup' = setup PROVE \A v : Hq(v)' = Hq(v)
BY DEF Hq

(* What stays of the packet. *)
Keeps(p, q) ==
  /\ Flight[p].signal = NoTicket \/ Flight'[q].signal = Flight[p].signal
  /\ Flight[p].deps \subseteq Flight'[q].deps
  /\ Flight[p].cmd = None \/ Flight'[q].cmd = Flight[p].cmd

(* A signal that was to be lowered behind an index still is, *)
LEMMA MovesLowFrom ==
  ASSUME VirtualAssumptions, NEW v, NEW p, NEW q, Moves(v, p, q), p = InHand(v) \/ Keeps(p, q),
         NEW u \in Signals, NEW h, NEW j, LowFrom(h, j, u)
  PROVE  LowFrom(h, j, u)'
<1>1. PICK k \in Int : k >= j /\ InRing(h, k) \in Air /\ Lowers(InRing(h, k)) = u BY DEF LowFrom
<1>2. InRing(h, k) \in Air' /\ Lowers(InRing(h, k))' = u
  <2>1. CASE InRing(h, k) # p
    <3>1. InRing(h, k) \in Air' /\ Flight'[InRing(h, k)] = Flight[InRing(h, k)]
      BY ONLY <1>1, <2>1, Moves(v, p, q) DEF Moves
    <3> QED BY ONLY <1>1, <3>1 DEF Lowers, InRing
  <2>2. CASE InRing(h, k) = p
    <3>1. p = q /\ q \in Air' /\ p # InHand(v) BY ONLY <2>2, PlacesApart, Moves(v, p, q) DEF Moves
    <3>2. Flight[p].signal # NoTicket BY <1>1, <2>2, Kinds DEF Lowers, NoTicket
    <3> QED BY ONLY <1>1, <2>2, <3>1, <3>2, p = InHand(v) \/ Keeps(p, q) DEF Keeps, Lowers, InRing
  <2> QED BY ONLY <2>1, <2>2
<1> QED BY ONLY <1>1, <1>2 DEF LowFrom, InRing

(* one that stands before an index still does, *)
LEMMA MovesStands ==
  ASSUME VirtualAssumptions, NEW v, NEW p, NEW q, Moves(v, p, q), p = InHand(v) \/ Keeps(p, q),
         NEW r \in Pool, NEW h, NEW i, Stands(h, i, r)
  PROVE  Stands(h, i, r)'
<1>1. PICK k \in Int : k <= i /\ InRing(h, k) \in Air /\ (Lowers(InRing(h, k)) = r \/ AwaitsAt(InRing(h, k), r))
  BY DEF Stands
<1>2. InRing(h, k) \in Air' /\ (Lowers(InRing(h, k))' = r \/ AwaitsAt(InRing(h, k), r)')
  <2>1. CASE InRing(h, k) # p
    <3>1. InRing(h, k) \in Air' /\ Flight'[InRing(h, k)] = Flight[InRing(h, k)]
      BY ONLY <1>1, <2>1, Moves(v, p, q) DEF Moves
    <3> QED BY ONLY <1>1, <3>1 DEF Lowers, AwaitsAt, InRing
  <2>2. CASE InRing(h, k) = p
    <3>1. p = q /\ q \in Air' /\ p # InHand(v) BY ONLY <2>2, PlacesApart, Moves(v, p, q) DEF Moves
    <3>2. Lowers(p) = r => Flight[p].signal # NoTicket BY SignalKinds DEF Lowers, NoTicket
    <3> QED
      BY ONLY <1>1, <2>2, <3>1, <3>2, p = InHand(v) \/ Keeps(p, q)
         DEF Keeps, Lowers, AwaitsAt, InRing
  <2> QED BY ONLY <2>1, <2>2
<1> QED BY ONLY <1>1, <1>2 DEF Stands, InRing

(* Commands keep what they are, their wait lists and their signals. *)
KeepsCommands ==
  /\ created' = created
  /\ \A c \in Commands : /\ command'[c].queue = command[c].queue /\ command'[c].op = command[c].op
                         /\ command'[c].waits = command[c].waits
                         /\ command[c].hwEvent \in Pool => command'[c].hwEvent = command[c].hwEvent

(* The command of the call still waits for what is behind. *)
StillBehind(v, q) == \A h, j : InRing(h, j) \in Air' /\ CallBehind(v, h, j) =>
  \/ command[my[v].cmd].waits = {}
  \/ CallBehind(v, h, j)'
  \/ Flight'[q].cmd = my[v].cmd /\ \E k \in Int : k >= j /\ q = InRing(h, k)
  \/ \E x \in dma' : x.cmd = my[v].cmd /\ \E t \in x.deps : LowFrom(h, j, t.signal)'

(* and a command that waits for it still waits. *)
LEMMA MovesExtWait ==
  ASSUME VirtualAssumptions, VirtualInv, VirtualInv', WaitInv, SignalInv, NEW v \in VGPUs,
         NEW p, NEW q, Moves(v, p, q), p = InHand(v) \/ Keeps(p, q),
         KeepsCommands, my'[v].cmd = my[v].cmd, StillBehind(v, q),
         NEW h, NEW j, NEW s \in Pool, InRing(h, j) \in Air', ExtWait(h, j, s)
  PROVE  ExtWait(h, j, s)'
<1>1. PICK d \in Commands : Behind(d, h, j) /\ \E e \in command[d].waits : command[e].hwEvent = s
  BY DEF ExtWait
<1>2. command[d].waits \subseteq Commands /\ command \in [Commands -> CommandObject]
  BY DEF VirtualInv, Basic, Types, CommandObject
<1>3. \E e \in command'[d].waits : command'[e].hwEvent = s
  BY ONLY <1>1, <1>2, d \in Commands, s \in Pool, KeepsCommands DEF KeepsCommands
<1>4. \A u \in Signals : LowFrom(h, j, u) => LowFrom(h, j, u)'
  BY ONLY MovesLowFrom, VirtualAssumptions, Moves(v, p, q), p = InHand(v) \/ Keeps(p, q)
<1>5. Behind(d, h, j)'
  <2>1. CASE \E k \in Int : k >= j /\ InRing(h, k) \in Air /\ Flight[InRing(h, k)].cmd = d
    <3>1. PICK k \in Int : k >= j /\ InRing(h, k) \in Air /\ Flight[InRing(h, k)].cmd = d BY ONLY <2>1
    <3>2. d # None BY Kinds
    <3>3. InRing(h, k) # p => InRing(h, k) \in Air' /\ Flight'[InRing(h, k)] = Flight[InRing(h, k)]
      BY ONLY <3>1, Moves(v, p, q) DEF Moves
    <3>4. InRing(h, k) = p => p = q /\ q \in Air' /\ p # InHand(v)
      BY ONLY PlacesApart, Moves(v, p, q) DEF Moves
    <3>5. InRing(h, k) \in Air' /\ Flight'[InRing(h, k)].cmd = d
      BY ONLY <3>1, <3>2, <3>3, <3>4, p = InHand(v) \/ Keeps(p, q) DEF Keeps
    <3> QED BY ONLY <3>1, <3>5 DEF Behind, InRing
  <2>2. CASE \E w \in VGPUs : w # v /\ my[w].cmd = d /\ CallBehind(w, h, j)
    <3>1. PICK w \in VGPUs : w # v /\ my[w].cmd = d /\ CallBehind(w, h, j) BY ONLY <2>2
    <3>2. /\ Ph(w)' = Ph(w) /\ Current(w)' = Current(w) /\ Hq(w)' = Hq(w)
          /\ (Ahead(w, j)' <=> Ahead(w, j)) /\ todo'[w] = todo[w] /\ my'[w] = my[w]
      BY ONLY <3>1, OthersStay, HqStays, Moves(v, p, q), v \in VGPUs DEF Moves, Frame
    <3>3. Current(w) \in Signals /\ \A t \in my[w].packet.deps : t.signal \in Signals
      <4>1. my[w].packet \in Packet /\ vgpu[w] \in VirtualDevice /\ vgpu[w].current \in 1..Len(vgpu[w].list)
        BY DEF VirtualInv, Basic, Types, MyRecord, ListTypes
      <4>2. Current(w) \in Pool BY ONLY <4>1 DEF Current, VirtualDevice
      <4> QED BY ONLY <4>1, <4>2, SignalKinds, VirtualAssumptions DEF Packet, Ticket
    <3>4. CallBehind(w, h, j)' BY ONLY <1>4, <3>1, <3>2, <3>3 DEF CallBehind
    <3> QED BY ONLY <3>1, <3>2, <3>4 DEF Behind
  <2>3. CASE my[v].cmd = d /\ CallBehind(v, h, j)
    <3>1. command[d].waits # {} BY ONLY <1>1
    <3>2. CASE CallBehind(v, h, j)' BY ONLY <2>3, <3>2, my'[v].cmd = my[v].cmd, v \in VGPUs DEF Behind
    <3>3. CASE Flight'[q].cmd = d /\ \E k \in Int : k >= j /\ q = InRing(h, k)
      BY ONLY <3>3, Moves(v, p, q) DEF Moves, Behind, InRing
    <3>4. CASE \E x \in dma' : x.cmd = d /\ \E t \in x.deps : LowFrom(h, j, t.signal)'
      BY ONLY <3>4 DEF Behind
    <3> QED
      BY ONLY <2>3, <3>1, <3>2, <3>3, <3>4, StillBehind(v, q), InRing(h, j) \in Air'
         DEF StillBehind
  <2>4. CASE \E x \in dma : x.cmd = d /\ \E t \in x.deps : LowFrom(h, j, t.signal)
    <3>1. PICK x \in dma : x.cmd = d /\ \E t \in x.deps : LowFrom(h, j, t.signal) BY ONLY <2>4
    <3>2. InDma(x) \in Air /\ InDma(x) # p BY BothAir, PlacesApart DEF AirFacts, Moves, SpotOf
    <3>3. x \in dma'
      <4>1. InDma(x) \in Air' BY ONLY <3>2, Moves(v, p, q) DEF Moves
      <4> QED BY <4>1, BothAir DEF AirFacts, InDma
    <3>4. \A t \in x.deps : t.signal \in Signals BY DEF VirtualInv, Basic, Types, Copy, Ticket
    <3> QED BY ONLY <1>4, <3>1, <3>3, <3>4 DEF Behind
  <2> QED BY ONLY <1>1, <2>1, <2>2, <2>3, <2>4 DEF Behind
<1> QED BY ONLY <1>3, <1>5, d \in Commands DEF ExtWait

(* The list of a device and its current signal. *)
LEMMA PoolParts ==
  ASSUME VirtualAssumptions, VirtualInv, NEW v \in VGPUs
  PROVE  /\ vgpu[v] \in VirtualDevice /\ vgpu[v].list \in Seq(Pool) /\ vgpu[v].current \in 1..Len(vgpu[v].list)
         /\ Len(vgpu[v].list) \in Nat \ {0, 1, 2} /\ Current(v) \in Pool /\ Own(v) \subseteq Pool
         /\ Current(v) \in Own(v) /\ Hq(v) \in HwQueues /\ Own(v) \subseteq Signals
<1>1. /\ vgpu[v] \in VirtualDevice /\ vgpu[v].list \in Seq(Pool) /\ vgpu[v].current \in 1..Len(vgpu[v].list)
      /\ Len(vgpu[v].list) \in ListSize..setup.listed /\ setup \in Setups
  BY DEF VirtualInv, Basic, Types, ListTypes, VirtualDevice
<1>2. ListSize \in Nat \ {0, 1, 2} /\ setup.listed \in Nat /\ Hq(v) \in HwQueues /\ Pool \subseteq Signals
  BY <1>1, SetupFacts, Kinds DEF Hq
<1>3. Current(v) \in Pool /\ Own(v) \subseteq Pool /\ Current(v) \in Own(v)
  BY ONLY <1>1 DEF Current, Own, Range
<1>4. Len(vgpu[v].list) \in Nat \ {0, 1, 2}
  <2>1. PICK n : n = Len(vgpu[v].list) OBVIOUS
  <2>2. n \in ListSize..setup.listed BY ONLY <1>1, <2>1
  <2>3. n \in Nat \ {0, 1, 2} BY ONLY <1>2, <2>2
  <2> QED BY ONLY <2>1, <2>3
<1>5. Own(v) \subseteq Signals BY ONLY <1>2, <1>3
<1> QED BY ONLY <1>1, <1>2, <1>3, <1>4, <1>5

(* The waits of the device stay. *)
StillWaits(v) == \A h, j : \A s \in Pool : InRing(h, j) \in Air' /\ OwnWait(v, h, j, s) => OwnWait(v, h, j, s)'

(* When the waits stay as a packet moves. *)
LEMMA MovesWaits ==
  ASSUME VirtualAssumptions, VirtualInv, VirtualInv', AirInv, NEW v \in VGPUs, NEW p, NEW q,
         Moves(v, p, q),
         p = InHand(v) \/ Keeps(p, q), KeepsCommands, my'[v].cmd = my[v].cmd, StillBehind(v, q),
         StillWaits(v),
         \A h, i : q = InRing(h, i) => \A t \in Flight'[q].deps :
            t.signal \in Pool /\ ((p = q /\ t \in Flight[p].deps) \/ OwnWait(v, h, i, t.signal)' \/ ExtWait(h, i, t.signal)'),
         \A x \in dma : \A t \in x.deps : command[x.cmd].queue = v /\ Follow(v, t.signal, x.signal.signal)
           => Follow(v, t.signal, x.signal.signal)',
         \A x : x \in dma' /\ x \notin dma => command[x.cmd].queue = v /\ \A t \in x.deps : Follow(v, t.signal, x.signal.signal)',
         HandOf(v)'
  PROVE  WaitInv'
<1>1. WaitInv /\ SignalInv BY DEF AirInv
<1>2. RingWaits'
  <2> SUFFICES ASSUME NEW h \in HwQueues, NEW i \in Int, InRing(h, i) \in Air',
                      NEW t \in Flight'[InRing(h, i)].deps
               PROVE  (\E w \in VGPUs : OwnWait(w, h, i, t.signal)') \/ ExtWait(h, i, t.signal)'
    BY DEF RingWaits, InRing
  <2>1. CASE InRing(h, i) \in Air /\ t \in Flight[InRing(h, i)].deps
    <3>1. t.signal \in Pool /\ ((\E w \in VGPUs : OwnWait(w, h, i, t.signal)) \/ ExtWait(h, i, t.signal))
      BY ONLY <1>1, <2>1, h \in HwQueues, i \in Int DEF WaitInv, RingWaits, SignalInv, FreshOf
    <3>2. CASE ExtWait(h, i, t.signal) BY <1>1, <3>1, <3>2, MovesExtWait
    <3>3. CASE OwnWait(v, h, i, t.signal)
      BY ONLY <3>1, <3>3, StillWaits(v), InRing(h, i) \in Air', v \in VGPUs DEF StillWaits
    <3>4. CASE \E w \in VGPUs : w # v /\ OwnWait(w, h, i, t.signal)
      <4>1. PICK w \in VGPUs : w # v /\ OwnWait(w, h, i, t.signal) BY ONLY <3>4
      <4>2. /\ Own(w)' = Own(w) /\ Current(w)' = Current(w) /\ Hq(w)' = Hq(w)
            /\ (OpenFor(w, i)' <=> OpenFor(w, i)) /\ \A r, s : Follow(w, r, s)' <=> Follow(w, r, s)
        BY ONLY <4>1, OthersStay, HqStays, Moves(v, p, q), v \in VGPUs DEF Moves, Frame
      <4>3. \A u \in Own(w) : LowFrom(h, i, u) => LowFrom(h, i, u)'
        <5>1. Own(w) \subseteq Signals BY PoolParts
        <5> QED
          BY ONLY <5>1, MovesLowFrom, VirtualAssumptions, Moves(v, p, q),
             p = InHand(v) \/ Keeps(p, q)
      <4>4. OwnWait(w, h, i, t.signal)' BY ONLY <4>1, <4>2, <4>3 DEF OwnWait
      <4> QED BY ONLY <4>4
    <3> QED BY ONLY <3>1, <3>2, <3>3, <3>4
  <2>2. CASE InRing(h, i) = q
    <3>1. p = q => InRing(h, i) \in Air BY ONLY <2>2, Moves(v, p, q) DEF Moves
    <3> QED BY <2>1, <2>2, <3>1
  <2>3. CASE InRing(h, i) # q
    <3>1. InRing(h, i) \in Air /\ Flight'[InRing(h, i)] = Flight[InRing(h, i)]
      BY ONLY <2>3, InRing(h, i) \in Air', Moves(v, p, q), PlacesApart DEF Moves
    <3> QED BY <2>1, <3>1
  <2> QED BY ONLY <2>2, <2>3
<1>3. DmaWaits'
  <2> SUFFICES ASSUME NEW x, x \in dma'
               PROVE  /\ command'[x.cmd].queue \in VGPUs
                      /\ \A t \in x.deps : Follow(command[x.cmd].queue, t.signal, x.signal.signal)'
    BY DEF DmaWaits
  <2>1. x.cmd \in Commands BY DEF VirtualInv, Basic, Types, Copy
  <2>2. PICK w : w = command[x.cmd].queue /\ w = command'[x.cmd].queue
    BY ONLY <2>1, KeepsCommands DEF KeepsCommands
  <2>3. CASE x \in dma
    <3>1. w \in VGPUs /\ \A t \in x.deps : Follow(w, t.signal, x.signal.signal)
      BY ONLY <1>1, <2>2, <2>3 DEF WaitInv, DmaWaits
    <3>3. CASE w = v
      BY ONLY <2>2, <2>3, <3>1, <3>3,
              \A y \in dma : \A r \in y.deps : command[y.cmd].queue = v /\ Follow(v, r.signal, y.signal.signal)
                 => Follow(v, r.signal, y.signal.signal)'
    <3>4. CASE w # v BY ONLY <2>2, <3>1, <3>4, OthersStay, Moves(v, p, q), v \in VGPUs DEF Moves
    <3> QED BY ONLY <3>3, <3>4
  <2>4. CASE x \notin dma BY <2>2, <2>4
  <2> QED BY ONLY <2>3, <2>4
<1>4. ASSUME NEW w \in VGPUs PROVE HandOf(w)'
  <2>1. CASE w = v BY <2>1
  <2>2. CASE w # v
    <3>1. /\ Ph(w)' = Ph(w) /\ Current(w)' = Current(w) /\ (Holding(w)' <=> Holding(w))
          /\ todo'[w] = todo[w] /\ my'[w] = my[w] /\ \A r, s : Follow(w, r, s)' <=> Follow(w, r, s)
      BY ONLY <2>2, OthersStay, Moves(v, p, q), v \in VGPUs, w \in VGPUs DEF Moves
    <3>2. HandOf(w) BY ONLY <1>1, w \in VGPUs DEF WaitInv
    <3>3. ASSUME ~Holding(w), Ph(w) \in InReserve, NEW t \in my[w].packet.deps,
                 NEW e \in command[my[w].cmd].waits, command[e].hwEvent = t.signal
          PROVE  e \in command'[my[w].cmd].waits /\ command'[e].hwEvent = t.signal
      <4>1. todo[w] # <<>> BY <3>3, PhaseTable DEF Ph, InReserve
      <4>2. my[w].cmd \in Commands BY <4>1, SetupFacts DEF VirtualInv, Basic, InCall, Types, Commands
      <4>3. t.signal \in Pool
        <5>1. SpotOf(w) = InHand(w) BY <3>3 DEF SpotOf
        <5> QED BY <1>1, <5>1, SpotFacts DEF SignalInv, FreshOf
      <4>4. e \in Commands BY <4>2 DEF VirtualInv, Basic, Types, CommandObject
      <4> QED BY ONLY <3>3, <4>2, <4>3, <4>4, KeepsCommands DEF KeepsCommands
    <3> QED BY ONLY <3>1, <3>2, <3>3 DEF HandOf
  <2> QED BY ONLY <2>1, <2>2
<1> QED BY ONLY <1>2, <1>3, <1>4 DEF WaitInv

(* A signal of the pool still falls after those before it in its list. *)
LEMMA MovesFall ==
  ASSUME VirtualAssumptions, FallInv, NEW v \in VGPUs, NEW p, NEW q, Moves(v, p, q),
         p = InHand(v) \/ Keeps(p, q),
         \A w \in VGPUs : \A r, s \in Pool : Follow(w, r, s)' /\ Busy(r)' =>
           \/ /\ Follow(w, r, s) /\ Busy(r) /\ (Busy(s) => Busy(s)')
              /\ Lowers(q)' = s => Keeps(p, q) /\ Lowers(p) = s
           \/ Busy(s)' /\ \A a \in Air' : Lowers(a)' = s => Stays(a, r)'
  PROVE  FallInv'
<1> SUFFICES ASSUME NEW w \in VGPUs, NEW r \in Pool, NEW s \in Pool, Follow(w, r, s)', Busy(r)'
             PROVE  Busy(s)' /\ \A a \in Air' : Lowers(a)' = s => Stays(a, r)'
  BY DEF FallInv
<1> SUFFICES ASSUME Follow(w, r, s), Busy(r), Busy(s) => Busy(s)',
                    Lowers(q)' = s => Keeps(p, q) /\ Lowers(p) = s,
                    NEW a \in Air', Lowers(a)' = s
             PROVE  Busy(s)' /\ Stays(a, r)'
  <2>1. Busy(s)' \/ (Follow(w, r, s) /\ Busy(r) /\ (Busy(s) => Busy(s)')) OBVIOUS
  <2>2. Follow(w, r, s) /\ Busy(r) => Busy(s) BY DEF FallInv
  <2> QED BY <2>1, <2>2
<1>1. Busy(s)' /\ \A b \in Air : Lowers(b) = s => Stays(b, r) BY DEF FallInv
<1>2. \A h, i : Stands(h, i, r) => Stands(h, i, r)'
  BY ONLY MovesStands, VirtualAssumptions, Moves(v, p, q), p = InHand(v) \/ Keeps(p, q),
     r \in Pool
<1>3. CASE a = q
  <2>1. Stays(p, r) /\ Keeps(p, q)
    BY ONLY <1>1, <1>3, Lowers(a)' = s, Lowers(q)' = s => Keeps(p, q) /\ Lowers(p) = s,
       Moves(v, p, q) DEF Moves
  <2>2. \A h, i : p = InRing(h, i) => q = p BY DEF Moves
  <2>3. AwaitsAt(p, r) => AwaitsAt(q, r)' BY ONLY <2>1 DEF Keeps, AwaitsAt
  <2>4. (\E h \in HwQueues, i \in Int : p = InRing(h, i) /\ Stands(h, i, r)) => \E h \in HwQueues, i \in Int : q = InRing(h, i) /\ Stands(h, i, r)'
    BY ONLY <1>2, <2>2
  <2>5. Stays(q, r)' BY ONLY <2>1, <2>3, <2>4 DEF Stays, InRing
  <2> QED BY ONLY <1>1, <1>3, <2>5 DEF Stays, AwaitsAt, InRing
<1>4. CASE a # q
  <2>1. a = InHand(v) /\ Flight'[a] = Nothing => Lowers(a)' = None BY SignalKinds DEF Lowers, Nothing
  <2>2. a \in Air /\ Flight'[a] = Flight[a] BY <1>4, <2>1, SignalKinds DEF Moves
  <2>3. Stays(a, r) BY ONLY <1>1, <2>2, Lowers(a)' = s DEF Lowers
  <2> QED BY ONLY <1>1, <1>2, <2>2, <2>3 DEF Stays, AwaitsAt, InRing
<1> QED BY ONLY <1>1, <1>3, <1>4

(* The other devices stay ready and covered. *)
LEMMA OthersReady ==
  ASSUME VirtualAssumptions, VirtualInv, VirtualInv', OrderInv, NEW v \in VGPUs, NEW p, NEW q,
         Moves(v, p, q), p = InHand(v) \/ Keeps(p, q),
         NEW w \in VGPUs, w # v, Busy(Current(w))' => Busy(Current(w)),
         Belongs(w, q)' => p = q /\ Belongs(w, p),
         KeepsCommands, \A a \in Air : Flight[a].cmd # None => Flight[a].cmd \in 1..created
  PROVE  ReadyOf(w)' /\ CoverOf(w)'
<1>1. ReadyOf(w) /\ CoverOf(w) BY DEF OrderInv
<1>2. /\ Ph(w)' = Ph(w) /\ Own(w)' = Own(w) /\ Current(w)' = Current(w) /\ Hq(w)' = Hq(w)
      /\ (Holding(w)' <=> Holding(w)) /\ (Quiet(w)' <=> Quiet(w)) /\ my'[w] = my[w] /\ vgpu'[w] = vgpu[w]
      /\ \A j : Ahead(w, j)' <=> Ahead(w, j)
  BY ONLY OthersStay, HqStays, w # v, w \in VGPUs, v \in VGPUs, Moves(v, p, q) DEF Moves, Frame
<1>3. Current(w) \in Pool /\ Own(w) \subseteq Signals BY PoolParts
<1>4. PICK s \in Pool : s = Current(w) /\ s = Current(w)' BY ONLY <1>2, <1>3
<1>5. PICK h : h = Hq(w) /\ h = Hq(w)' BY ONLY <1>2
<1>6. \A i : Stands(h, i, s) => Stands(h, i, s)'
  BY ONLY MovesStands, VirtualAssumptions, Moves(v, p, q), p = InHand(v) \/ Keeps(p, q),
     s \in Pool
<1>7. \A i, u : u \in Own(w) /\ LowFrom(h, i, u) => LowFrom(h, i, u)'
  BY ONLY MovesLowFrom, VirtualAssumptions, Moves(v, p, q), p = InHand(v) \/ Keeps(p, q), <1>3
<1>8. InHand(w) # p BY PlacesApart DEF Moves, SpotOf
<1>9. InHand(w) \in Air => (AwaitsAt(InHand(w), s)' <=> AwaitsAt(InHand(w), s))
  <2>1. InHand(w) \in Air => Flight'[InHand(w)] = Flight[InHand(w)] BY ONLY <1>8, Moves(v, p, q) DEF Moves
  <2> QED BY ONLY <2>1 DEF AwaitsAt, InHand
<1>10. Ph(w) \in InReserve \cup {"signalDma"} => InHand(w) \in Air
  <2>1. HoldPlan(todo[w]) <=> Phase(todo[w]) \in InSignal \cup InWrite
    BY PhaseOfPlan DEF VirtualInv, Basic, Plans
  <2>2. Ph(w) \in InReserve \cup {"signalDma"} => ~Holding(w)
    BY ONLY <2>1 DEF Ph, Holding, InReserve, InSignal, InWrite
  <2> QED BY <2>2, BothAir DEF AirFacts
<1>11. Busy(s)' => Busy(s) BY ONLY <1>4, Busy(Current(w))' => Busy(Current(w)) DEF Busy
<1>12. ReadyOf(w)'
  <2>0. PICK n : n = my[w].index /\ n = my'[w].index BY ONLY <1>2
  <2>1. Busy(s) /\ vgpu[w].engine = "Compute" =>
          /\ Holding(w) => Stands(h, n, s)
          /\ Holding(w) \/ (\E i \in Int : Stands(h, i, s)) \/ (Ph(w) \in InReserve /\ AwaitsAt(InHand(w), s))
    BY ONLY <1>1, <1>4, <1>5, <2>0 DEF ReadyOf, Busy
  <2>2. Busy(s) /\ Ph(w) = "signalDma" => AwaitsAt(InHand(w), s) BY ONLY <1>1, <1>4 DEF ReadyOf, Busy
  <2>3. Busy(s)' /\ vgpu[w].engine = "Compute" =>
          /\ Holding(w) => Stands(h, n, s)'
          /\ Holding(w) \/ (\E i \in Int : Stands(h, i, s)') \/ (Ph(w) \in InReserve /\ AwaitsAt(InHand(w), s)')
    BY ONLY <1>6, <1>9, <1>10, <1>11, <2>1
  <2>4. Busy(s)' /\ Ph(w) = "signalDma" => AwaitsAt(InHand(w), s)' BY ONLY <1>9, <1>10, <1>11, <2>2
  <2> QED BY ONLY <1>2, <1>4, <1>5, <2>0, <2>3, <2>4 DEF ReadyOf, InHand, Busy
<1>13. CoverOf(w)'
  <2>1. ASSUME NEW i \in Int, InRing(h, i) \in Air', Belongs(w, InRing(h, i))'
        PROVE  /\ Quiet(w) => \E u \in Own(w) : LowFrom(h, i, u)'
               /\ Ahead(w, i)
    <3>1. CASE InRing(h, i) = q
      <4>1. p = q /\ Belongs(w, p) /\ p \in Air
        BY ONLY <2>1, <3>1, Belongs(w, q)' => p = q /\ Belongs(w, p), Moves(v, p, q)
           DEF Belongs, InRing, Moves
      <4> QED BY ONLY <1>1, <1>5, <1>7, <3>1, <4>1, i \in Int DEF CoverOf
    <3>2. CASE InRing(h, i) # q
      <4>1. InRing(h, i) \in Air /\ Flight'[InRing(h, i)] = Flight[InRing(h, i)]
        BY ONLY <2>1, <3>2, PlacesApart, Moves(v, p, q) DEF Moves
      <4>2. Flight[InRing(h, i)].cmd # None => Flight[InRing(h, i)].cmd \in Commands
        BY <4>1, SetupFacts DEF VirtualInv, Basic, Types, Commands
      <4>3. Belongs(w, InRing(h, i))
        BY ONLY <2>1, <4>1, <4>2, KeepsCommands DEF KeepsCommands, Belongs, Lowers, InRing
      <4> QED BY ONLY <1>1, <1>5, <1>7, <4>1, <4>3, i \in Int DEF CoverOf
    <3> QED BY ONLY <3>1, <3>2
  <2> QED BY ONLY <1>2, <1>5, <2>1 DEF CoverOf, InRing
<1> QED BY ONLY <1>12, <1>13

(* What the device gave to the GPU stays covered. *)
LEMMA StaysCovered ==
  ASSUME VirtualAssumptions, VirtualInv, VirtualInv', OrderInv, SignalInv, NEW v \in VGPUs,
         NEW p, NEW q, Moves(v, p, q), p = InHand(v) \/ Keeps(p, q),
         KeepsCommands, \A a \in Air : Flight[a].cmd # None => Flight[a].cmd \in 1..created,
         \A u \in Own(v) : Busy(u) => u \in Own(v)',
         Quiet(v)' => \A h, n : q = InRing(h, n) => p = q /\ Flight'[q] = Flight[p],
         Quiet(v)' => Quiet(v) \/ \E n \in Int : /\ q = InRing(Hq(v), n) /\ Lowers(q)' \in Own(v)'
                                                /\ \A j \in Int : Ahead(v, j) => j <= n
  PROVE  CoverOf(v)'
<1>1. CoverOf(v) /\ Own(v) \subseteq Signals BY PoolParts DEF OrderInv
<1>2. PICK h : h = Hq(v) /\ h = Hq(v)' BY HqStays DEF Moves, Frame
<1>3. \A i, u : u \in Own(v) /\ LowFrom(h, i, u) => LowFrom(h, i, u)'
  BY ONLY MovesLowFrom, VirtualAssumptions, Moves(v, p, q), p = InHand(v) \/ Keeps(p, q), <1>1
<1>4. ASSUME NEW i \in Int, InRing(h, i) \in Air', Belongs(v, InRing(h, i))'
      PROVE  /\ Quiet(v)' => \E u \in Own(v)' : LowFrom(h, i, u)'
             /\ Ahead(v, i)'
  <2>1. InRing(h, i) # q \/ Quiet(v)' => InRing(h, i) \in Air /\ Belongs(v, InRing(h, i))
    <3>0. InRing(h, i) # q \/ Quiet(v)' => InRing(h, i) \in Air /\ Flight'[InRing(h, i)] = Flight[InRing(h, i)]
      BY ONLY <1>4, PlacesApart, Moves(v, p, q), Quiet(v)' => \A g,
         n : q = InRing(g, n) => p = q /\ Flight'[q] = Flight[p] DEF Moves
    <3>1. InRing(h, i) \in Air /\ Flight[InRing(h, i)].cmd # None => Flight[InRing(h, i)].cmd \in Commands
      BY SetupFacts DEF VirtualInv, Basic, Types, Commands
    <3> QED BY ONLY <1>4, <3>0, <3>1, KeepsCommands DEF KeepsCommands, Belongs, Lowers, InRing
  <2>2. Ahead(v, i)' BY ONLY <1>1, <1>2, <1>4, <2>1, Moves(v, p, q), i \in Int DEF CoverOf, Moves
  <2>3. CASE Quiet(v)' /\ Quiet(v)
    <3>1. PICK u \in Own(v) : LowFrom(h, i, u) BY ONLY <1>1, <1>2, <2>1, <2>3, i \in Int DEF CoverOf
    <3>2. Busy(u) BY <1>1, <3>1, LowFromIs
    <3> QED BY ONLY <1>3, <2>2, <3>1, <3>2, \A s \in Own(v) : Busy(s) => s \in Own(v)'
  <2>4. CASE Quiet(v)' /\ ~Quiet(v)
    <3>1. PICK n \in Int : /\ q = InRing(h, n) /\ Lowers(q)' \in Own(v)'
                           /\ \A j \in Int : Ahead(v, j) => j <= n
      BY <2>4, <1>2
    <3>2. i <= n BY ONLY <1>1, <1>2, <2>1, <2>4, <3>1, i \in Int DEF CoverOf
    <3>4. PICK u : u = Lowers(q)' /\ u \in Own(v)' BY ONLY <3>1
    <3>3. LowFrom(h, i, u)' BY ONLY <3>1, <3>2, <3>4, Moves(v, p, q) DEF LowFrom, Moves, Lowers, InRing
    <3> QED BY ONLY <2>2, <3>3, <3>4
  <2> QED BY ONLY <2>2, <2>3, <2>4
<1> QED BY ONLY <1>2, <1>4 DEF CoverOf, InRing

(* The packet that is none. *)
LEMMA NothingIs ==
  ASSUME VirtualAssumptions
  PROVE  /\ Nothing.cmd = None /\ Nothing.deps = {} /\ Nothing.signal = NoTicket /\ Nothing.kind = "barrier"
         /\ NoTicket.signal = None
BY DEF Nothing, NoTicket

(* When the signals stay fresh as a packet moves. *)
LEMMA MovesSignals ==
  ASSUME VirtualAssumptions, VirtualInv, VirtualInv', SignalInv, NEW v \in VGPUs, NEW p, NEW q,
         Moves(v, p, q),
         \A a \in Air : a # p =>
           /\ HasSignal(a) => \A s : s = Lowers(a) => Now(s)' = Now(s) /\ Busy(s)'
           /\ \A t \in Flight[a].deps : Now(t.signal)' = Now(t.signal),
         \A u \in Own(v) : Busy(u) => u \in Own(v)', FreshOf(q)', HomeOf(q)',
         \A a \in Air : a # p /\ HasSignal(q)' => Lowers(a) # Lowers(q)'
  PROVE  SignalInv'
<1>1. ASSUME NEW a \in Air' PROVE \/ a = q
                                  \/ a = InHand(v) /\ Flight'[a] = Nothing
                                  \/ a \in Air /\ a # p /\ Flight'[a] = Flight[a]
  BY ONLY Moves(v, p, q), a \in Air' DEF Moves
<1>2. ASSUME NEW a \in Air' PROVE FreshOf(a)' /\ HomeOf(a)'
  <2>1. CASE a = q BY <2>1 DEF FreshOf, HomeOf, HasSignal, Lowers
  <2>2. CASE a = InHand(v) /\ Flight'[a] = Nothing
    BY ONLY <2>2, NothingIs, VirtualAssumptions DEF FreshOf, HomeOf, HasSignal
  <2>3. CASE a \in Air /\ a # p /\ Flight'[a] = Flight[a]
    <3>1. FreshOf(a) /\ HomeOf(a) BY ONLY <2>3, SignalInv DEF SignalInv
    <3>2. PICK s : s = Lowers(a) /\ s = Lowers(a)' BY ONLY <2>3 DEF Lowers
    <3>3. HasSignal(a)' <=> HasSignal(a) BY ONLY <2>3 DEF HasSignal
    <3>4. FreshOf(a)'
      <4>1. HasSignal(a) => Flight'[a].signal = Now(s)' /\ Busy(s)' /\ s \in Signals
        BY ONLY <2>3, <3>1, <3>2, \A b \in Air : b # p =>
             /\ HasSignal(b) => \A r : r = Lowers(b) => Now(r)' = Now(r) /\ Busy(r)'
             /\ \A t \in Flight[b].deps : Now(t.signal)' = Now(t.signal) DEF FreshOf
      <4>2. \A t \in Flight[a].deps : t = Now(t.signal)' /\ t.signal \in Pool
        BY ONLY <2>3, <3>1, \A b \in Air : b # p =>
             /\ HasSignal(b) => \A r : r = Lowers(b) => Now(r)' = Now(r) /\ Busy(r)'
             /\ \A t \in Flight[b].deps : Now(t.signal)' = Now(t.signal) DEF FreshOf
      <4> QED BY ONLY <2>3, <3>2, <3>3, <4>1, <4>2 DEF FreshOf, Busy, Now
    <3>5. HomeOf(a)'
      <4>1. HasSignal(a) => Busy(s) BY ONLY <3>1, <3>2 DEF FreshOf, Busy
      <4>2. \A w \in VGPUs : s \in Own(w) /\ Busy(s) => s \in Own(w)'
        <5> SUFFICES ASSUME NEW w \in VGPUs, s \in Own(w), Busy(s) PROVE s \in Own(w)' OBVIOUS
        <5>1. CASE w = v BY <5>1
        <5>2. CASE w # v
          BY ONLY <5>2, OthersStay, v \in VGPUs, w \in VGPUs, Moves(v, p, q), s \in Own(w)
             DEF Moves
        <5> QED BY ONLY <5>1, <5>2
      <4>3. \A w : Hq(w)' = Hq(w) BY HqStays DEF Moves, Frame
      <4> QED BY ONLY <3>1, <3>2, <3>3, <4>1, <4>2, <4>3 DEF HomeOf, InHand, InRing
    <3> QED BY ONLY <3>4, <3>5
  <2> QED BY ONLY <1>1, <2>1, <2>2, <2>3, a \in Air'
<1>3. ASSUME NEW a \in Air', NEW b \in Air', HasSignal(a)', Lowers(a)' = Lowers(b)' PROVE a = b
  <2>1. ASSUME NEW c \in Air', HasSignal(c)', c # q
        PROVE  c \in Air /\ c # p /\ HasSignal(c) /\ Lowers(c)' = Lowers(c)
    <3>1. ~(Flight'[c] = Nothing) BY ONLY <2>1, NothingIs, VirtualAssumptions DEF HasSignal
    <3>2. c \in Air /\ c # p /\ Flight'[c] = Flight[c] BY ONLY <1>1, <2>1, <3>1
    <3> QED BY ONLY <2>1, <3>2 DEF HasSignal, Lowers
  <2>2. HasSignal(b)'
    <3>1. Lowers(a)' \in Signals BY ONLY <1>2, <1>3 DEF FreshOf, Lowers, HasSignal
    <3> QED BY ONLY <1>3, <3>1, Kinds, VirtualAssumptions DEF HasSignal, Lowers, NoTicket
  <2>3. CASE a = q /\ b # q
    BY ONLY <1>3, <2>1, <2>2, <2>3,
       \A c \in Air : c # p /\ HasSignal(q)' => Lowers(c) # Lowers(q)'
         DEF HasSignal, Lowers
  <2>4. CASE a # q /\ b = q
    BY ONLY <1>3, <2>1, <2>2, <2>4,
       \A c \in Air : c # p /\ HasSignal(q)' => Lowers(c) # Lowers(q)'
         DEF HasSignal, Lowers
  <2>5. CASE a # q /\ b # q BY ONLY <1>3, <2>1, <2>2, <2>5, SignalInv DEF SignalInv
  <2> QED BY ONLY <2>3, <2>4, <2>5
<1> QED BY ONLY <1>2, <1>3 DEF SignalInv

(* Two devices have their packets in two places *)
LEMMA SpotsApart ==
  ASSUME VirtualInv, NEW v \in VGPUs, NEW w \in VGPUs, v # w
  PROVE  SpotOf(v) # SpotOf(w)
BY PlacesApart DEF SpotOf, VirtualInv, RingOK, OwnIndex, Hq

(* and their calls for two commands. *)
LEMMA CallsApart ==
  ASSUME VirtualInv, NEW v \in VGPUs, NEW w \in VGPUs, v # w, todo[v] # <<>>, todo[w] # <<>>
  PROVE  my[v].cmd # my[w].cmd
BY DEF VirtualInv, Basic, InCall

(* When the commands stay in one place each. *)
LEMMA MovesCommands ==
  ASSUME VirtualAssumptions, VirtualInv, VirtualInv', CmdInv, NEW v \in VGPUs, NEW p, NEW q,
         Moves(v, p, q),
         created' = created, todo[v] # <<>>, my'[v].cmd = my[v].cmd,
         \A c \in Commands \ (1..created) : command'[c].hwEvent = command[c].hwEvent,
         done' = done \/ (done' = done \cup {my[v].cmd} /\ todo'[v] = <<>> /\ Flight'[q].cmd = None),
         Flight'[q].cmd \in {None, Flight[p].cmd, my[v].cmd},
         todo'[v] # <<>> => SpotOf(v)' = q \/ Flight'[q].cmd = None
  PROVE  CmdInv'
<1>1. ASSUME NEW a \in Air', Flight'[a].cmd # None
      PROVE  a = q \/ (a \in Air /\ a # p /\ Flight'[a] = Flight[a])
  BY ONLY <1>1, Moves(v, p, q), a \in Air', NothingIs, VirtualAssumptions DEF Moves
<1>2. /\ my[v].cmd \in (1..created) \ done /\ p = SpotOf(v)
      /\ \A a \in Air : Flight[a].cmd = my[v].cmd => a = p
  BY DEF CmdInv, VirtualInv, Basic, InCall, Moves
<1>3. ASSUME NEW a \in Air', Flight'[a].cmd # None
      PROVE  Flight'[a].cmd \in (1..created) \ done'
  BY ONLY <1>1, <1>2, <1>3, CmdInv, Moves(v, p, q),
     Flight'[q].cmd \in {None, Flight[p].cmd, my[v].cmd},
     done' = done \/ (done' = done \cup {my[v].cmd} /\ todo'[v] = <<>> /\ Flight'[q].cmd = None) DEF CmdInv, Moves
<1>4. ASSUME NEW a \in Air', NEW b \in Air', Flight'[a].cmd # None,
             Flight'[a].cmd = Flight'[b].cmd
      PROVE  a = b
  BY ONLY <1>1, <1>2, <1>4, CmdInv, Moves(v, p, q),
     Flight'[q].cmd \in {None, Flight[p].cmd, my[v].cmd} DEF CmdInv, Moves
<1>5. ASSUME NEW w \in VGPUs, todo'[w] # <<>>
      PROVE  my'[w].cmd \notin done' /\ \A a \in Air' : Flight'[a].cmd = my'[w].cmd => a = SpotOf(w)'
  <2>1. CASE w = v
    <3>1. my'[v].cmd = my[v].cmd /\ my[v].cmd # None
      BY <1>2, SetupFacts, Kinds DEF VirtualInv, Basic, Types, Commands
    <3> QED BY <1>1, <1>2, <1>5, <2>1, <3>1
  <2>2. CASE w # v
    <3>1. todo'[w] = todo[w] /\ my'[w] = my[w] /\ SpotOf(w)' = SpotOf(w)
      BY ONLY <2>2, OthersStay, Moves(v, p, q), v \in VGPUs, w \in VGPUs DEF Moves
    <3>2. /\ my[w].cmd \notin done /\ my[w].cmd # my[v].cmd /\ my[w].cmd # None
          /\ \A a \in Air : Flight[a].cmd = my[w].cmd => a = SpotOf(w)
      <4>1. todo[w] # <<>> /\ my[w].cmd \in 1..created BY <1>5, <3>1 DEF VirtualInv, Basic, InCall
      <4>2. my[w].cmd # None BY <4>1, SetupFacts, Kinds DEF VirtualInv, Basic, Types, Commands
      <4> QED BY <2>2, <4>1, <4>2, CallsApart DEF CmdInv
    <3>3. Flight'[q].cmd # my[w].cmd
      <4>1. p # SpotOf(w) BY <1>2, <2>2, SpotsApart
      <4>2. p \in Air BY DEF Moves
      <4> QED BY ONLY <3>2, <4>1, <4>2, Flight'[q].cmd \in {None, Flight[p].cmd, my[v].cmd}
    <3> QED
      BY ONLY <1>1, <3>1, <3>2, <3>3,
         done' = done \/ (done' = done \cup {my[v].cmd} /\ todo'[v] = <<>> /\ Flight'[q].cmd = None)
  <2> QED BY ONLY <2>1, <2>2
<1>6. ASSUME NEW c \in Commands \ (1..created)
      PROVE c \notin done' /\ command'[c].hwEvent = None
  BY <1>2 DEF CmdInv
<1> QED BY ONLY <1>3, <1>4, <1>5, <1>6, created' = created DEF CmdInv

(* When the hands of all devices are as their phases say. *)
LEMMA MovesCalls ==
  ASSUME VirtualAssumptions, VirtualInv, VirtualInv', CallInv, NEW v \in VGPUs, Frame(v),
         todo[v] # <<>>, KeepsCommands,
         \A c \in Commands : c # my[v].cmd => command'[c].hwEvent = command[c].hwEvent,
         PacketOf(v)', DeviceOf(v)', EventOf(v)'
  PROVE  CallInv'
<1> SUFFICES ASSUME NEW w \in VGPUs, w # v PROVE PacketOf(w)' /\ DeviceOf(w)' /\ EventOf(w)'
  BY DEF CallInv
<1>1. Ph(w)' = Ph(w) /\ Current(w)' = Current(w) /\ my'[w] = my[w] /\ vgpu'[w] = vgpu[w] BY OthersStay
<1>2. PacketOf(w) /\ DeviceOf(w) /\ EventOf(w) BY DEF CallInv
<1>3. PacketOf(w)' /\ DeviceOf(w)' BY ONLY <1>1, <1>2 DEF PacketOf, DeviceOf
<1>4. CASE Ph(w) = "idle" BY ONLY <1>1, <1>2, <1>3, <1>4 DEF EventOf, Unresolved, InFence, InBarrier
<1>5. CASE Ph(w) # "idle"
  <2>1. todo[w] # <<>> BY <1>5, PhaseTable DEF Ph
  <2>2. my[w].cmd \in Commands /\ my[w].cmd # my[v].cmd
    <3>1. my[w].cmd \in 1..created /\ created \in 0..setup.commands /\ setup \in Setups
      BY <2>1 DEF VirtualInv, Basic, InCall, Types
    <3>2. setup.commands \in 0..MaxCommands /\ MaxCommands \in Nat
      BY ONLY <3>1, VirtualAssumptions, SetupFacts
    <3>3. my[w].cmd \in Commands BY ONLY <3>1, <3>2 DEF Commands
    <3> QED BY <2>1, <3>3, CallsApart
  <2>3. PICK W : W = command[my[w].cmd].waits /\ W = command'[my[w].cmd].waits /\ W \subseteq Commands
    BY <2>2 DEF KeepsCommands, VirtualInv, Basic, Types, CommandObject
  <2>4. /\ command'[my[w].cmd].hwEvent = command[my[w].cmd].hwEvent
        /\ command'[my[w].cmd].op = command[my[w].cmd].op
    BY <2>2 DEF KeepsCommands
  <2>5. vgpu[w].external = {command[e].hwEvent : e \in W} => vgpu[w].external = {command'[e].hwEvent : e \in W}
    <3> SUFFICES ASSUME vgpu[w].external = {command[e].hwEvent : e \in W}
                 PROVE  \A e \in W : command'[e].hwEvent = command[e].hwEvent
      OBVIOUS
    <3>1. vgpu[w].external \subseteq Pool BY DEF VirtualInv, Basic, Types, VirtualDevice
    <3> QED
      BY ONLY <2>3, <3>1, KeepsCommands, vgpu[w].external = {command[e].hwEvent : e \in W}
         DEF KeepsCommands
  <2>6. EventOf(w)' BY ONLY <1>1, <1>2, <2>3, <2>4, <2>5 DEF EventOf
  <2> QED BY ONLY <1>3, <2>6
<1> QED BY ONLY <1>4, <1>5

(* When the signals of the chunks stay guarded. *)
LEMMA MovesChunks ==
  ASSUME VirtualAssumptions, VirtualInv, VirtualInv', ChunkInv, NEW v \in VGPUs, NEW p, NEW q,
         Moves(v, p, q),
         \A w \in VGPUs, k \in Chunks : Busy(<<w, k>>)' => Busy(<<w, k>>) \/ Lowers(q)' = <<w, k>>,
         \A w \in VGPUs, k \in Chunks : w # v => Lowers(q)' # <<w, k>> \/ Busy(<<w, k>>),
         \A w \in VGPUs, k \in Chunks : Lowers(p) = <<w, k>> => Lowers(q)' = <<w, k>>,
         Busy(<<v, vgpu[v].chunk>>)' => Ph(v)' \in {"reserveChunk", "writeChunk", "nextChunk"},
         \A k \in Chunks : InHand(v) = q /\ Lowers(q)' = <<v, k>> => Ph(v)' = "reserveChunk"
  PROVE  ChunkInv'
<1>1. ASSUME NEW a \in Air', NEW w \in VGPUs, NEW k \in Chunks, Lowers(a)' = <<w, k>>, a # q
      PROVE  a \in Air /\ a # p /\ Lowers(a) = <<w, k>>
  <2>1. Flight'[a] # Nothing BY ONLY <1>1, SignalKinds, NothingIs, VirtualAssumptions DEF Lowers
  <2>2. a \in Air /\ a # p /\ Flight'[a] = Flight[a] BY ONLY <1>1, <2>1, Moves(v, p, q) DEF Moves
  <2> QED BY ONLY <1>1, <2>2 DEF Lowers
<1>2. ASSUME NEW w \in VGPUs, Busy(<<w, vgpu[w].chunk>>)'
      PROVE Ph(w)' \in {"reserveChunk", "writeChunk", "nextChunk"}
  <2>1. CASE w = v BY <1>2, <2>1
  <2>2. CASE w # v
    <3>1. Ph(w)' = Ph(w) /\ vgpu'[w] = vgpu[w]
      BY ONLY <2>2, OthersStay, Moves(v, p, q), v \in VGPUs, w \in VGPUs DEF Moves
    <3>2. PICK k \in Chunks : k = vgpu[w].chunk BY DEF VirtualInv, Basic, Types, VirtualDevice
    <3>3. Busy(<<w, k>>)' BY ONLY <1>2, <3>1, <3>2 DEF Busy
    <3>4. Busy(<<w, k>>) BY <2>2, <3>3
    <3> QED BY ONLY <3>1, <3>2, <3>4, ChunkInv, w \in VGPUs DEF ChunkInv
  <2> QED BY ONLY <2>1, <2>2
<1>3. ASSUME NEW w \in VGPUs, NEW k \in Chunks, Busy(<<w, k>>)'
      PROVE \E a \in Air' : Lowers(a)' = <<w, k>>
  <2>0. q \in Air' BY DEF Moves
  <2>1. CASE Lowers(q)' = <<w, k>> BY <2>0, <2>1
  <2>2. CASE Busy(<<w, k>>)
    <3>1. PICK a \in Air : Lowers(a) = <<w, k>> BY ONLY <2>2, ChunkInv DEF ChunkInv
    <3>2. CASE a = p BY <2>0, <3>1, <3>2
    <3>3. CASE a # p
      <4>1. a \in Air' /\ Flight'[a] = Flight[a] BY ONLY <3>3, Moves(v, p, q) DEF Moves
      <4> QED BY ONLY <3>1, <4>1 DEF Lowers
    <3> QED BY ONLY <3>2, <3>3
  <2> QED BY <1>3, <2>1, <2>2
<1>4. ASSUME NEW w \in VGPUs, NEW k \in Chunks, InHand(w) \in Air',
             Lowers(InHand(w))' = <<w, k>> PROVE Ph(w)' = "reserveChunk"
  <2>1. CASE InHand(w) = q
    <3>1. w = v BY ONLY <2>1, Moves(v, p, q) DEF Moves
    <3> QED
      BY ONLY <1>4, <2>1, <3>1,
         \A j \in Chunks : InHand(v) = q /\ Lowers(q)' = <<v, j>> => Ph(v)' = "reserveChunk"
         DEF Lowers, InHand
  <2>2. CASE InHand(w) # q
    <3>1. InHand(w) \in Air /\ InHand(w) # p /\ Lowers(InHand(w)) = <<w, k>>
      BY <1>1, <1>4, <2>2 DEF InHand, Lowers
    <3>2. w # v
      <4>1. InHand(v) \in Air => p = InHand(v) BY ONLY Moves(v, p, q) DEF Moves
      <4> QED BY ONLY <3>1, <4>1
    <3>3. Ph(w)' = Ph(w) BY ONLY <3>2, OthersStay, Moves(v, p, q), v \in VGPUs, w \in VGPUs DEF Moves
    <3> QED BY ONLY <3>1, <3>3, ChunkInv, w \in VGPUs, k \in Chunks DEF ChunkInv
  <2> QED BY ONLY <2>1, <2>2
<1> QED BY ONLY <1>2, <1>3, <1>4 DEF ChunkInv, InHand

(* A call has the packet of its command, or one that is for none. *)
LEMMA PacketCommand ==
  ASSUME VirtualAssumptions, VirtualInv, NEW v \in VGPUs, PacketOf(v)
  PROVE  my[v].packet.cmd \in {None, my[v].cmd}
<1>1. Ph(v) \in Phases BY PhaseOfPlan DEF VirtualInv, Basic, Plans, Ph
<1>2. my[v].packet = Nothing => my[v].packet.cmd = None BY NothingIs
<1> QED
  BY ONLY <1>1, <1>2, PacketOf(v)
     DEF PacketOf, Phases, InFence, InBarrier, InReserve, InSignal, InWrite

(* A kernel in a ring still waits for nothing. *)
LEMMA MovesKinds ==
  ASSUME VirtualAssumptions, KindInv, NEW v, NEW p, NEW q, Moves(v, p, q),
         \A h, i : q = InRing(h, i) => (Flight'[q].kind = "kernel" => Flight'[q].deps = {})
  PROVE  KindInv'
<1> SUFFICES ASSUME NEW h \in HwQueues, NEW i \in Int, InRing(h, i) \in Air',
                    Flight'[InRing(h, i)].kind = "kernel"
             PROVE  Flight'[InRing(h, i)].deps = {}
  BY DEF KindInv, InRing
<1>1. CASE InRing(h, i) = q BY <1>1
<1>2. CASE InRing(h, i) # q
  <2>1. InRing(h, i) \in Air /\ Flight'[InRing(h, i)] = Flight[InRing(h, i)]
    BY ONLY <1>2, InRing(h, i) \in Air', PlacesApart, Moves(v, p, q) DEF Moves
  <2> QED BY <2>1 DEF KindInv
<1> QED BY ONLY <1>1, <1>2

(* A step of a call that leaves the signals and the lists as they are. *)
Calm(v, p, q) ==
  /\ Moves(v, p, q) /\ Keeps(p, q) /\ Flight'[q].signal = Flight[p].signal
  /\ signal' = signal /\ vgpu'[v].list = vgpu[v].list /\ vgpu'[v].current = vgpu[v].current
  /\ created' = created /\ todo[v] # <<>> /\ my'[v].cmd = my[v].cmd
  /\ \A c \in Commands : /\ command'[c].queue = command[c].queue /\ command'[c].op = command[c].op
                         /\ command'[c].waits = command[c].waits /\ command'[c].hwEvent = command[c].hwEvent
  /\ done' = done \/ (done' = done \cup {my[v].cmd} /\ todo'[v] = <<>> /\ Flight'[q].cmd = None)
  /\ Flight'[q].cmd \in {None, Flight[p].cmd, my[v].cmd}
  /\ todo'[v] # <<>> => SpotOf(v)' = q \/ Flight'[q].cmd = None
  /\ \A t \in Flight'[q].deps : t \in Flight[p].deps \/ (t = Now(t.signal) /\ t.signal \in Pool)
  /\ q = p \/ (\E i \in Int : q = InRing(Hq(v), i)) \/ Ph(v) # "reserveChunk"

(* What belongs to another device was there before. *)
LEMMA BelongsStays ==
  ASSUME VirtualAssumptions, VirtualInv, SignalInv, CallInv, NEW v \in VGPUs, NEW p, NEW q,
         Moves(v, p, q), todo[v] # <<>>,
         Flight'[q].cmd \in {None, Flight[p].cmd, my[v].cmd},
         \A c \in Commands : command'[c].queue = command[c].queue,
         NEW w \in VGPUs, w # v, Belongs(w, q)',
         \A k \in Chunks : Flight'[q].signal.signal = <<w, k>> => Flight'[q].signal = Flight[p].signal
  PROVE  p = q /\ Belongs(w, p)
<1>1. my[v].cmd \in Commands /\ command[my[v].cmd].queue = v /\ p = SpotOf(v) /\ p \in Air /\ Flight[p] = my[v].packet
  BY SetupFacts DEF VirtualInv, Basic, InCall, Types, Commands, Moves
<1>2. Flight[p].cmd \in {None, my[v].cmd} BY <1>1, PacketCommand DEF CallInv
<1>3. Flight'[q].cmd # None => command'[Flight'[q].cmd].queue = v BY <1>1, <1>2
<1>4. PICK k \in Chunks : Lowers(q)' = <<w, k>> BY <1>3 DEF Belongs
<1>5. Lowers(p) = <<w, k>> BY <1>4 DEF Lowers
<1>6. HasSignal(p) /\ <<w, k>> \notin Pool BY <1>1, <1>5, SignalKinds, LowersIs
<1>7. \E u \in VGPUs, j \in Chunks : /\ Lowers(p) = <<u, j>>
                                    /\ (p = InHand(u) \/ \E i \in Int : p = InRing(Hq(u), i))
  <2>1. \A u \in VGPUs : Own(u) \subseteq Pool BY PoolParts
  <2> QED BY ONLY <1>1, <1>5, <1>6, <2>1, SignalInv DEF SignalInv, HomeOf
<1>8. p = InHand(w) \/ \E i \in Int : p = InRing(Hq(w), i) BY ONLY <1>5, <1>7
<1>9. p # InHand(w) BY ONLY <1>1, w # v, PlacesApart DEF SpotOf
<1>10. p = q BY ONLY <1>8, <1>9, Moves(v, p, q) DEF Moves
<1> QED BY <1>5, <1>10 DEF Belongs

(* A calm step keeps the signals, and the other devices as they are. *)
LEMMA CalmSignals ==
  ASSUME VirtualAssumptions, VirtualInv, VirtualInv', AirInv, NEW v \in VGPUs, NEW p, NEW q,
         Calm(v, p, q)
  PROVE  /\ SignalInv' /\ ListInv' /\ CmdInv' /\ FallInv'
         /\ \A w \in VGPUs : w # v => ReadyOf(w)' /\ CoverOf(w)'
<1>1. SignalInv /\ ListInv /\ CmdInv /\ CallInv /\ WaitInv /\ OrderInv /\ ChunkInv /\ KindInv
  BY DEF AirInv
<1>2. \A s : Now(s)' = Now(s) /\ (Busy(s)' <=> Busy(s)) BY DEF Calm, Now, Busy
<1>3. /\ Moves(v, p, q) /\ Keeps(p, q) /\ Flight'[q].signal = Flight[p].signal /\ p \in Air /\ q \in Air'
      /\ Lowers(q)' = Lowers(p) /\ (HasSignal(q)' <=> HasSignal(p)) /\ setup' = setup
  BY DEF Calm, Moves, Lowers, HasSignal, Frame
<1>4. /\ Own(v)' = Own(v) /\ Current(v)' = Current(v) /\ \A r, s : Follow(v, r, s)' <=> Follow(v, r, s)
  BY DEF Calm, Own, Current, Follow
<1>5. KeepsCommands /\ \A a \in Air : Flight[a].cmd # None => Flight[a].cmd \in 1..created
  BY <1>1 DEF KeepsCommands, Calm, CmdInv
<1>6. ASSUME NEW w \in VGPUs, w # v
      PROVE Own(w)' = Own(w) /\ Current(w)' = Current(w) /\ vgpu'[w] = vgpu[w]
                                         /\ \A r, s : Follow(w, r, s)' <=> Follow(w, r, s)
  BY ONLY <1>3, <1>6, v \in VGPUs, OthersStay DEF Moves
<1>7. SignalInv'
  <2>1. FreshOf(p) /\ HomeOf(p) BY <1>1, <1>3 DEF SignalInv
  <2>2. FreshOf(q)'
    <3>1. PICK s : s = Lowers(p) /\ s = Lowers(q)' BY <1>3
    <3>2. HasSignal(p) => Flight'[q].signal = Now(s)' /\ Busy(s)' /\ s \in Signals
      BY ONLY <1>2, <1>3, <2>1, <3>1 DEF FreshOf
    <3>3. \A t \in Flight'[q].deps : t = Now(t.signal)' /\ t.signal \in Pool
      BY ONLY <1>2, <2>1, Calm(v, p, q) DEF FreshOf, Calm
    <3> QED BY ONLY <1>3, <3>1, <3>2, <3>3 DEF FreshOf, Busy, Now
  <2>3. HomeOf(q)'
    <3>1. \A w \in VGPUs : Own(w)' = Own(w) /\ Hq(w)' = Hq(w) BY <1>3, <1>4, <1>6, HqStays
    <3>2. CASE \E w \in VGPUs : Lowers(p) \in Own(w) BY ONLY <1>3, <3>1, <3>2 DEF HomeOf
    <3>3. CASE HasSignal(p) /\ \E w \in VGPUs, k \in Chunks : Lowers(p) = <<w, k>> /\ (p = InHand(w) \/ \E i \in Int : p = InRing(Hq(w), i))
      <4>1. PICK w \in VGPUs, k \in Chunks : Lowers(p) = <<w, k>> /\ (p = InHand(w) \/ \E i \in Int : p = InRing(Hq(w), i))
        BY <3>3
      <4>2. q = InHand(w) \/ \E i \in Int : q = InRing(Hq(w), i)
        <5>1. CASE \E i \in Int : p = InRing(Hq(w), i) BY ONLY <1>3, <5>1, <4>1 DEF Moves
        <5>2. CASE p = InHand(w)
          <6>1. w = v BY ONLY <1>3, <5>2, PlacesApart DEF Moves, SpotOf
          <6>2. Lowers(InHand(v)) = <<v, k>> /\ InHand(v) \in Air BY <1>3, <4>1, <5>2, <6>1
          <6>3. Ph(v) = "reserveChunk" BY ONLY <1>1, <6>2, v \in VGPUs, k \in Chunks DEF ChunkInv
          <6>4. q = p \/ \E i \in Int : q = InRing(Hq(v), i) BY <6>3 DEF Calm
          <6> QED BY ONLY <5>2, <6>1, <6>4
        <5> QED BY ONLY <4>1, <5>1, <5>2
      <4> QED BY ONLY <1>3, <3>1, <4>1, <4>2 DEF HomeOf, InHand, InRing
    <3> QED BY ONLY <1>3, <2>1, <3>2, <3>3 DEF HomeOf
  <2>4. \A a \in Air : a # p /\ HasSignal(q)' => Lowers(a) # Lowers(q)' BY ONLY <1>1, <1>3 DEF SignalInv
  <2>5. \A a \in Air : a # p =>
           /\ HasSignal(a) => \A s : s = Lowers(a) => Now(s)' = Now(s) /\ Busy(s)'
           /\ \A t \in Flight[a].deps : Now(t.signal)' = Now(t.signal)
    BY ONLY <1>1, <1>2 DEF SignalInv, FreshOf
  <2>6. \A u \in Own(v) : Busy(u) => u \in Own(v)' BY ONLY <1>4
  <2> QED BY ONLY VirtualAssumptions, VirtualInv, VirtualInv', <1>1, <1>3, <2>2, <2>3, <2>4, <2>5,
       <2>6, v \in VGPUs, MovesSignals
<1>8. ListInv'
  <2>1. \A w \in VGPUs : vgpu'[w].list = vgpu[w].list BY <1>6 DEF Calm
  <2> QED BY ONLY <1>1, <2>1 DEF ListInv, Own
<1>9. CmdInv'
  BY ONLY VirtualAssumptions, VirtualInv, VirtualInv', <1>1, Calm(v, p, q), v \in VGPUs,
     MovesCommands DEF Calm
<1>10. FallInv'
  <2>1. \A w \in VGPUs : \A r, s \in Pool : Follow(w, r, s)' /\ Busy(r)' =>
           \/ /\ Follow(w, r, s) /\ Busy(r) /\ (Busy(s) => Busy(s)')
              /\ Lowers(q)' = s => Keeps(p, q) /\ Lowers(p) = s
           \/ Busy(s)' /\ \A a \in Air' : Lowers(a)' = s => Stays(a, r)'
    BY ONLY <1>2, <1>3, <1>4, <1>6
  <2> QED BY ONLY VirtualAssumptions, <1>1, <1>3, <2>1, v \in VGPUs, MovesFall DEF OrderInv
<1>11. ASSUME NEW w \in VGPUs, w # v PROVE ReadyOf(w)' /\ CoverOf(w)'
  <2>1. Busy(Current(w))' => Busy(Current(w))
    BY ONLY <1>6, <1>11, signal' = signal, Calm(v, p, q) DEF Busy, Calm
  <2>2. Belongs(w, q)' => p = q /\ Belongs(w, p)
    <3>1. /\ todo[v] # <<>> /\ Flight'[q].cmd \in {None, Flight[p].cmd, my[v].cmd}
          /\ \A c \in Commands : command'[c].queue = command[c].queue
      BY ONLY Calm(v, p, q) DEF Calm
    <3> QED
      BY ONLY VirtualAssumptions, VirtualInv, <1>1, <1>3, <1>11, <3>1, v \in VGPUs,
         BelongsStays
  <2> QED
    BY ONLY VirtualAssumptions, VirtualInv, VirtualInv', <1>1, <1>3, <1>5, <1>11, <2>1, <2>2,
       v \in VGPUs, OthersReady
<1> QED BY ONLY <1>7, <1>8, <1>9, <1>10, <1>11

(* What stays to be seen of a calm step. *)
CalmPlaces(v, p, q) ==
  /\ \A h, i : q = InRing(h, i) => \A t \in Flight'[q].deps :
       (p = q /\ t \in Flight[p].deps) \/ OwnWait(v, h, i, t.signal)' \/ ExtWait(h, i, t.signal)'
  /\ \A x : x \in dma' /\ x \notin dma =>
       command[x.cmd].queue = v /\ \A t \in x.deps : Follow(v, t.signal, x.signal.signal)
  /\ \A h, i : q = InRing(h, i) => (Flight'[q].kind = "kernel" => Flight'[q].deps = {})

(* What a calm step keeps of its own device. *)
CalmDevice(v, p, q) ==
  /\ PacketOf(v)' /\ DeviceOf(v)' /\ EventOf(v)' /\ HandOf(v)' /\ ReadyOf(v)'
  /\ StillBehind(v, q)
  /\ ~Signalled(v) /\ (vgpu[v].pending \/ Ph(v) \in Computes)
       => ~Signalled(v)' /\ (vgpu'[v].pending \/ Ph(v)' \in Computes)
  /\ Quiet(v)' => \A h, n : q = InRing(h, n) => p = q /\ Flight'[q] = Flight[p]
  /\ Quiet(v)' => Quiet(v) \/ \E n \in Int : /\ q = InRing(Hq(v), n) /\ Lowers(q)' \in Own(v)'
                                            /\ \A j \in Int : Ahead(v, j) => j <= n
  /\ Busy(<<v, vgpu'[v].chunk>>) => Ph(v)' \in {"reserveChunk", "writeChunk", "nextChunk"}
  /\ InHand(v) = q => Ph(v) # "reserveChunk"

(* A calm step that does keeps the invariant. *)
LEMMA CalmKeeps ==
  ASSUME VirtualAssumptions, VirtualInv, VirtualInv', AirInv, NEW v \in VGPUs, NEW p, NEW q,
         Calm(v, p, q),
         CalmPlaces(v, p, q), CalmDevice(v, p, q)
  PROVE  AirInv'
<1>1. SignalInv /\ ListInv /\ CmdInv /\ CallInv /\ WaitInv /\ OrderInv /\ ChunkInv /\ KindInv
  BY DEF AirInv
<1>2. \A s : Busy(s)' <=> Busy(s) BY DEF Calm, Busy
<1>3. /\ Moves(v, p, q) /\ Keeps(p, q) /\ Flight'[q].signal = Flight[p].signal /\ p \in Air /\ q \in Air'
      /\ Lowers(q)' = Lowers(p) /\ (HasSignal(q)' <=> HasSignal(p)) /\ setup' = setup /\ Frame(v)
  BY DEF Calm, Moves, Lowers, HasSignal, Frame
<1>4. /\ Own(v)' = Own(v) /\ Current(v)' = Current(v) /\ (\A r, s : Follow(v, r, s)' <=> Follow(v, r, s))
      /\ Hq(v)' = Hq(v)
  BY <1>3, HqStays DEF Calm, Own, Current, Follow
<1>5. KeepsCommands /\ \A a \in Air : Flight[a].cmd # None => Flight[a].cmd \in 1..created
  BY <1>1 DEF KeepsCommands, Calm, CmdInv
<1>6. /\ SignalInv' /\ ListInv' /\ CmdInv' /\ FallInv'
      /\ \A w \in VGPUs : w # v => ReadyOf(w)' /\ CoverOf(w)'
  BY ONLY CalmSignals, VirtualAssumptions, VirtualInv, VirtualInv', AirInv, v \in VGPUs,
     Calm(v, p, q)
<1>7. CallInv'
  <2>1. todo[v] # <<>> /\ \A c \in Commands : c # my[v].cmd => command'[c].hwEvent = command[c].hwEvent
    BY DEF Calm
  <2>2. PacketOf(v)' /\ DeviceOf(v)' /\ EventOf(v)' BY DEF CalmDevice
  <2> QED
    BY ONLY VirtualAssumptions, VirtualInv, VirtualInv', <1>1, <1>3, <1>5, <2>1, <2>2,
       v \in VGPUs, MovesCalls
<1>8. StillWaits(v)
  <2> SUFFICES ASSUME NEW h, NEW j, NEW s \in Pool, InRing(h, j) \in Air', OwnWait(v, h, j, s)
               PROVE  OwnWait(v, h, j, s)'
    BY DEF StillWaits
  <2>1. CASE s = Current(v) /\ OpenFor(v, j)
    <3>1. h = Hq(v) /\ Ahead(v, j) BY <2>1 DEF OwnWait, OpenFor
    <3>2. Ahead(v, j)' BY ONLY <1>3, <3>1, InRing(h, j) \in Air' DEF Moves
    <3>3. ~Signalled(v)' /\ (vgpu'[v].pending \/ Ph(v)' \in Computes)
      BY ONLY <2>1, CalmDevice(v, p, q) DEF CalmDevice, OpenFor
    <3>4. OpenFor(v, j)' BY ONLY <3>2, <3>3 DEF OpenFor
    <3> QED BY ONLY <1>4, <2>1, <3>1, <3>4 DEF OwnWait
  <2>2. CASE \E u \in Own(v) : Follow(v, s, u) /\ LowFrom(h, j, u)
    <3>1. PICK u \in Own(v) : Follow(v, s, u) /\ LowFrom(h, j, u) BY <2>2
    <3>2. u \in Signals BY PoolParts
    <3>3. LowFrom(h, j, u)' BY ONLY <1>3, <3>1, <3>2, MovesLowFrom, VirtualAssumptions
    <3>4. h = Hq(v) BY DEF OwnWait
    <3> QED BY ONLY <1>4, <3>1, <3>3, <3>4 DEF OwnWait
  <2> QED BY <2>1, <2>2 DEF OwnWait
<1>9. WaitInv'
  <2>1. \A h, i : q = InRing(h, i) => \A t \in Flight'[q].deps :
            t.signal \in Pool /\ ((p = q /\ t \in Flight[p].deps) \/ OwnWait(v, h, i, t.signal)' \/ ExtWait(h, i, t.signal)')
    <3>1. \A t \in Flight[p].deps : t.signal \in Pool BY ONLY <1>1, <1>3 DEF SignalInv, FreshOf
    <3>2. \A t \in Flight'[q].deps : t.signal \in Pool BY ONLY <3>1, Calm(v, p, q) DEF Calm
    <3> QED BY ONLY <3>2, CalmPlaces(v, p, q) DEF CalmPlaces
  <2>2. \A x \in dma : \A t \in x.deps : command[x.cmd].queue = v /\ Follow(v, t.signal, x.signal.signal)
           => Follow(v, t.signal, x.signal.signal)'
    BY ONLY <1>4
  <2>3. \A x : x \in dma' /\ x \notin dma => command[x.cmd].queue = v /\ \A t \in x.deps : Follow(v, t.signal, x.signal.signal)'
    BY ONLY <1>4, CalmPlaces(v, p, q) DEF CalmPlaces
  <2>4. my'[v].cmd = my[v].cmd /\ StillBehind(v, q) /\ HandOf(v)' BY DEF Calm, CalmDevice
  <2> QED BY ONLY VirtualAssumptions, VirtualInv, VirtualInv', AirInv, <1>3, <1>5, <1>8, <2>1, <2>2,
       <2>3, <2>4, v \in VGPUs, MovesWaits
<1>10. CoverOf(v)'
  <2>1. \A u \in Own(v) : Busy(u) => u \in Own(v)' BY ONLY <1>4
  <2>2. /\ Quiet(v)' => \A h, n : q = InRing(h, n) => p = q /\ Flight'[q] = Flight[p]
        /\ Quiet(v)' => Quiet(v) \/ \E n \in Int : /\ q = InRing(Hq(v), n) /\ Lowers(q)' \in Own(v)'
                                                  /\ \A j \in Int : Ahead(v, j) => j <= n
    BY DEF CalmDevice
  <2> QED
    BY ONLY VirtualAssumptions, VirtualInv, VirtualInv', <1>1, <1>3, <1>5, <2>1, <2>2,
       v \in VGPUs, StaysCovered
<1>11. OrderInv'
  <2>1. ReadyOf(v)' BY DEF CalmDevice
  <2> QED BY ONLY <1>6, <1>10, <2>1 DEF OrderInv
<1>12. ChunkInv'
  <2>1. \A w \in VGPUs, k \in Chunks : Lowers(p) = <<w, k>> => Busy(<<w, k>>)
    BY <1>1, <1>3, LowersIs, SignalKinds
  <2>2. Busy(<<v, vgpu[v].chunk>>)' => Ph(v)' \in {"reserveChunk", "writeChunk", "nextChunk"}
    BY ONLY Calm(v, p, q), CalmDevice(v, p, q) DEF CalmDevice, Calm, Busy
  <2>3. \A k \in Chunks : InHand(v) = q /\ Lowers(q)' = <<v, k>> => Ph(v)' = "reserveChunk"
    <3>1. InHand(v) = q => p = q BY ONLY <1>3 DEF Moves
    <3>2. \A k \in Chunks : InHand(v) = q /\ Lowers(q)' = <<v, k>> => Ph(v) = "reserveChunk"
      BY ONLY <1>1, <1>3, <3>1, v \in VGPUs DEF ChunkInv
    <3> QED BY ONLY <3>2, CalmDevice(v, p, q) DEF CalmDevice
  <2>4. \A w \in VGPUs, k \in Chunks : Busy(<<w, k>>)' => Busy(<<w, k>>) \/ Lowers(q)' = <<w, k>>
    BY ONLY <1>2
  <2>5. \A w \in VGPUs, k \in Chunks : w # v => Lowers(q)' # <<w, k>> \/ Busy(<<w, k>>) BY ONLY <1>3, <2>1
  <2>6. \A w \in VGPUs, k \in Chunks : Lowers(p) = <<w, k>> => Lowers(q)' = <<w, k>> BY ONLY <1>3
  <2> QED BY ONLY VirtualAssumptions, VirtualInv, VirtualInv', <1>1, <1>3, <2>2, <2>3, <2>4, <2>5,
       <2>6, v \in VGPUs, MovesChunks
<1>13. KindInv' BY ONLY VirtualAssumptions, <1>1, <1>3, MovesKinds, CalmPlaces(v, p, q) DEF CalmPlaces
<1> QED BY ONLY <1>6, <1>7, <1>9, <1>11, <1>12, <1>13 DEF AirInv
=============================================================================
