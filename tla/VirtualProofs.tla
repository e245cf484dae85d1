---------------------------- MODULE VirtualProofs ----------------------------
(* Proofs about the ROCm virtual device, for any number of devices, rings,
   signals, chunks and commands. *)
EXTENDS VirtualGPU, FiniteSetTheorems, SequenceTheorems, WellFoundedInduction, TLAPS

----------------------------------------
(* Sequences built from the front. *)

(* What Head, Tail and the concatenation make of Cons. *)
LEMMA ConsParts ==
  ASSUME NEW S, NEW a \in S, NEW T \in Seq(S)
  PROVE  /\ Cons(a, T) \in Seq(S) /\ Cons(a, T) # <<>> /\ Len(Cons(a, T)) = 1 + Len(T)
         /\ Head(Cons(a, T)) = a /\ Tail(Cons(a, T)) = T
BY DEF Cons

LEMMA ConsConcat ==
  ASSUME NEW S, NEW a \in S, NEW T \in Seq(S), NEW U \in Seq(S)
  PROVE  Cons(a, T) \o U = Cons(a, T \o U)
<1>1. <<a>> \in Seq(S) OBVIOUS
<1> QED BY <1>1, ConcatAssociative DEF Cons

(* Short tuples. *)
LEMMA Cons1 ==
  ASSUME NEW S, NEW a \in S
  PROVE  <<a>> = Cons(a, <<>>)
<1>1. <<a>> \in Seq(S) OBVIOUS
<1> QED BY <1>1, ConcatEmptySeq DEF Cons

LEMMA Cons2 ==
  ASSUME NEW S, NEW a \in S, NEW b \in S
  PROVE  <<a, b>> = Cons(a, Cons(b, <<>>))
<1>1. <<b>> \in Seq(S) /\ <<a>> \in Seq(S) /\ <<a, b>> \in Seq(S) OBVIOUS
<1>2. Len(<<a, b>>) = 2 /\ <<a, b>>[1] = a /\ <<a, b>>[2] = b OBVIOUS
<1>3. Len(<<b>>) = 1 /\ <<b>>[1] = b OBVIOUS
<1>4. Len(<<a>>) = 1 /\ <<a>>[1] = a OBVIOUS
<1>5. PICK t \in Seq(S) : t = <<a>> \o <<b>> BY ONLY <1>1, ConcatProperties
<1>6. PICK s \in Seq(S) : s = <<a, b>> BY ONLY <1>1
<1>7. PICK r \in Seq(S) : r = <<b>> BY ONLY <1>1
<1>8. PICK u \in Seq(S) : u = <<a>> BY ONLY <1>1
<1>9. Len(t) = 2 /\ t[1] = a /\ t[2] = b BY ONLY <1>5, <1>7, <1>8, <1>3, <1>4, ConcatProperties
<1>10. s = t
  <2>1. Len(s) = 2 /\ s[1] = a /\ s[2] = b BY ONLY <1>6, <1>2
  <2>2. \A i \in 1..Len(s) : s[i] = t[i] BY ONLY <2>1, <1>9
  <2> QED BY ONLY <2>1, <2>2, <1>9, SeqEqual
<1>11. t = Cons(a, <<b>>) BY ONLY <1>5 DEF Cons
<1>12. <<b>> = Cons(b, <<>>) BY ONLY Cons1, \A x \in {a, b} : x \in S
<1> QED BY ONLY <1>10, <1>6, <1>11, <1>12

LEMMA Cons3 ==
  ASSUME NEW S, NEW a \in S, NEW b \in S, NEW c \in S
  PROVE  <<a, b, c>> = Cons(a, Cons(b, Cons(c, <<>>)))
<1>1. <<b, c>> \in Seq(S) /\ <<a>> \in Seq(S) /\ <<a, b, c>> \in Seq(S) OBVIOUS
<1>2. Len(<<a, b, c>>) = 3 /\ <<a, b, c>>[1] = a /\ <<a, b, c>>[2] = b /\ <<a, b, c>>[3] = c OBVIOUS
<1>3. Len(<<b, c>>) = 2 /\ <<b, c>>[1] = b /\ <<b, c>>[2] = c OBVIOUS
<1>4. Len(<<a>>) = 1 /\ <<a>>[1] = a OBVIOUS
<1>5. PICK t \in Seq(S) : t = <<a>> \o <<b, c>> BY ONLY <1>1, ConcatProperties
<1>6. PICK s \in Seq(S) : s = <<a, b, c>> BY ONLY <1>1
<1>7. PICK r \in Seq(S) : r = <<b, c>> BY ONLY <1>1
<1>8. PICK u \in Seq(S) : u = <<a>> BY ONLY <1>1
<1>9. Len(t) = 3 /\ t[1] = a /\ t[2] = b /\ t[3] = c
  BY ONLY <1>5, <1>7, <1>8, <1>3, <1>4, ConcatProperties
<1>10. s = t
  <2>1. Len(s) = 3 /\ s[1] = a /\ s[2] = b /\ s[3] = c BY ONLY <1>6, <1>2
  <2>2. \A i \in 1..Len(s) : s[i] = t[i] BY ONLY <2>1, <1>9
  <2> QED BY ONLY <2>1, <2>2, <1>9, SeqEqual
<1>11. t = Cons(a, <<b, c>>) BY ONLY <1>5 DEF Cons
<1>12. <<b, c>> = Cons(b, Cons(c, <<>>)) BY ONLY Cons2, \A x \in {a, b, c} : x \in S
<1> QED BY ONLY <1>10, <1>6, <1>11, <1>12

LEMMA Cons4 ==
  ASSUME NEW S, NEW a \in S, NEW b \in S, NEW c \in S, NEW d \in S
  PROVE  <<a, b, c, d>> = Cons(a, Cons(b, Cons(c, Cons(d, <<>>))))
<1>1. <<b, c, d>> \in Seq(S) /\ <<a>> \in Seq(S) /\ <<a, b, c, d>> \in Seq(S) OBVIOUS
<1>2. Len(<<a, b, c, d>>) = 4 /\ <<a, b, c, d>>[1] = a /\ <<a, b, c, d>>[2] = b /\ <<a, b, c, d>>[3] = c /\ <<a, b, c, d>>[4] = d
  OBVIOUS
<1>3. Len(<<b, c, d>>) = 3 /\ <<b, c, d>>[1] = b /\ <<b, c, d>>[2] = c /\ <<b, c, d>>[3] = d OBVIOUS
<1>4. Len(<<a>>) = 1 /\ <<a>>[1] = a OBVIOUS
<1>5. PICK t \in Seq(S) : t = <<a>> \o <<b, c, d>> BY ONLY <1>1, ConcatProperties
<1>6. PICK s \in Seq(S) : s = <<a, b, c, d>> BY ONLY <1>1
<1>7. PICK r \in Seq(S) : r = <<b, c, d>> BY ONLY <1>1
<1>8. PICK u \in Seq(S) : u = <<a>> BY ONLY <1>1
<1>9. Len(t) = 4 /\ t[1] = a /\ t[2] = b /\ t[3] = c /\ t[4] = d
  BY ONLY <1>5, <1>7, <1>8, <1>3, <1>4, ConcatProperties
<1>10. s = t
  <2>1. Len(s) = 4 /\ s[1] = a /\ s[2] = b /\ s[3] = c /\ s[4] = d BY ONLY <1>6, <1>2
  <2>2. \A i \in 1..Len(s) : s[i] = t[i] BY ONLY <2>1, <1>9
  <2> QED BY ONLY <2>1, <2>2, <1>9, SeqEqual
<1>11. t = Cons(a, <<b, c, d>>) BY ONLY <1>5 DEF Cons
<1>12. <<b, c, d>> = Cons(b, Cons(c, Cons(d, <<>>))) BY ONLY Cons3, \A x \in {a, b, c, d} : x \in S
<1> QED BY ONLY <1>10, <1>6, <1>11, <1>12

LEMMA Cons5 ==
  ASSUME NEW S, NEW a \in S, NEW b \in S, NEW c \in S, NEW d \in S, NEW e \in S
  PROVE  <<a, b, c, d, e>> = Cons(a, Cons(b, Cons(c, Cons(d, Cons(e, <<>>)))))
<1>1. <<b, c, d, e>> \in Seq(S) /\ <<a>> \in Seq(S) /\ <<a, b, c, d, e>> \in Seq(S) OBVIOUS
<1>2. Len(<<a, b, c, d, e>>) = 5 /\ <<a, b, c, d, e>>[1] = a /\ <<a, b, c, d, e>>[2] = b /\ <<a, b, c, d, e>>[3] = c /\ <<a, b, c, d, e>>[4] = d /\ <<a, b, c, d, e>>[5] = e
  OBVIOUS
<1>3. Len(<<b, c, d, e>>) = 4 /\ <<b, c, d, e>>[1] = b /\ <<b, c, d, e>>[2] = c /\ <<b, c, d, e>>[3] = d /\ <<b, c, d, e>>[4] = e
  OBVIOUS
<1>4. Len(<<a>>) = 1 /\ <<a>>[1] = a OBVIOUS
<1>5. PICK t \in Seq(S) : t = <<a>> \o <<b, c, d, e>> BY ONLY <1>1, ConcatProperties
<1>6. PICK s \in Seq(S) : s = <<a, b, c, d, e>> BY ONLY <1>1
<1>7. PICK r \in Seq(S) : r = <<b, c, d, e>> BY ONLY <1>1
<1>8. PICK u \in Seq(S) : u = <<a>> BY ONLY <1>1
<1>9. Len(t) = 5 /\ t[1] = a /\ t[2] = b /\ t[3] = c /\ t[4] = d /\ t[5] = e
  BY ONLY <1>5, <1>7, <1>8, <1>3, <1>4, ConcatProperties
<1>10. s = t
  <2>1. Len(s) = 5 /\ s[1] = a /\ s[2] = b /\ s[3] = c /\ s[4] = d /\ s[5] = e BY ONLY <1>6, <1>2
  <2>2. ASSUME NEW i \in 1..Len(s) PROVE s[i] = t[i]
    <3>1. i \in {1, 2, 3, 4, 5} BY ONLY <2>1
    <3> QED BY ONLY <2>1, <1>9, <3>1
  <2> QED BY ONLY <2>1, <2>2, <1>9, SeqEqual
<1>11. t = Cons(a, <<b, c, d, e>>) BY ONLY <1>5 DEF Cons
<1>12. <<b, c, d, e>> = Cons(b, Cons(c, Cons(d, Cons(e, <<>>))))
  BY ONLY Cons4, \A x \in {a, b, c, d, e} : x \in S
<1> QED BY ONLY <1>10, <1>6, <1>11, <1>12

----------------------------------------
(* Plans: what a call has yet to do, by its next step. *)

CopyPlan  == Cons("copyWait", Cons("signal", Cons("copy", <<>>)))
FlushPlan == Cons("waitCurrent", <<>>)
Endings   == {<<>>, CopyPlan, FlushPlan}

AfterCopyWait     == {Cons("signal", Cons("copy", <<>>))}
AfterKernel       == {Cons("write", <<>>), Cons("signal", Cons("write", <<>>))}
AfterBlockingWait == {Cons("kernel", t) : t \in AfterKernel}
AfterAlloc        == {Cons("blockingWait", t) : t \in AfterBlockingWait}
                     \cup {Cons("alloc", Cons("blockingWait", Cons("kernel", Cons("write", <<>>))))}
AfterWrite        == Endings \cup {Cons("nextChunk", t) : t \in AfterAlloc} \cup AfterBlockingWait
AfterSignal       == {Cons("write", y) : y \in Endings} \cup {Cons("copy", <<>>)}
AfterReserve      == {Cons("write", Cons("nextChunk", t)) : t \in AfterAlloc}
                     \cup {Cons("write", t) : t \in AfterBlockingWait}
                     \cup {Cons("signal", Cons("write", y)) : y \in Endings}
AfterBarrier      == {Cons("reserve", Cons("signal", Cons("write", y))) : y \in Endings}
AfterFence        == {CopyPlan, FlushPlan}

Planned(s) ==
  \/ s = <<>>
  \/ \E t \in AfterAlloc : s = Cons("alloc", t)
  \/ \E t \in AfterAlloc : s = Cons("nextChunk", t)
  \/ \E t \in AfterBlockingWait : s = Cons("blockingWait", t)
  \/ \E t \in AfterKernel : s = Cons("kernel", t)
  \/ \E t \in AfterBarrier : s = Cons("barrier", t)
  \/ \E t \in AfterReserve : s = Cons("reserve", t)
  \/ \E t \in AfterSignal : s = Cons("signal", t)
  \/ \E t \in AfterWrite : s = Cons("write", t)
  \/ \E t \in AfterFence : s = Cons("fence", t)
  \/ \E t \in AfterCopyWait : s = Cons("copyWait", t)
  \/ s = Cons("copy", <<>>)
  \/ s = Cons("waitCurrent", <<>>)

LEMMA StepNames ==
  /\ "alloc" \in Steps /\ "nextChunk" \in Steps /\ "blockingWait" \in Steps /\ "kernel" \in Steps
  /\ "barrier" \in Steps /\ "reserve" \in Steps /\ "signal" \in Steps /\ "write" \in Steps
  /\ "fence" \in Steps /\ "copyWait" \in Steps /\ "copy" \in Steps /\ "waitCurrent" \in Steps
BY DEF Steps

StepSeqs == Seq(Steps)

LEMMA ConsSteps ==
  /\ <<>> \in StepSeqs
  /\ \A a \in Steps, t \in StepSeqs :
       /\ Cons(a, t) \in StepSeqs /\ Cons(a, t) # <<>>
       /\ Head(Cons(a, t)) = a /\ Tail(Cons(a, t)) = t
BY ConsParts DEF StepSeqs

LEMMA ConcatSteps ==
  /\ \A a \in Steps, t, u \in StepSeqs : Cons(a, t) \o u = Cons(a, t \o u)
  /\ \A t \in StepSeqs : <<>> \o t = t /\ t \o <<>> = t
BY ConsConcat, ConcatEmptySeq DEF StepSeqs

LEMMA PlansAreSequences ==
  /\ Endings \subseteq StepSeqs /\ AfterCopyWait \subseteq StepSeqs
  /\ AfterKernel \subseteq StepSeqs /\ AfterBlockingWait \subseteq StepSeqs
  /\ AfterAlloc \subseteq StepSeqs /\ AfterWrite \subseteq StepSeqs
  /\ AfterSignal \subseteq StepSeqs /\ AfterReserve \subseteq StepSeqs
  /\ AfterBarrier \subseteq StepSeqs /\ AfterFence \subseteq StepSeqs
<1>1. Endings \subseteq StepSeqs /\ AfterCopyWait \subseteq StepSeqs
  BY StepNames, ConsSteps DEF Endings, AfterCopyWait, CopyPlan, FlushPlan
<1>2. AfterKernel \subseteq StepSeqs BY StepNames, ConsSteps DEF AfterKernel
<1>3. AfterBlockingWait \subseteq StepSeqs BY <1>2, StepNames, ConsSteps DEF AfterBlockingWait
<1>4. AfterAlloc \subseteq StepSeqs BY <1>3, StepNames, ConsSteps DEF AfterAlloc
<1>5. AfterWrite \subseteq StepSeqs BY <1>1, <1>3, <1>4, StepNames, ConsSteps DEF AfterWrite
<1>6. AfterSignal \subseteq StepSeqs BY <1>1, StepNames, ConsSteps DEF AfterSignal
<1>7. AfterReserve \subseteq StepSeqs BY <1>1, <1>3, <1>4, StepNames, ConsSteps DEF AfterReserve
<1>8. AfterBarrier \subseteq StepSeqs BY <1>1, StepNames, ConsSteps DEF AfterBarrier
<1>9. AfterFence \subseteq StepSeqs BY <1>1, StepNames, ConsSteps DEF AfterFence, Endings
<1> QED BY <1>1, <1>2, <1>3, <1>4, <1>5, <1>6, <1>7, <1>8, <1>9

(* The next step of a plan says what may follow it. *)
LEMMA PlanHeads ==
  ASSUME NEW s, Planned(s), s # <<>>
  PROVE  /\ s \in StepSeqs /\ Head(s) \in Steps /\ s = Cons(Head(s), Tail(s))
         /\ Head(s) = "alloc" => Tail(s) \in AfterAlloc
         /\ Head(s) = "nextChunk" => Tail(s) \in AfterAlloc
         /\ Head(s) = "blockingWait" => Tail(s) \in AfterBlockingWait
         /\ Head(s) = "kernel" => Tail(s) \in AfterKernel
         /\ Head(s) = "barrier" => Tail(s) \in AfterBarrier
         /\ Head(s) = "reserve" => Tail(s) \in AfterReserve
         /\ Head(s) = "signal" => Tail(s) \in AfterSignal
         /\ Head(s) = "write" => Tail(s) \in AfterWrite
         /\ Head(s) = "fence" => Tail(s) \in AfterFence
         /\ Head(s) = "copyWait" => Tail(s) \in AfterCopyWait
         /\ Head(s) = "copy" => Tail(s) = <<>>
         /\ Head(s) = "waitCurrent" => Tail(s) = <<>>
<1> DEFINE Parts ==
    /\ s \in StepSeqs /\ Head(s) \in Steps /\ s = Cons(Head(s), Tail(s))
    /\ Head(s) = "alloc" => Tail(s) \in AfterAlloc
    /\ Head(s) = "nextChunk" => Tail(s) \in AfterAlloc
    /\ Head(s) = "blockingWait" => Tail(s) \in AfterBlockingWait
    /\ Head(s) = "kernel" => Tail(s) \in AfterKernel
    /\ Head(s) = "barrier" => Tail(s) \in AfterBarrier
    /\ Head(s) = "reserve" => Tail(s) \in AfterReserve
    /\ Head(s) = "signal" => Tail(s) \in AfterSignal
    /\ Head(s) = "write" => Tail(s) \in AfterWrite
    /\ Head(s) = "fence" => Tail(s) \in AfterFence
    /\ Head(s) = "copyWait" => Tail(s) \in AfterCopyWait
    /\ Head(s) = "copy" => Tail(s) = <<>>
    /\ Head(s) = "waitCurrent" => Tail(s) = <<>>
<1>1. ASSUME NEW t \in AfterAlloc, s = Cons("alloc", t) PROVE Parts
  <2>1. t \in StepSeqs BY PlansAreSequences
  <2>2. Head(s) = "alloc" /\ Tail(s) = t /\ s \in StepSeqs BY ONLY <1>1, <2>1, StepNames, ConsSteps
  <2> QED BY ONLY <2>2, <1>1, StepNames
<1>2. ASSUME NEW t \in AfterAlloc, s = Cons("nextChunk", t) PROVE Parts
  <2>1. t \in StepSeqs BY PlansAreSequences
  <2>2. Head(s) = "nextChunk" /\ Tail(s) = t /\ s \in StepSeqs BY ONLY <1>2, <2>1, StepNames, ConsSteps
  <2> QED BY ONLY <2>2, <1>2, StepNames
<1>3. ASSUME NEW t \in AfterBlockingWait, s = Cons("blockingWait", t) PROVE Parts
  <2>1. t \in StepSeqs BY PlansAreSequences
  <2>2. Head(s) = "blockingWait" /\ Tail(s) = t /\ s \in StepSeqs BY ONLY <1>3, <2>1, StepNames, ConsSteps
  <2> QED BY ONLY <2>2, <1>3, StepNames
<1>4. ASSUME NEW t \in AfterKernel, s = Cons("kernel", t) PROVE Parts
  <2>1. t \in StepSeqs BY PlansAreSequences
  <2>2. Head(s) = "kernel" /\ Tail(s) = t /\ s \in StepSeqs BY ONLY <1>4, <2>1, StepNames, ConsSteps
  <2> QED BY ONLY <2>2, <1>4, StepNames
<1>5. ASSUME NEW t \in AfterBarrier, s = Cons("barrier", t) PROVE Parts
  <2>1. t \in StepSeqs BY PlansAreSequences
  <2>2. Head(s) = "barrier" /\ Tail(s) = t /\ s \in StepSeqs BY ONLY <1>5, <2>1, StepNames, ConsSteps
  <2> QED BY ONLY <2>2, <1>5, StepNames
<1>6. ASSUME NEW t \in AfterReserve, s = Cons("reserve", t) PROVE Parts
  <2>1. t \in StepSeqs BY PlansAreSequences
  <2>2. Head(s) = "reserve" /\ Tail(s) = t /\ s \in StepSeqs BY ONLY <1>6, <2>1, StepNames, ConsSteps
  <2> QED BY ONLY <2>2, <1>6, StepNames
<1>7. ASSUME NEW t \in AfterSignal, s = Cons("signal", t) PROVE Parts
  <2>1. t \in StepSeqs BY PlansAreSequences
  <2>2. Head(s) = "signal" /\ Tail(s) = t /\ s \in StepSeqs BY ONLY <1>7, <2>1, StepNames, ConsSteps
  <2> QED BY ONLY <2>2, <1>7, StepNames
<1>8. ASSUME NEW t \in AfterWrite, s = Cons("write", t) PROVE Parts
  <2>1. t \in StepSeqs BY PlansAreSequences
  <2>2. Head(s) = "write" /\ Tail(s) = t /\ s \in StepSeqs BY ONLY <1>8, <2>1, StepNames, ConsSteps
  <2> QED BY ONLY <2>2, <1>8, StepNames
<1>9. ASSUME NEW t \in AfterFence, s = Cons("fence", t) PROVE Parts
  <2>1. t \in StepSeqs BY PlansAreSequences
  <2>2. Head(s) = "fence" /\ Tail(s) = t /\ s \in StepSeqs BY ONLY <1>9, <2>1, StepNames, ConsSteps
  <2> QED BY ONLY <2>2, <1>9, StepNames
<1>10. ASSUME NEW t \in AfterCopyWait, s = Cons("copyWait", t) PROVE Parts
  <2>1. t \in StepSeqs BY PlansAreSequences
  <2>2. Head(s) = "copyWait" /\ Tail(s) = t /\ s \in StepSeqs BY ONLY <1>10, <2>1, StepNames, ConsSteps
  <2> QED BY ONLY <2>2, <1>10, StepNames
<1>11. ASSUME s = Cons("copy", <<>>) PROVE Parts
  <2>1. Head(s) = "copy" /\ Tail(s) = <<>> /\ s \in StepSeqs BY ONLY <1>11, StepNames, ConsSteps
  <2> QED BY ONLY <2>1, <1>11, StepNames
<1>12. ASSUME s = Cons("waitCurrent", <<>>) PROVE Parts
  <2>1. Head(s) = "waitCurrent" /\ Tail(s) = <<>> /\ s \in StepSeqs BY ONLY <1>12, StepNames, ConsSteps
  <2> QED BY ONLY <2>1, <1>12, StepNames
<1> HIDE DEF Parts
<1>13. Parts BY <1>1, <1>2, <1>3, <1>4, <1>5, <1>6, <1>7, <1>8, <1>9, <1>10, <1>11, <1>12 DEF Planned
<1> QED BY <1>13 DEF Parts

(* What follows a step is a plan, and so is what a step puts before it. *)
LEMMA RestIsPlan ==
  /\ \A t \in AfterAlloc : Planned(t) /\ Planned(Cons("reserve", Cons("write", Cons("nextChunk", t))))
  /\ \A t \in AfterBlockingWait : Planned(t) /\ Planned(Cons("reserve", Cons("write", t)))
  /\ \A t \in AfterKernel : Planned(t)
  /\ \A t \in AfterBarrier : Planned(t)
  /\ \A t \in AfterReserve : Planned(t)
  /\ \A t \in AfterSignal : Planned(t)
  /\ \A t \in AfterWrite : Planned(t)
  /\ \A t \in AfterFence : Planned(t) /\ Planned(Cons("barrier", Cons("reserve", Cons("signal", Cons("write", t)))))
  /\ \A t \in AfterCopyWait : Planned(t)
<1>1. \A t \in Endings : Planned(t) BY DEF Endings, Planned, CopyPlan, FlushPlan, AfterCopyWait
<1>2. \A t \in AfterKernel : Planned(t) BY DEF AfterKernel, Planned, AfterWrite, Endings, AfterSignal
<1>3. \A t \in AfterBlockingWait : Planned(t) BY DEF AfterBlockingWait, Planned
<1>4. \A t \in AfterAlloc : Planned(t) BY DEF AfterAlloc, Planned, AfterBlockingWait, AfterKernel
<1>5. \A t \in AfterAlloc : Planned(Cons("reserve", Cons("write", Cons("nextChunk", t))))
  BY DEF Planned, AfterReserve
<1>6. \A t \in AfterBlockingWait : Planned(Cons("reserve", Cons("write", t))) BY DEF Planned, AfterReserve
<1>7. \A t \in AfterBarrier : Planned(t) BY DEF Planned, AfterBarrier, AfterReserve
<1>8. \A t \in AfterReserve : Planned(t) BY DEF Planned, AfterReserve, AfterWrite, AfterSignal
<1>9. \A t \in AfterSignal : Planned(t) BY DEF Planned, AfterSignal, AfterWrite
<1>10. \A t \in AfterWrite : Planned(t) BY <1>1, <1>3 DEF Planned, AfterWrite
<1>11. \A t \in AfterFence : Planned(t) /\ Planned(Cons("barrier", Cons("reserve", Cons("signal", Cons("write", t)))))
  BY <1>1 DEF AfterFence, Planned, Endings, AfterBarrier
<1>12. \A t \in AfterCopyWait : Planned(t) BY DEF AfterCopyWait, Planned, AfterSignal
<1> QED BY <1>2, <1>3, <1>4, <1>5, <1>6, <1>7, <1>8, <1>9, <1>10, <1>11, <1>12

(* Short plans. *)
LEMMA ShortPlans ==
  /\ \A a, b \in Steps : <<a, b>> = Cons(a, Cons(b, <<>>))
  /\ \A a, b, c \in Steps : <<a, b, c>> = Cons(a, Cons(b, Cons(c, <<>>)))
  /\ \A a, b, c, d \in Steps : <<a, b, c, d>> = Cons(a, Cons(b, Cons(c, Cons(d, <<>>))))
  /\ \A a, b, c, d, e \in Steps : <<a, b, c, d, e>> = Cons(a, Cons(b, Cons(c, Cons(d, Cons(e, <<>>)))))
<1>1. ASSUME NEW a \in Steps, NEW b \in Steps PROVE <<a, b>> = Cons(a, Cons(b, <<>>)) BY Cons2
<1>2. ASSUME NEW a \in Steps, NEW b \in Steps, NEW c \in Steps
      PROVE  <<a, b, c>> = Cons(a, Cons(b, Cons(c, <<>>)))
  BY Cons3
<1>3. ASSUME NEW a \in Steps, NEW b \in Steps, NEW c \in Steps, NEW d \in Steps
      PROVE  <<a, b, c, d>> = Cons(a, Cons(b, Cons(c, Cons(d, <<>>))))
  BY Cons4
<1>4. ASSUME NEW a \in Steps, NEW b \in Steps, NEW c \in Steps, NEW d \in Steps, NEW e \in Steps
      PROVE  <<a, b, c, d, e>> = Cons(a, Cons(b, Cons(c, Cons(d, Cons(e, <<>>)))))
  BY Cons5
<1> QED BY <1>1, <1>2, <1>3, <1>4

LEMMA PutTwo ==
  ASSUME NEW a \in Steps, NEW b \in Steps, NEW t \in StepSeqs
  PROVE  Cons(a, Cons(b, <<>>)) \o t = Cons(a, Cons(b, t))
<1>1. PICK p \in StepSeqs : p = Cons(b, <<>>) BY ConsSteps
<1>2. p \o t = Cons(b, <<>> \o t) BY <1>1, ConcatSteps, ConsSteps
<1>3. Cons(a, p) \o t = Cons(a, p \o t) BY ConcatSteps
<1> QED BY <1>1, <1>2, <1>3, ConcatSteps

LEMMA PutThree ==
  ASSUME NEW a \in Steps, NEW b \in Steps, NEW c \in Steps, NEW t \in StepSeqs
  PROVE  Cons(a, Cons(b, Cons(c, <<>>))) \o t = Cons(a, Cons(b, Cons(c, t)))
<1>0. Cons(c, <<>>) \in StepSeqs BY ConsSteps
<1>1. PICK p \in StepSeqs : p = Cons(b, Cons(c, <<>>)) BY <1>0, ConsSteps
<1>2. p \o t = Cons(b, Cons(c, t)) BY <1>1, PutTwo
<1>3. Cons(a, p) \o t = Cons(a, p \o t) BY ConcatSteps
<1> QED BY <1>1, <1>2, <1>3

DispatchPlan == Cons("alloc", Cons("blockingWait", Cons("kernel", Cons("write", <<>>))))

LEMMA DispatchIsPlan == Dispatch = DispatchPlan /\ DispatchPlan \in StepSeqs
<1>1. Dispatch = DispatchPlan
  <2>1. PICK a, b, c, d \in Steps : a = "alloc" /\ b = "blockingWait" /\ c = "kernel" /\ d = "write"
    BY ONLY StepNames
  <2>2. <<a, b, c, d>> = Cons(a, Cons(b, Cons(c, Cons(d, <<>>))))
    BY ONLY Cons4, a \in Steps, b \in Steps, c \in Steps, d \in Steps
  <2> QED BY ONLY <2>1, <2>2 DEF Dispatch, DispatchPlan
<1>2. Cons("kernel", Cons("write", <<>>)) \in StepSeqs BY StepNames, ConsSteps
<1>3. Cons("blockingWait", Cons("kernel", Cons("write", <<>>))) \in StepSeqs BY <1>2, StepNames, ConsSteps
<1> QED BY <1>1, <1>3, StepNames, ConsSteps DEF DispatchPlan

(* The steps the code puts before the rest of a call. *)
LEMMA PutBefore ==
  ASSUME NEW t \in StepSeqs
  PROVE  /\ <<>> \o t = t
         /\ <<"reserve", "write">> \o t = Cons("reserve", Cons("write", t))
         /\ <<"reserve", "write", "nextChunk">> \o t = Cons("reserve", Cons("write", Cons("nextChunk", t)))
         /\ <<"barrier", "reserve", "signal", "write">> \o t
              = Cons("barrier", Cons("reserve", Cons("signal", Cons("write", t))))
         /\ Dispatch \o <<>> = DispatchPlan
<1>1. <<>> \o t = t BY ConcatSteps
<1>2. <<"reserve", "write">> \o t = Cons("reserve", Cons("write", t))
  <2>1. PICK p : p = <<"reserve", "write">> OBVIOUS
  <2>2. p = Cons("reserve", Cons("write", <<>>)) BY ONLY <2>1, ShortPlans, StepNames
  <2>3. p \o t = Cons("reserve", Cons("write", t)) BY <2>2, PutTwo, StepNames, ZenonT(60)
  <2> QED BY ONLY <2>1, <2>3, Zenon
<1>3. <<"reserve", "write", "nextChunk">> \o t = Cons("reserve", Cons("write", Cons("nextChunk", t)))
  <2>1. PICK p : p = <<"reserve", "write", "nextChunk">> OBVIOUS
  <2>2. p = Cons("reserve", Cons("write", Cons("nextChunk", <<>>))) BY ONLY <2>1, ShortPlans, StepNames
  <2>3. p \o t = Cons("reserve", Cons("write", Cons("nextChunk", t)))
    <3>1. PICK a, b, c \in Steps : a = "reserve" /\ b = "write" /\ c = "nextChunk" BY ONLY StepNames
    <3>2. Cons(a, Cons(b, Cons(c, <<>>))) \o t = Cons(a, Cons(b, Cons(c, t)))
      BY ONLY PutThree, a \in Steps, b \in Steps, c \in Steps, t \in StepSeqs
    <3> QED BY ONLY <2>2, <3>1, <3>2
  <2> QED BY ONLY <2>1, <2>3, Zenon
<1>4. <<"barrier", "reserve", "signal", "write">> \o t
        = Cons("barrier", Cons("reserve", Cons("signal", Cons("write", t))))
  <2>1. PICK p : p = <<"barrier", "reserve", "signal", "write">> OBVIOUS
  <2>2. p = Cons("barrier", Cons("reserve", Cons("signal", Cons("write", <<>>))))
    <3>1. PICK a, b, c, d \in Steps : a = "barrier" /\ b = "reserve" /\ c = "signal" /\ d = "write"
      BY ONLY StepNames
    <3>2. <<a, b, c, d>> = Cons(a, Cons(b, Cons(c, Cons(d, <<>>))))
      BY ONLY Cons4, a \in Steps, b \in Steps, c \in Steps, d \in Steps
    <3> QED BY ONLY <2>1, <3>1, <3>2
  <2>3. p \o t = Cons("barrier", Cons("reserve", Cons("signal", Cons("write", t))))
    <3>1. PICK a, b, c, d \in Steps : a = "barrier" /\ b = "reserve" /\ c = "signal" /\ d = "write"
      BY ONLY StepNames
    <3>2. Cons(d, <<>>) \in StepSeqs BY ONLY ConsSteps, d \in Steps
    <3>3. Cons(c, Cons(d, <<>>)) \in StepSeqs BY ONLY <3>2, ConsSteps, c \in Steps
    <3>4. PICK r \in StepSeqs : r = Cons(b, Cons(c, Cons(d, <<>>))) BY ONLY <3>3, ConsSteps, b \in Steps
    <3>5. r \o t = Cons(b, Cons(c, Cons(d, t)))
      <4>1. Cons(b, Cons(c, Cons(d, <<>>))) \o t = Cons(b, Cons(c, Cons(d, t)))
        BY ONLY PutThree, b \in Steps, c \in Steps, d \in Steps, t \in StepSeqs, ZenonT(60)
      <4> QED BY ONLY <4>1, <3>4, Zenon
    <3>6. Cons(a, r) \o t = Cons(a, r \o t)
      BY ONLY ConcatSteps, a \in Steps, r \in StepSeqs, t \in StepSeqs
    <3> QED BY ONLY <2>2, <3>1, <3>4, <3>5, <3>6
  <2> QED BY ONLY <2>1, <2>3, Zenon
<1>5. Dispatch \o <<>> = DispatchPlan BY DispatchIsPlan, ConcatSteps
<1> QED BY ONLY <1>1, <1>2, <1>3, <1>4, <1>5

(* What each operation calls for. *)
LEMMA CallIsPlan ==
  ASSUME NEW op \in Operations, VirtualGPUAssumption
  PROVE  /\ Call[op] \in StepSeqs /\ Call[op] # <<>> /\ Planned(Call[op])
         /\ Head(Call[op]) \in {"alloc", "barrier", "fence"}
         /\ op \in {"kernel", "timed", "fill"} => Head(Call[op]) = "alloc"
         /\ op \in {"marker", "nop"} =>
              Call[op] = Cons("barrier", Cons("reserve", Cons("signal", Cons("write", <<>>))))
         /\ op = "copy" => Call[op] = Cons("fence", CopyPlan)
         /\ op = "flush" => Call[op] = Cons("fence", FlushPlan)
<1>0. op \in {"kernel", "timed", "fill", "marker", "nop", "copy", "flush"} BY DEF VirtualGPUAssumption
<1>1. Dispatch = Cons("alloc", Cons("blockingWait", Cons("kernel", Cons("write", <<>>))))
  BY DispatchIsPlan DEF DispatchPlan
<1>2. <<"alloc", "blockingWait", "kernel", "signal", "write">> = Cons("alloc", Cons("blockingWait", Cons("kernel", Cons("signal", Cons("write", <<>>)))))
  <2>1. PICK a, b, c, d, e \in Steps : a = "alloc" /\ b = "blockingWait" /\ c = "kernel" /\ d = "signal" /\ e = "write"
    BY ONLY StepNames
  <2>2. <<a, b, c, d, e>> = Cons(a, Cons(b, Cons(c, Cons(d, Cons(e, <<>>)))))
    BY ONLY Cons5, a \in Steps, b \in Steps, c \in Steps, d \in Steps, e \in Steps
  <2> QED BY ONLY <2>1, <2>2
<1>3. <<"alloc">> \o Dispatch = Cons("alloc", Cons("alloc", Cons("blockingWait", Cons("kernel", Cons("write", <<>>)))))
  BY ONLY <1>1 DEF Cons
<1>4. <<"barrier", "reserve", "signal", "write">> = Cons("barrier", Cons("reserve", Cons("signal", Cons("write", <<>>))))
  <2>1. PICK a, b, c, d \in Steps : a = "barrier" /\ b = "reserve" /\ c = "signal" /\ d = "write"
    BY ONLY StepNames
  <2>2. <<a, b, c, d>> = Cons(a, Cons(b, Cons(c, Cons(d, <<>>))))
    BY ONLY Cons4, a \in Steps, b \in Steps, c \in Steps, d \in Steps
  <2> QED BY ONLY <2>1, <2>2
<1>5. <<"fence", "copyWait", "signal", "copy">> = Cons("fence", CopyPlan)
  <2>1. PICK a, b, c, d \in Steps : a = "fence" /\ b = "copyWait" /\ c = "signal" /\ d = "copy"
    BY ONLY StepNames
  <2>2. <<a, b, c, d>> = Cons(a, Cons(b, Cons(c, Cons(d, <<>>))))
    BY ONLY Cons4, a \in Steps, b \in Steps, c \in Steps, d \in Steps
  <2> QED BY ONLY <2>1, <2>2 DEF CopyPlan
<1>6. <<"fence", "waitCurrent">> = Cons("fence", FlushPlan) BY ONLY ShortPlans, StepNames DEF FlushPlan
<1>7. CASE op = "kernel"
  <2>1. PICK t \in AfterAlloc : t = Cons("blockingWait", Cons("kernel", Cons("write", <<>>)))
    BY DEF AfterAlloc, AfterBlockingWait, AfterKernel
  <2>2. Call[op] = Cons("alloc", t) BY ONLY <1>1, <2>1, <1>7 DEF Call
  <2>3. t \in StepSeqs BY PlansAreSequences
  <2>4. Call[op] \in StepSeqs /\ Call[op] # <<>> /\ Head(Call[op]) = "alloc"
    BY ONLY <2>2, <2>3, ConsSteps, StepNames
  <2>5. Planned(Call[op]) BY ONLY <2>2, t \in AfterAlloc DEF Planned
  <2> QED BY ONLY <1>7, <2>1, <2>2, <2>4, <2>5
<1>8. CASE op = "timed"
  <2>1. PICK t \in AfterAlloc : t = Cons("blockingWait", Cons("kernel", Cons("signal", Cons("write", <<>>))))
    BY DEF AfterAlloc, AfterBlockingWait, AfterKernel
  <2>2. Call[op] = Cons("alloc", t) BY ONLY <1>2, <2>1, <1>8 DEF Call
  <2>3. t \in StepSeqs BY PlansAreSequences
  <2>4. Call[op] \in StepSeqs /\ Call[op] # <<>> /\ Head(Call[op]) = "alloc"
    BY ONLY <2>2, <2>3, ConsSteps, StepNames
  <2>5. Planned(Call[op]) BY ONLY <2>2, t \in AfterAlloc DEF Planned
  <2> QED BY ONLY <1>8, <2>1, <2>2, <2>4, <2>5
<1>9. CASE op = "fill"
  <2>1. PICK t \in AfterAlloc : t = Cons("alloc", Cons("blockingWait", Cons("kernel", Cons("write", <<>>))))
    BY DEF AfterAlloc
  <2>2. Call[op] = Cons("alloc", t) BY ONLY <1>3, <2>1, <1>9 DEF Call
  <2>3. t \in StepSeqs BY PlansAreSequences
  <2>4. Call[op] \in StepSeqs /\ Call[op] # <<>> /\ Head(Call[op]) = "alloc"
    BY ONLY <2>2, <2>3, ConsSteps, StepNames
  <2>5. Planned(Call[op]) BY ONLY <2>2, t \in AfterAlloc DEF Planned
  <2> QED BY ONLY <1>9, <2>1, <2>2, <2>4, <2>5
<1>10. CASE op = "marker"
  <2>1. PICK t \in AfterBarrier : t = Cons("reserve", Cons("signal", Cons("write", <<>>)))
    BY DEF AfterBarrier, Endings
  <2>2. Call[op] = Cons("barrier", t) BY ONLY <1>4, <2>1, <1>10 DEF Call
  <2>3. t \in StepSeqs BY PlansAreSequences
  <2>4. Call[op] \in StepSeqs /\ Call[op] # <<>> /\ Head(Call[op]) = "barrier"
    BY ONLY <2>2, <2>3, ConsSteps, StepNames
  <2>5. Planned(Call[op]) BY ONLY <2>2, t \in AfterBarrier DEF Planned
  <2> QED BY ONLY <1>10, <2>1, <2>2, <2>4, <2>5
<1>11. CASE op = "nop"
  <2>1. PICK t \in AfterBarrier : t = Cons("reserve", Cons("signal", Cons("write", <<>>)))
    BY DEF AfterBarrier, Endings
  <2>2. Call[op] = Cons("barrier", t) BY ONLY <1>4, <2>1, <1>11 DEF Call
  <2>3. t \in StepSeqs BY PlansAreSequences
  <2>4. Call[op] \in StepSeqs /\ Call[op] # <<>> /\ Head(Call[op]) = "barrier"
    BY ONLY <2>2, <2>3, ConsSteps, StepNames
  <2>5. Planned(Call[op]) BY ONLY <2>2, t \in AfterBarrier DEF Planned
  <2> QED BY ONLY <1>11, <2>1, <2>2, <2>4, <2>5
<1>12. CASE op = "copy"
  <2>1. PICK t \in AfterFence : t = CopyPlan BY DEF AfterFence
  <2>2. Call[op] = Cons("fence", t) BY ONLY <1>5, <2>1, <1>12 DEF Call
  <2>3. t \in StepSeqs BY PlansAreSequences
  <2>4. Call[op] \in StepSeqs /\ Call[op] # <<>> /\ Head(Call[op]) = "fence"
    BY ONLY <2>2, <2>3, ConsSteps, StepNames
  <2>5. Planned(Call[op]) BY ONLY <2>2, t \in AfterFence DEF Planned
  <2> QED BY ONLY <1>12, <2>1, <2>2, <2>4, <2>5
<1>13. CASE op = "flush"
  <2>1. PICK t \in AfterFence : t = FlushPlan BY DEF AfterFence
  <2>2. Call[op] = Cons("fence", t) BY ONLY <1>6, <2>1, <1>13 DEF Call
  <2>3. t \in StepSeqs BY PlansAreSequences
  <2>4. Call[op] \in StepSeqs /\ Call[op] # <<>> /\ Head(Call[op]) = "fence"
    BY ONLY <2>2, <2>3, ConsSteps, StepNames
  <2>5. Planned(Call[op]) BY ONLY <2>2, t \in AfterFence DEF Planned
  <2> QED BY ONLY <1>13, <2>1, <2>2, <2>4, <2>5
<1> QED BY ONLY <1>0, <1>7, <1>8, <1>9, <1>10, <1>11, <1>12, <1>13

----------------------------------------
(* Types *)

VirtualAssumptions == VirtualGPUAssumption /\ NoneAssumption

MyRecord   == [cmd : Commands \cup {None}, packet : Packet, index : Nat]
RingRecord == [write : Nat, read : Nat, running : Packet \cup {None},
               slot : [0..RingSize - 1 -> Packet \cup {None}]]

(* A list is as long as it may be, and the current place is one of it. *)
ListTypes == \A v \in VGPUs : /\ Len(vgpu[v].list) \in ListSize..setup.listed
                              /\ vgpu[v].current \in 1..Len(vgpu[v].list)

Types ==
  /\ setup \in Setups
  /\ created \in 0..setup.commands
  /\ command \in [Commands -> CommandObject]
  /\ vgpu \in [VGPUs -> VirtualDevice] /\ ListTypes
  /\ memory \in [VGPUs -> [Places -> Commands \cup {None}]]
  /\ signal \in [Signals -> [value : {0, 1}, uses : Nat]]
  /\ ring \in [HwQueues -> RingRecord]
  /\ dma \subseteq Copy
  /\ done \subseteq Commands
  /\ todo \in [VGPUs -> StepSeqs]
  /\ my \in [VGPUs -> MyRecord]

Plans == \A v \in VGPUs : Planned(todo[v])

(* A call is one for a command of its queue, and a copy has its signal. *)
InCall == \A v \in VGPUs : todo[v] # <<>> =>
            /\ my[v].cmd \in 1..created /\ command[my[v].cmd].queue = v
            /\ Do(v, "copy") => my[v].packet.signal \in Ticket

Basic == Types /\ Plans /\ InCall

(* What the assumptions say of the setup of a behavior. *)
LEMMA SetupFacts ==
  ASSUME VirtualAssumptions, setup \in Setups
  PROVE  /\ setup.used \subseteq VGPUs /\ setup.hwQueue \in [VGPUs -> HwQueues]
         /\ setup.commands \in 0..MaxCommands /\ setup.listed \in Nat /\ setup.listed >= ListSize
         /\ MaxSignals >= setup.listed * Cardinality(VGPUs) + MaxCommands
         /\ RingSize \in Nat \ {0, 1} /\ ListSize \in Nat \ {0, 1, 2} /\ NumChunks \in Nat \ {0, 1}
         /\ ChunkSize \in Nat \ {0} /\ MaxCommands \in Nat /\ MaxSignals \in Nat
BY DEF VirtualAssumptions, VirtualGPUAssumption

LEMMA Kinds ==
  ASSUME VirtualAssumptions
  PROVE  /\ None \notin VGPUs /\ None \notin Commands /\ None \notin Signals /\ None \notin Packet
         /\ Pool \subseteq Signals /\ ChunkSignals \subseteq Signals /\ Pool \cap ChunkSignals = {}
         /\ \A v \in VGPUs, k \in Chunks : <<v, k>> \in ChunkSignals
<1>1. /\ None \notin VGPUs /\ None \notin Commands /\ None \notin Signals /\ None \notin Packet
  BY DEF VirtualAssumptions, NoneAssumption
<1>2. Pool \cap ChunkSignals = {} BY DEF VirtualAssumptions, VirtualGPUAssumption, Pool, ChunkSignals
<1> QED BY <1>1, <1>2 DEF Signals, ChunkSignals

(* One update of one virtual device, of what a call keeps, of a ring. *)
LEMMA UpdateMy ==
  ASSUME NEW m \in MyRecord
  PROVE  /\ \A c \in Commands : [m EXCEPT !.cmd = c] \in MyRecord
         /\ \A p \in Packet : [m EXCEPT !.packet = p] \in MyRecord
         /\ \A p \in Packet, i \in Nat : [m EXCEPT !.packet = p, !.index = i] \in MyRecord
BY DEF MyRecord

LEMMA UpdateDevice ==
  ASSUME NEW u \in VirtualDevice
  PROVE  /\ \A x \in SUBSET Pool : [u EXCEPT !.external = x] \in VirtualDevice
         /\ \A e \in {"Unknown", "Compute", "Sdma"} :
              [u EXCEPT !.engine = e, !.external = {}] \in VirtualDevice
         /\ \A b \in BOOLEAN : [u EXCEPT !.pending = b] \in VirtualDevice
         /\ \A n \in 0..ChunkSize : [u EXCEPT !.used = n] \in VirtualDevice
         /\ \A k \in Chunks, n \in 0..ChunkSize : [u EXCEPT !.chunk = k, !.used = n] \in VirtualDevice
         /\ \A l \in Seq(Pool), i \in Nat : [u EXCEPT !.list = l, !.current = i] \in VirtualDevice
         /\ \A i \in Nat : [u EXCEPT !.current = i] \in VirtualDevice
BY DEF VirtualDevice

LEMMA UpdatePacket ==
  /\ Nothing \in Packet
  /\ \A t \in Ticket : [Nothing EXCEPT !.signal = t] \in Packet
  /\ \A D \in SUBSET Ticket : [Nothing EXCEPT !.deps = D] \in Packet
  /\ \A D \in SUBSET Ticket, c \in Commands \cup {None} : [Nothing EXCEPT !.deps = D, !.cmd = c] \in Packet
  /\ \A c \in Commands \cup {None} : [Nothing EXCEPT !.kind = "kernel", !.cmd = c] \in Packet
  /\ \A p \in Packet, t \in Ticket : [p EXCEPT !.signal = t] \in Packet
BY DEF Packet, Nothing

LEMMA UpdateCommand ==
  ASSUME NEW c \in CommandObject
  PROVE  /\ \A v \in VGPUs, op \in Operations, W \in SUBSET Commands :
              [c EXCEPT !.queue = v, !.op = op, !.waits = W] \in CommandObject
         /\ \A s \in Pool \cup {None} : [c EXCEPT !.hwEvent = s] \in CommandObject
         /\ \A p \in Places : [c EXCEPT !.args = @ \cup {p}] \in CommandObject
BY DEF CommandObject

LEMMA Tickets ==
  ASSUME Types, NEW s \in Signals
  PROVE  /\ Now(s) \in Ticket /\ Armed(s) \in Ticket
         /\ [signal EXCEPT ![s] = [value |-> 1, uses |-> @.uses + 1]] \in [Signals -> [value : {0, 1}, uses : Nat]]
         /\ [signal EXCEPT ![s].value = 0] \in [Signals -> [value : {0, 1}, uses : Nat]]
BY DEF Types, Now, Armed, Ticket

----------------------------------------
(* New signals *)

(* A set of numbers has a least one. *)
LEMMA Least ==
  ASSUME NEW S \in SUBSET Nat, S # {}
  PROVE  \E x \in S : \A y \in S : x <= y
<1> DEFINE Lt == {ss \in Nat \X Nat : ss[1] < ss[2]}
<1>1. IsWellFoundedOn(Lt, Nat) BY NatLessThanWellFounded DEF OpToRel
<1>2. \A x, y \in Nat : ~(<<y, x>> \in Lt) => x <= y OBVIOUS
<1> HIDE DEF Lt
<1>3. S \subseteq Nat OBVIOUS
<1>4. \E x \in S : \A y \in S : ~(<<y, x>> \in Lt) BY <1>1, <1>3, WFMin
<1>5. PICK x \in S : \A y \in S : ~(<<y, x>> \in Lt) BY <1>4
<1> QED BY <1>2, <1>3, <1>5

(* The places where a reference to a signal can be. *)
RefPlaces == ({"list"} \X (VGPUs \X (1..setup.listed))) \cup ({"event"} \X Commands)
RefAt(s, x) ==
  \/ \E v \in VGPUs, i \in 1..setup.listed :
       x = <<"list", <<v, i>>>> /\ i \in 1..Len(vgpu[v].list) /\ vgpu[v].list[i] = s
  \/ \E c \in Commands : x = <<"event", c>> /\ command[c].hwEvent = s

LEMMA OneRefAPlace ==
  ASSUME NEW s, NEW t, NEW x, RefAt(s, x), RefAt(t, x)
  PROVE  s = t
BY DEF RefAt

LEMMA RefPlacesBound ==
  ASSUME VirtualAssumptions, Types
  PROVE  IsFiniteSet(RefPlaces) /\ Cardinality(RefPlaces) <= MaxSignals
<1> USE SetupFacts DEF Types
<1>1. IsFiniteSet(VGPUs) /\ Cardinality(VGPUs) \in Nat
  BY FS_CardinalityType DEF VirtualAssumptions, VirtualGPUAssumption
<1>2. PICK n \in Nat : n = setup.listed BY SetupFacts
<1>3. IsFiniteSet(1..n) /\ Cardinality(1..n) = n
  <2>1. 1 \in Int /\ n \in Int /\ n \in Nat BY <1>2
  <2> QED BY ONLY <2>1, FS_Interval
<1>4. IsFiniteSet(VGPUs \X (1..n)) /\ Cardinality(VGPUs \X (1..n)) = Cardinality(VGPUs) * n
  BY ONLY <1>1, <1>3, FS_Product
<1>5. IsFiniteSet({"list"}) /\ Cardinality({"list"}) = 1 /\ IsFiniteSet({"event"}) /\ Cardinality({"event"}) = 1
  BY FS_Singleton
<1>6. PICK a \in Nat : a = Cardinality(VGPUs) * n BY <1>1, <1>2
<1>7. /\ IsFiniteSet({"list"} \X (VGPUs \X (1..n)))
      /\ Cardinality({"list"} \X (VGPUs \X (1..n))) = a
  <2>1. /\ IsFiniteSet({"list"} \X (VGPUs \X (1..n)))
        /\ Cardinality({"list"} \X (VGPUs \X (1..n))) = Cardinality({"list"}) * Cardinality(VGPUs \X (1..n))
    BY ONLY <1>4, <1>5, FS_Product
  <2> QED BY ONLY <2>1, <1>4, <1>5, <1>6
<1>8. PICK m \in Nat : m = MaxCommands BY SetupFacts
<1>9. IsFiniteSet(Commands) /\ Cardinality(Commands) = m BY ONLY <1>8, FS_Interval DEF Commands
<1>10. IsFiniteSet({"event"} \X Commands) /\ Cardinality({"event"} \X Commands) = m
  <2>1. /\ IsFiniteSet({"event"} \X Commands)
        /\ Cardinality({"event"} \X Commands) = Cardinality({"event"}) * Cardinality(Commands)
    BY ONLY <1>9, <1>5, FS_Product
  <2> QED BY ONLY <2>1, <1>8, <1>9, <1>5
<1> DEFINE A == {"list"} \X (VGPUs \X (1..n))
           B == {"event"} \X Commands
<1>11. RefPlaces = A \cup B BY <1>2 DEF RefPlaces
<1> HIDE DEF A, B
<1>12. IsFiniteSet(A) /\ Cardinality(A) = a /\ IsFiniteSet(B) /\ Cardinality(B) = m
  BY <1>7, <1>10 DEF A, B
<1>13. /\ IsFiniteSet(A \cup B) /\ IsFiniteSet(A \cap B)
       /\ Cardinality(A \cup B) = Cardinality(A) + Cardinality(B) - Cardinality(A \cap B)
  BY ONLY <1>12, FS_Union, FS_Intersection
<1>14. Cardinality(A \cap B) \in Nat BY ONLY <1>13, FS_CardinalityType
<1>15. Cardinality(A \cup B) <= a + m BY ONLY <1>12, <1>13, <1>14, a \in Nat, m \in Nat
<1>16. MaxSignals >= n * Cardinality(VGPUs) + m BY <1>2, <1>8, SetupFacts
<1>17. n * Cardinality(VGPUs) = a BY ONLY <1>6, <1>1, n \in Nat
<1>18. MaxSignals \in Nat /\ Cardinality(A \cup B) \in Nat BY <1>13, FS_CardinalityType, SetupFacts
<1> QED BY ONLY <1>11, <1>13, <1>15, <1>16, <1>17, <1>18, a \in Nat, m \in Nat

LEMMA PoolSize == ASSUME VirtualAssumptions, Types
                  PROVE  IsFiniteSet(Pool) /\ Cardinality(Pool) = MaxSignals
<1>1. PICK m \in Nat : m = MaxSignals BY SetupFacts DEF Types
<1>2. IsFiniteSet(1..m) /\ Cardinality(1..m) = m /\ IsFiniteSet({"pool"}) /\ Cardinality({"pool"}) = 1
  <2>1. 1 \in Int /\ m \in Int /\ m \in Nat BY <1>1
  <2>2. IsFiniteSet(1..m) /\ Cardinality(1..m) = m BY ONLY <2>1, FS_Interval
  <2> QED BY ONLY <2>2, FS_Singleton
<1>3. /\ IsFiniteSet({"pool"} \X (1..m))
      /\ Cardinality({"pool"} \X (1..m)) = Cardinality({"pool"}) * Cardinality(1..m)
  BY ONLY <1>2, FS_Product
<1> QED BY ONLY <1>1, <1>2, <1>3 DEF Pool

(* When a place is not needed, a new signal can be created. *)
LEMMA NewSignalIsNew ==
  ASSUME VirtualAssumptions, Types, NEW p \in RefPlaces,
         \A s \in Pool : Exists(s) => \E x \in RefPlaces \ {p} : RefAt(s, x)
  PROVE  NewSignal \in Pool /\ ~Exists(NewSignal)
<1>1. \E s \in Pool : ~Exists(s)
  <2> SUFFICES ASSUME \A s \in Pool : Exists(s) PROVE FALSE OBVIOUS
  <2> DEFINE T == RefPlaces \ {p}
             f == [s \in Pool |-> CHOOSE x \in T : RefAt(s, x)]
  <2>1. f \in [Pool -> T] /\ \A s \in Pool : RefAt(s, f[s]) OBVIOUS
  <2>2. IsFiniteSet(T) /\ Cardinality(T) = Cardinality(RefPlaces) - 1 /\ Cardinality(RefPlaces) \in Nat
    BY FS_RemoveElement, FS_CardinalityType, RefPlacesBound
  <2> HIDE DEF T, f
  <2>3. IsFiniteSet(Pool) /\ Cardinality(T) < Cardinality(Pool)
    <3>1. MaxSignals \in Nat BY SetupFacts DEF Types
    <3> QED BY ONLY <2>2, <3>1, PoolSize, RefPlacesBound, VirtualAssumptions, Types
  <2>4. PICK s, t \in Pool : s # t /\ f[s] = f[t] BY ONLY <2>1, <2>2, <2>3, FS_PigeonHole
  <2>5. RefAt(s, f[s]) /\ RefAt(t, f[s]) BY <2>1, <2>4
  <2> QED BY <2>4, <2>5, OneRefAPlace
<1>2. PICK s0 \in Pool : ~Exists(s0) BY <1>1
<1> DEFINE N == {n \in 1..MaxSignals : ~Exists(<<"pool", n>>)}
<1>3. MaxSignals \in Nat BY SetupFacts DEF Types
<1>4. N \in SUBSET Nat BY <1>3
<1>5. PICK n0 \in 1..MaxSignals : s0 = <<"pool", n0>> BY DEF Pool
<1>6. n0 \in N BY <1>2, <1>5
<1>7. PICK n \in N : \A k \in N : n <= k
  <2> HIDE DEF N
  <2> QED BY <1>4, <1>6, Least
<1>8. <<"pool", n>> \in Pool /\ ~Exists(<<"pool", n>>) BY <1>7 DEF Pool
<1>9. \A t \in Pool : t[2] < n => Exists(t)
  <2> SUFFICES ASSUME NEW t \in Pool, t[2] < n, ~Exists(t) PROVE FALSE OBVIOUS
  <2>1. PICK k \in 1..MaxSignals : t = <<"pool", k>> BY DEF Pool
  <2>2. k \in N /\ k < n /\ n \in Nat BY <2>1, <1>3, <1>7
  <2> QED BY <2>2, <1>7, <1>3
<1>10. \E s \in Pool : ~Exists(s) /\ \A t \in Pool : t[2] < s[2] => Exists(t)
  <2> PICK z : z = <<"pool", n>> OBVIOUS
  <2> QED BY <1>8, <1>9
<1> QED BY <1>10 DEF NewSignal

(* Where the references to an existing signal are. *)
LEMMA ExistsAt ==
  ASSUME VirtualAssumptions, Types, NEW s \in Pool
  PROVE  /\ \A v \in VGPUs : s \in Range(vgpu[v].list) =>
              \E i \in 1..Len(vgpu[v].list) : /\ vgpu[v].list[i] = s
                                              /\ <<"list", <<v, i>>>> \in RefPlaces
                                              /\ RefAt(s, <<"list", <<v, i>>>>)
         /\ \A c \in Commands : command[c].hwEvent = s =>
              <<"event", c>> \in RefPlaces /\ RefAt(s, <<"event", c>>)
<1>1. ASSUME NEW v \in VGPUs, s \in Range(vgpu[v].list)
      PROVE  \E i \in 1..Len(vgpu[v].list) : /\ vgpu[v].list[i] = s
                                              /\ <<"list", <<v, i>>>> \in RefPlaces
                                              /\ RefAt(s, <<"list", <<v, i>>>>)
  <2>1. vgpu[v].list \in Seq(Pool) /\ Len(vgpu[v].list) \in ListSize..setup.listed /\ setup.listed \in Nat
        /\ ListSize \in Nat
    BY SetupFacts DEF Types, VirtualDevice, ListTypes
  <2>2. DOMAIN vgpu[v].list = 1..Len(vgpu[v].list) BY <2>1
  <2>3. PICK i \in 1..Len(vgpu[v].list) : vgpu[v].list[i] = s BY <1>1, <2>2 DEF Range
  <2>4. i \in 1..setup.listed BY <2>1
  <2> QED BY <2>3, <2>4 DEF RefAt, RefPlaces
<1> QED BY <1>1 DEF RefAt, RefPlaces

----------------------------------------
(* What the steps of a call do to its plan. *)

LEMMA TailIsSteps ==
  ASSUME Plans, NEW v \in VGPUs, todo[v] # <<>>
  PROVE  Tail(todo[v]) \in StepSeqs /\ Planned(Tail(todo[v]))
<1>1. PICK s : s = todo[v] OBVIOUS
<1>2. Planned(s) /\ s # <<>> BY <1>1 DEF Plans
<1>3. PICK t : t = Tail(s) OBVIOUS
<1>4. \/ t \in AfterAlloc \/ t \in AfterBlockingWait \/ t \in AfterKernel \/ t \in AfterBarrier
      \/ t \in AfterReserve \/ t \in AfterSignal \/ t \in AfterWrite \/ t \in AfterFence
      \/ t \in AfterCopyWait \/ t = <<>>
  BY <1>2, <1>3, PlanHeads DEF Steps
<1>5. t \in StepSeqs BY ONLY <1>4, PlansAreSequences, ConsSteps
<1>6. Planned(<<>>) BY DEF Planned
<1>7. Planned(t) BY ONLY <1>4, <1>6, RestIsPlan
<1> QED BY <1>1, <1>3, <1>5, <1>7

LEMMA GoOn ==
  ASSUME Plans, NEW v \in VGPUs, todo[v] # <<>>, Then(v, <<>>)
  PROVE  todo' = [todo EXCEPT ![v] = Tail(todo[v])]
<1>1. <<>> \o Tail(todo[v]) = Tail(todo[v]) BY TailIsSteps, ConcatSteps
<1> QED BY <1>1 DEF Then

(* Steps that only go on. *)
Plain(v) == \/ NextChunk(v) \/ Barrier(v) \/ CopyWait(v) \/ GrowList(v) \/ ReuseSignal(v)
            \/ Reserve(v) \/ Kernel(v) \/ Write(v) \/ WaitCurrent(v) \/ StartCopy(v)

LEMMA PlainGoesOn ==
  ASSUME Plans, NEW v \in VGPUs, Plain(v)
  PROVE  todo[v] # <<>> /\ todo' = [todo EXCEPT ![v] = Tail(todo[v])]
<1>1. todo[v] # <<>> /\ Then(v, <<>>)
  BY DEF Plain, NextChunk, Barrier, CopyWait, GrowList, ReuseSignal, Attach, Reserve, Kernel, Reserved,
         Write, WaitCurrent, StartCopy, Do
<1> QED BY <1>1, GoOn

LEMMA OthersGoOn ==
  ASSUME Plans, NEW v \in VGPUs, NEW t, t = Tail(todo[v])
  PROVE  /\ Alloc(v) => /\ todo[v] # <<>> /\ t \in AfterAlloc
                        /\ todo' = [todo EXCEPT ![v] = IF vgpu[v].used < ChunkSize THEN t
                                      ELSE Cons("reserve", Cons("write", Cons("nextChunk", t)))]
         /\ BlockingWait(v) => /\ todo[v] # <<>> /\ t \in AfterBlockingWait
                               /\ todo' = [todo EXCEPT ![v] = IF Waiting(v, "Compute") = {} THEN t
                                             ELSE Cons("reserve", Cons("write", t))]
         /\ Fence(v) => /\ todo[v] # <<>> /\ t \in AfterFence
                        /\ todo' = [todo EXCEPT ![v] = IF vgpu[v].pending \/ vgpu[v].external # {}
                                      THEN Cons("barrier", Cons("reserve", Cons("signal", Cons("write", t))))
                                      ELSE t]
         /\ CopyFails(v) => /\ todo[v] # <<>> /\ t = <<>>
                            /\ todo' = [todo EXCEPT ![v] = DispatchPlan]
<1>0. Planned(todo[v]) BY DEF Plans
<1>1. ASSUME todo[v] # <<>>
      PROVE  /\ t \in StepSeqs /\ <<>> \o t = t
             /\ <<"reserve", "write">> \o t = Cons("reserve", Cons("write", t))
             /\ <<"reserve", "write", "nextChunk">> \o t = Cons("reserve", Cons("write", Cons("nextChunk", t)))
             /\ <<"barrier", "reserve", "signal", "write">> \o t
                  = Cons("barrier", Cons("reserve", Cons("signal", Cons("write", t))))
  BY <1>1, TailIsSteps, PutBefore
<1>2. ASSUME Alloc(v)
      PROVE  /\ todo[v] # <<>> /\ t \in AfterAlloc
             /\ todo' = [todo EXCEPT ![v] = IF vgpu[v].used < ChunkSize THEN t
                           ELSE Cons("reserve", Cons("write", Cons("nextChunk", t)))]
  <2>1. todo[v] # <<>> /\ Head(todo[v]) = "alloc" BY <1>2 DEF Alloc, Do
  <2>2. IF vgpu[v].used < ChunkSize THEN Then(v, <<>>) ELSE Then(v, <<"reserve", "write", "nextChunk">>)
    BY <1>2 DEF Alloc
  <2>3. t \in AfterAlloc BY <2>1, <1>0, PlanHeads
  <2>4. todo' = [todo EXCEPT ![v] = (IF vgpu[v].used < ChunkSize THEN <<>> ELSE <<"reserve", "write", "nextChunk">>) \o t]
    BY <2>2 DEF Then
  <2> QED BY <2>1, <2>3, <2>4, <1>1
<1>3. ASSUME BlockingWait(v)
      PROVE  /\ todo[v] # <<>> /\ t \in AfterBlockingWait
             /\ todo' = [todo EXCEPT ![v] = IF Waiting(v, "Compute") = {} THEN t
                           ELSE Cons("reserve", Cons("write", t))]
  <2>1. todo[v] # <<>> /\ Head(todo[v]) = "blockingWait" BY <1>3 DEF BlockingWait, Do
  <2>2. todo' = [todo EXCEPT ![v] = (IF Waiting(v, "Compute") = {} THEN <<>> ELSE <<"reserve", "write">>) \o t]
    BY <1>3 DEF BlockingWait, Then
  <2>3. t \in AfterBlockingWait BY <2>1, <1>0, PlanHeads
  <2> QED BY <2>1, <2>2, <2>3, <1>1
<1>4. ASSUME Fence(v)
      PROVE  /\ todo[v] # <<>> /\ t \in AfterFence
             /\ todo' = [todo EXCEPT ![v] = IF vgpu[v].pending \/ vgpu[v].external # {}
                           THEN Cons("barrier", Cons("reserve", Cons("signal", Cons("write", t)))) ELSE t]
  <2>1. todo[v] # <<>> /\ Head(todo[v]) = "fence" BY <1>4 DEF Fence, Do
  <2>2. IF vgpu[v].pending \/ vgpu[v].external # {}
          THEN Then(v, <<"barrier", "reserve", "signal", "write">>) ELSE Then(v, <<>>)
    BY <1>4 DEF Fence
  <2>3. todo' = [todo EXCEPT ![v] = (IF vgpu[v].pending \/ vgpu[v].external # {}
                   THEN <<"barrier", "reserve", "signal", "write">> ELSE <<>>) \o t]
    BY <2>2 DEF Then
  <2>4. t \in AfterFence BY <2>1, <1>0, PlanHeads
  <2> QED BY <2>1, <2>3, <2>4, <1>1
<1>5. ASSUME CopyFails(v)
      PROVE  todo[v] # <<>> /\ t = <<>> /\ todo' = [todo EXCEPT ![v] = DispatchPlan]
  <2>1. todo[v] # <<>> /\ Head(todo[v]) = "copy" /\ todo' = [todo EXCEPT ![v] = Dispatch \o t]
    BY <1>5 DEF CopyFails, Do, Then
  <2>2. t = <<>> BY <2>1, <1>0, PlanHeads
  <2>3. Dispatch \o <<>> = DispatchPlan BY ConsSteps, PutBefore
  <2> QED BY <2>1, <2>2, <2>3
<1> QED BY <1>2, <1>3, <1>4, <1>5

LEMMA DispatchPlanned == Planned(DispatchPlan) /\ DispatchPlan \in StepSeqs /\ DispatchPlan # <<>>
                         /\ Head(DispatchPlan) = "alloc"
<1>1. PICK t \in AfterAlloc : t = Cons("blockingWait", Cons("kernel", Cons("write", <<>>)))
  BY DEF AfterAlloc, AfterBlockingWait, AfterKernel
<1>2. t \in StepSeqs /\ DispatchPlan = Cons("alloc", t) BY <1>1, PlansAreSequences DEF DispatchPlan
<1>3. Planned(DispatchPlan) BY ONLY t \in AfterAlloc, <1>2 DEF Planned
<1>4. DispatchPlan \in StepSeqs /\ DispatchPlan # <<>> /\ Head(DispatchPlan) = "alloc"
  BY ONLY <1>2, ConsSteps, StepNames
<1> QED BY <1>3, <1>4

(* Every step of a call leaves a plan. *)
LEMMA HostPlans ==
  ASSUME Plans, NEW v \in VGPUs, Host(v)
  PROVE  todo[v] # <<>> /\ \E s \in StepSeqs : Planned(s) /\ todo' = [todo EXCEPT ![v] = s]
<1>0. PICK t : t = Tail(todo[v]) OBVIOUS
<1>1. CASE Plain(v) BY <1>1, PlainGoesOn, TailIsSteps
<1>2. CASE Alloc(v)
  <2>1. t \in AfterAlloc /\ t \in StepSeqs BY <1>0, <1>2, OthersGoOn, PlansAreSequences
  <2>2. Cons("reserve", Cons("write", Cons("nextChunk", t))) \in StepSeqs
    <3>1. Cons("write", Cons("nextChunk", t)) \in StepSeqs BY <2>1, ConsSteps, StepNames
    <3> QED BY <3>1, ConsSteps, StepNames
  <2>3. Planned(t) /\ Planned(Cons("reserve", Cons("write", Cons("nextChunk", t)))) BY <2>1, RestIsPlan
  <2> QED BY <1>0, <1>2, <2>1, <2>2, <2>3, OthersGoOn
<1>3. CASE BlockingWait(v)
  <2>1. t \in AfterBlockingWait /\ t \in StepSeqs BY <1>0, <1>3, OthersGoOn, PlansAreSequences
  <2>2. Cons("reserve", Cons("write", t)) \in StepSeqs BY <2>1, ConsSteps, StepNames
  <2>3. Planned(t) /\ Planned(Cons("reserve", Cons("write", t))) BY <2>1, RestIsPlan
  <2> QED BY <1>0, <1>3, <2>1, <2>2, <2>3, OthersGoOn
<1>4. CASE Fence(v)
  <2>1. t \in AfterFence /\ t \in StepSeqs BY <1>0, <1>4, OthersGoOn, PlansAreSequences
  <2>2. Cons("signal", Cons("write", t)) \in StepSeqs BY <2>1, ConsSteps, StepNames
  <2>3. Cons("barrier", Cons("reserve", Cons("signal", Cons("write", t)))) \in StepSeqs
    BY <2>2, ConsSteps, StepNames
  <2>4. Planned(t) /\ Planned(Cons("barrier", Cons("reserve", Cons("signal", Cons("write", t)))))
    BY <2>1, RestIsPlan
  <2> QED BY <1>0, <1>4, <2>1, <2>3, <2>4, OthersGoOn
<1>5. CASE CopyFails(v) BY <1>0, <1>5, OthersGoOn, DispatchPlanned
<1> QED BY <1>1, <1>2, <1>3, <1>4, <1>5 DEF Host, Plain

----------------------------------------
(* Types: one lemma per step. *)

LEMMA InCallFacts ==
  ASSUME VirtualAssumptions, Basic, NEW v \in VGPUs, todo[v] # <<>>
  PROVE  my[v].cmd \in Commands /\ my[v] \in MyRecord /\ my[v].packet \in Packet /\ vgpu[v] \in VirtualDevice
         /\ setup.hwQueue[v] \in HwQueues /\ Current(v) \in Pool
         /\ vgpu[v].list \in Seq(Pool) /\ Len(vgpu[v].list) \in Nat \ {0, 1, 2}
         /\ vgpu[v].current \in 1..Len(vgpu[v].list)
<1>1. my[v].cmd \in 1..created /\ created \in 0..setup.commands /\ setup.commands \in 0..MaxCommands
      /\ MaxCommands \in Nat
  BY SetupFacts DEF Basic, Types, InCall
<1>2. my[v].cmd \in Commands BY <1>1 DEF Commands
<1>3. my[v] \in MyRecord /\ vgpu[v] \in VirtualDevice /\ setup.hwQueue[v] \in HwQueues
  BY SetupFacts DEF Basic, Types
<1>4. my[v].packet \in Packet BY <1>3 DEF MyRecord
<1>5. vgpu[v].list \in Seq(Pool) /\ Len(vgpu[v].list) \in ListSize..setup.listed
      /\ ListSize \in Nat \ {0, 1, 2} /\ setup.listed \in Nat /\ vgpu[v].current \in 1..Len(vgpu[v].list)
  BY <1>3, SetupFacts DEF Basic, Types, ListTypes, VirtualDevice
<1>6. Current(v) \in Pool BY <1>5, ElementOfSeq DEF Current
<1>7. Len(vgpu[v].list) \in Nat \ {0, 1, 2}
  <2>1. PICK n : n = Len(vgpu[v].list) OBVIOUS
  <2>2. PICK a, b \in Nat : a = ListSize /\ b = setup.listed BY <1>5
  <2>3. n \in a..b /\ a \notin {0, 1, 2} BY ONLY <1>5, <2>1, <2>2
  <2>4. n \in Nat \ {0, 1, 2} BY ONLY <2>3, a \in Nat, b \in Nat
  <2> QED BY ONLY <2>1, <2>4
<1> QED BY ONLY <1>2, <1>3, <1>4, <1>5, <1>6, <1>7

LEMMA GiveTypes ==
  ASSUME VirtualAssumptions, Basic, NEW v \in VGPUs, todo[v] # <<>>, NEW p \in Places, Give(v, p)
  PROVE  /\ memory' \in [VGPUs -> [Places -> Commands \cup {None}]]
         /\ command' \in [Commands -> CommandObject]
         /\ \A c \in Commands : command'[c].queue = command[c].queue
<1>1. PICK c \in Commands : c = my[v].cmd BY InCallFacts
<1>2. memory' = [memory EXCEPT ![v][p] = c] /\ memory \in [VGPUs -> [Places -> Commands \cup {None}]]
  BY <1>1 DEF Give, Basic, Types
<1>3. PICK d : d = [command[c] EXCEPT !.args = @ \cup {p}] OBVIOUS
<1>4. command[c] \in CommandObject /\ command \in [Commands -> CommandObject] BY DEF Basic, Types
<1>5. d \in CommandObject BY <1>3, <1>4, UpdateCommand
<1>6. command' = [command EXCEPT ![c] = d] BY <1>1, <1>3 DEF Give
<1>7. d.queue = command[c].queue BY <1>3, <1>4 DEF CommandObject
<1> QED BY <1>2, <1>4, <1>5, <1>6, <1>7

(* What a step of a call leaves for InCall to hold. *)
LEMMA InCallStays ==
  ASSUME InCall, NEW v \in VGPUs,
         \A w \in VGPUs : w # v => todo'[w] = todo[w] /\ my'[w] = my[w],
         my'[v].cmd = my[v].cmd, created' = created, todo[v] # <<>>,
         created \in 0..MaxCommands, MaxCommands \in Nat,
         \A c \in Commands : command'[c].queue = command[c].queue,
         (todo'[v] # <<>> /\ Head(todo'[v]) = "copy") => my'[v].packet.signal \in Ticket
  PROVE  InCall'
<1> SUFFICES ASSUME NEW w \in VGPUs, todo'[w] # <<>>
             PROVE  /\ my'[w].cmd \in 1..created' /\ command'[my'[w].cmd].queue = w
                    /\ todo'[w] # <<>> /\ Head(todo'[w]) = "copy" => my'[w].packet.signal \in Ticket
  BY DEF InCall, Do, Ticket, Signals, Pool, ChunkSignals, Chunks
<1>1. \A c \in 1..created : c \in Commands BY DEF Commands
<1>2. CASE w = v
  <2>1. my[v].cmd \in 1..created /\ command[my[v].cmd].queue = v BY DEF InCall
  <2> QED BY <1>1, <1>2, <2>1
<1>3. CASE w # v
  <2>1. /\ my[w].cmd \in 1..created /\ command[my[w].cmd].queue = w
        /\ todo[w] # <<>> /\ Head(todo[w]) = "copy" => my[w].packet.signal \in Ticket
    BY <1>3 DEF InCall, Do
  <2> QED BY <1>1, <1>3, <2>1
<1> QED BY <1>2, <1>3

(* The step that comes next. *)
LEMMA NextHeads ==
  /\ \A t \in AfterAlloc : t # <<>> /\ Head(t) \in {"blockingWait", "alloc"}
  /\ \A t \in AfterBlockingWait : t # <<>> /\ Head(t) = "kernel"
  /\ \A t \in AfterKernel : t # <<>> /\ Head(t) \in {"write", "signal"}
  /\ \A t \in AfterBarrier : t # <<>> /\ Head(t) = "reserve"
  /\ \A t \in AfterReserve : t # <<>> /\ Head(t) \in {"write", "signal"}
  /\ \A t \in AfterSignal : t # <<>> /\ Head(t) \in {"write", "copy"}
  /\ \A t \in AfterWrite : t = <<>> \/ Head(t) \in {"copyWait", "waitCurrent", "nextChunk", "kernel"}
  /\ \A t \in AfterFence : t # <<>> /\ Head(t) \in {"copyWait", "waitCurrent"}
  /\ \A t \in AfterCopyWait : t # <<>> /\ Head(t) = "signal"
<1> USE StepNames
<1>0. \A a \in Steps, t \in StepSeqs : Cons(a, t) # <<>> /\ Head(Cons(a, t)) = a BY ConsSteps
<1>1. Cons("write", <<>>) \in StepSeqs /\ Cons("copy", <<>>) \in StepSeqs /\ <<>> \in StepSeqs
  BY ConsSteps
<1>2. Cons("signal", Cons("write", <<>>)) \in StepSeqs /\ Cons("signal", Cons("copy", <<>>)) \in StepSeqs
      /\ Cons("kernel", Cons("write", <<>>)) \in StepSeqs
  BY <1>1, ConsSteps
<1>3. Cons("blockingWait", Cons("kernel", Cons("write", <<>>))) \in StepSeqs BY <1>2, ConsSteps
<1>4. \A t \in AfterKernel : t # <<>> /\ Head(t) \in {"write", "signal"}
  BY ONLY <1>0, <1>1, <1>2, StepNames DEF AfterKernel
<1>5. \A t \in AfterBlockingWait : t # <<>> /\ Head(t) = "kernel"
  BY ONLY <1>0, PlansAreSequences, StepNames DEF AfterBlockingWait
<1>6. \A t \in AfterAlloc : t # <<>> /\ Head(t) \in {"blockingWait", "alloc"}
  BY ONLY <1>0, <1>3, PlansAreSequences, StepNames DEF AfterAlloc
<1>7. ASSUME NEW y \in Endings
      PROVE  /\ Cons("write", y) \in StepSeqs /\ Cons("signal", Cons("write", y)) \in StepSeqs
             /\ y = <<>> \/ Head(y) \in {"copyWait", "waitCurrent"}
  <2>1. y \in StepSeqs BY PlansAreSequences
  <2>2. Cons("write", y) \in StepSeqs BY <2>1, ConsSteps
  <2>3. Cons("signal", Cons("write", y)) \in StepSeqs BY <2>2, ConsSteps
  <2>4. y = <<>> \/ Head(y) \in {"copyWait", "waitCurrent"}
    BY ONLY <1>0, <1>1, <1>2, StepNames, y \in Endings DEF Endings, CopyPlan, FlushPlan
  <2> QED BY ONLY <2>2, <2>3, <2>4
<1>8. \A t \in AfterBarrier : t # <<>> /\ Head(t) = "reserve"
  BY ONLY <1>0, <1>7, StepNames DEF AfterBarrier
<1>9. \A t \in AfterAlloc : Cons("nextChunk", t) \in StepSeqs /\ Head(Cons("nextChunk", t)) = "nextChunk"
  BY ONLY PlansAreSequences, ConsSteps, StepNames
<1>10. \A t \in AfterReserve : t # <<>> /\ Head(t) \in {"write", "signal"}
  BY ONLY <1>0, <1>7, <1>9, PlansAreSequences, StepNames DEF AfterReserve
<1>11. \A t \in AfterSignal : t # <<>> /\ Head(t) \in {"write", "copy"}
  BY ONLY <1>0, <1>1, PlansAreSequences, StepNames DEF AfterSignal
<1>12. \A t \in AfterWrite : t = <<>> \/ Head(t) \in {"copyWait", "waitCurrent", "nextChunk", "kernel"}
  BY ONLY <1>5, <1>7, <1>9 DEF AfterWrite
<1>13. \A t \in AfterFence : t # <<>> /\ Head(t) \in {"copyWait", "waitCurrent"}
  BY ONLY <1>0, <1>1, <1>2, StepNames DEF AfterFence, CopyPlan, FlushPlan
<1>14. \A t \in AfterCopyWait : t # <<>> /\ Head(t) = "signal"
  BY ONLY <1>0, <1>1, StepNames DEF AfterCopyWait
<1> QED BY ONLY <1>4, <1>5, <1>6, <1>8, <1>10, <1>11, <1>12, <1>13, <1>14

(* Only a signal is followed by the start of a copy. *)
LEMMA CopyComesNext ==
  ASSUME Plans, NEW v \in VGPUs, Host(v), todo'[v] # <<>>, Head(todo'[v]) = "copy", todo \in [VGPUs -> StepSeqs]
  PROVE  GrowList(v) \/ ReuseSignal(v)
<1> SUFFICES ASSUME ~(GrowList(v) \/ ReuseSignal(v)) PROVE FALSE OBVIOUS
<1>0. PICK t : t = Tail(todo[v]) OBVIOUS
<1>1. todo[v] # <<>> /\ Planned(todo[v]) BY HostPlans DEF Plans
<1>2. CASE Plain(v)
  <2>1. todo'[v] = t BY <1>0, <1>2, PlainGoesOn
  <2>2. Head(todo[v]) \in {"nextChunk", "barrier", "copyWait", "reserve", "kernel", "write", "waitCurrent", "copy"}
    BY <1>2 DEF Plain, NextChunk, Barrier, CopyWait, Reserve, Kernel, Write, WaitCurrent, StartCopy, Do
  <2>3. \/ t \in AfterAlloc \/ t \in AfterBarrier \/ t \in AfterCopyWait \/ t \in AfterReserve
        \/ t \in AfterKernel \/ t \in AfterWrite \/ t = <<>>
    BY <1>0, <1>1, <2>2, PlanHeads
  <2> QED BY ONLY <2>1, <2>3, NextHeads, todo'[v] # <<>>, Head(todo'[v]) = "copy"
<1>3. CASE Alloc(v)
  <2>1. t \in AfterAlloc /\ t \in StepSeqs BY <1>0, <1>3, OthersGoOn, PlansAreSequences
  <2>2. Cons("write", Cons("nextChunk", t)) \in StepSeqs BY <2>1, ConsSteps, StepNames
  <2>3. Head(Cons("reserve", Cons("write", Cons("nextChunk", t)))) = "reserve"
    BY ONLY <2>2, ConsSteps, StepNames
  <2>6. todo' = [todo EXCEPT ![v] = IF vgpu[v].used < ChunkSize THEN t ELSE Cons("reserve", Cons("write", Cons("nextChunk", t)))]
    BY <1>0, <1>3, OthersGoOn
  <2>4. todo'[v] = t \/ todo'[v] = Cons("reserve", Cons("write", Cons("nextChunk", t)))
    BY ONLY <2>6, todo \in [VGPUs -> StepSeqs], v \in VGPUs
  <2>5. Head(t) # "copy" BY ONLY <2>1, NextHeads
  <2> QED BY ONLY <2>3, <2>4, <2>5, Head(todo'[v]) = "copy"
<1>4. CASE BlockingWait(v)
  <2>1. t \in AfterBlockingWait /\ t \in StepSeqs BY <1>0, <1>4, OthersGoOn, PlansAreSequences
  <2>2. Cons("write", t) \in StepSeqs BY <2>1, ConsSteps, StepNames
  <2>3. Head(Cons("reserve", Cons("write", t))) = "reserve" BY ONLY <2>2, ConsSteps, StepNames
  <2>6. todo' = [todo EXCEPT ![v] = IF Waiting(v, "Compute") = {} THEN t ELSE Cons("reserve", Cons("write", t))]
    BY <1>0, <1>4, OthersGoOn
  <2>4. todo'[v] = t \/ todo'[v] = Cons("reserve", Cons("write", t))
    BY ONLY <2>6, todo \in [VGPUs -> StepSeqs], v \in VGPUs
  <2>5. Head(t) # "copy" BY ONLY <2>1, NextHeads
  <2> QED BY ONLY <2>3, <2>4, <2>5, Head(todo'[v]) = "copy"
<1>5. CASE Fence(v)
  <2>1. t \in AfterFence /\ t \in StepSeqs BY <1>0, <1>5, OthersGoOn, PlansAreSequences
  <2>2. Cons("signal", Cons("write", t)) \in StepSeqs BY <2>1, ConsSteps, StepNames
  <2>3. Cons("reserve", Cons("signal", Cons("write", t))) \in StepSeqs BY <2>2, ConsSteps, StepNames
  <2>4. Head(Cons("barrier", Cons("reserve", Cons("signal", Cons("write", t))))) = "barrier"
    BY ONLY <2>3, ConsSteps, StepNames
  <2>7. todo' = [todo EXCEPT ![v] = IF vgpu[v].pending \/ vgpu[v].external # {}
                               THEN Cons("barrier", Cons("reserve", Cons("signal", Cons("write", t)))) ELSE t]
    BY <1>0, <1>5, OthersGoOn
  <2>5. todo'[v] = t \/ todo'[v] = Cons("barrier", Cons("reserve", Cons("signal", Cons("write", t))))
    BY ONLY <2>7, todo \in [VGPUs -> StepSeqs], v \in VGPUs
  <2>6. Head(t) # "copy" BY ONLY <2>1, NextHeads
  <2> QED BY ONLY <2>4, <2>5, <2>6, Head(todo'[v]) = "copy"
<1>6. CASE CopyFails(v)
  <2>1. todo'[v] = DispatchPlan BY <1>0, <1>6, OthersGoOn
  <2> QED BY ONLY <2>1, DispatchPlanned, Head(todo'[v]) = "copy"
<1> QED BY <1>2, <1>3, <1>4, <1>5, <1>6 DEF Host, Plain

LEMMA ListTypesStay ==
  ASSUME ListTypes, setup' = setup,
         \A w \in VGPUs : vgpu'[w].list = vgpu[w].list /\ vgpu'[w].current = vgpu[w].current
  PROVE  ListTypes'
BY DEF ListTypes

LEMMA HostTodoTypes ==
  ASSUME VirtualAssumptions, Basic, NEW v \in VGPUs, Host(v)
  PROVE  /\ todo' \in [VGPUs -> StepSeqs] /\ Plans' /\ todo[v] # <<>>
         /\ \A w \in VGPUs : w # v => todo'[w] = todo[w]
<1>1. PICK s \in StepSeqs : Planned(s) /\ todo' = [todo EXCEPT ![v] = s] BY HostPlans DEF Basic
<1>2. todo \in [VGPUs -> StepSeqs] /\ \A w \in VGPUs : Planned(todo[w]) BY DEF Basic, Types, Plans
<1>3. todo[v] # <<>> BY HostPlans DEF Basic
<1>4. \A w \in VGPUs : Planned(todo'[w]) BY ONLY <1>1, <1>2, v \in VGPUs
<1> QED BY <1>1, <1>2, <1>3, <1>4 DEF Plans

(* A step of a call that sets the packet keeps the types of the calls. *)
LEMMA NewPacketTypes ==
  ASSUME VirtualAssumptions, Basic, NEW v \in VGPUs, NEW p \in Packet,
         my' = [my EXCEPT ![v].packet = p]
  PROVE  my' \in [VGPUs -> MyRecord] /\ my'[v].cmd = my[v].cmd /\ my'[v].packet = p
         /\ my'[v].index = my[v].index
         /\ \A w \in VGPUs : w # v => my'[w] = my[w]
<1>1. my \in [VGPUs -> MyRecord] BY DEF Basic, Types
<1>2. PICK m : m = [my[v] EXCEPT !.packet = p] OBVIOUS
<1>3. m \in MyRecord /\ m.cmd = my[v].cmd /\ m.packet = p /\ m.index = my[v].index
  BY <1>1, <1>2, UpdateMy DEF MyRecord
<1>4. my' = [my EXCEPT ![v] = m] BY <1>2
<1> QED BY ONLY <1>1, <1>3, <1>4, v \in VGPUs

LEMMA NewPacketIndexTypes ==
  ASSUME VirtualAssumptions, Basic, NEW v \in VGPUs, NEW p \in Packet, NEW i \in Nat,
         my' = [my EXCEPT ![v] = [@ EXCEPT !.packet = p, !.index = i]]
  PROVE  my' \in [VGPUs -> MyRecord] /\ my'[v].cmd = my[v].cmd /\ my'[v].packet = p
         /\ my'[v].index = i /\ \A w \in VGPUs : w # v => my'[w] = my[w]
<1>1. my \in [VGPUs -> MyRecord] BY DEF Basic, Types
<1>2. PICK m : m = [my[v] EXCEPT !.packet = p, !.index = i] OBVIOUS
<1>3. m \in MyRecord /\ m.cmd = my[v].cmd /\ m.packet = p /\ m.index = i
  BY <1>1, <1>2, UpdateMy DEF MyRecord
<1>4. my' = [my EXCEPT ![v] = m] BY <1>2
<1> QED BY ONLY <1>1, <1>3, <1>4, v \in VGPUs

(* A step that replaces the state of one device. *)
LEMMA NewDeviceTypes ==
  ASSUME VirtualAssumptions, Basic, NEW v \in VGPUs, NEW u \in VirtualDevice, setup' = setup,
         u.list = vgpu[v].list, u.current = vgpu[v].current, vgpu' = [vgpu EXCEPT ![v] = u]
  PROVE  vgpu' \in [VGPUs -> VirtualDevice] /\ ListTypes'
         /\ vgpu'[v] = u /\ \A w \in VGPUs : w # v => vgpu'[w] = vgpu[w]
<1>1. vgpu \in [VGPUs -> VirtualDevice] /\ ListTypes BY DEF Basic, Types
<1>2. /\ vgpu' \in [VGPUs -> VirtualDevice]
      /\ \A w \in VGPUs : vgpu'[w].list = vgpu[w].list /\ vgpu'[w].current = vgpu[w].current
      /\ vgpu'[v] = u /\ \A w \in VGPUs : w # v => vgpu'[w] = vgpu[w]
  BY <1>1
<1> QED BY <1>1, <1>2, ListTypesStay

LEMMA PlacesOf ==
  ASSUME VirtualAssumptions, Basic, NEW v \in VGPUs
  PROVE  /\ vgpu[v].chunk \in Chunks /\ vgpu[v].used \in 0..ChunkSize
         /\ vgpu[v].used < ChunkSize =>
              <<vgpu[v].chunk, vgpu[v].used>> \in Places /\ vgpu[v].used + 1 \in 0..ChunkSize
         /\ (vgpu[v].chunk + 1) % NumChunks \in Chunks
         /\ <<(vgpu[v].chunk + 1) % NumChunks, 0>> \in Places
         /\ 0 \in Chunks /\ 0 \in 0..ChunkSize /\ 1 \in 0..ChunkSize
<1>1. vgpu[v].chunk \in Chunks /\ vgpu[v].used \in 0..ChunkSize BY DEF Basic, Types, VirtualDevice
<1>2. PICK n \in Nat \ {0, 1}, m \in Nat \ {0} : n = NumChunks /\ m = ChunkSize
  BY SetupFacts DEF Basic, Types
<1>3. PICK k \in 0..n - 1, i \in 0..m : k = vgpu[v].chunk /\ i = vgpu[v].used BY <1>1, <1>2 DEF Chunks
<1>4. (k + 1) % n \in 0..n - 1 OBVIOUS
<1>5. i < m => i \in 0..m - 1 /\ i + 1 \in 0..m OBVIOUS
<1>6. 0 \in 0..n - 1 /\ 0 \in 0..m - 1 /\ 0 \in 0..m /\ 1 \in 0..m OBVIOUS
<1> QED BY ONLY <1>1, <1>2, <1>3, <1>4, <1>5, <1>6 DEF Chunks, Places

LEMMA AllocTypes ==
  ASSUME VirtualAssumptions, Basic, NEW v \in VGPUs, Alloc(v)
  PROVE  Types' /\ InCall'
<1>0. Host(v) /\ todo[v] # <<>> BY DEF Alloc, Host, Do
<1>1. setup' = setup /\ created' = created /\ ring' = ring /\ dma' = dma /\ done' = done BY DEF Alloc
<1>2. todo' \in [VGPUs -> StepSeqs] /\ \A w \in VGPUs : w # v => todo'[w] = todo[w] BY <1>0, HostTodoTypes
<1>3. todo'[v] # <<>> => Head(todo'[v]) # "copy"
  <2>1. Do(v, "alloc") BY DEF Alloc
  <2>2. ~(GrowList(v) \/ ReuseSignal(v)) BY <2>1 DEF GrowList, ReuseSignal, Do
  <2> QED BY <1>0, <2>2, CopyComesNext DEF Basic, Types
<1>4. created \in 0..MaxCommands /\ MaxCommands \in Nat BY SetupFacts DEF Basic, Types
<1>5. CASE vgpu[v].used < ChunkSize
  <2>1. /\ Give(v, <<vgpu[v].chunk, vgpu[v].used>>) /\ signal' = signal /\ my' = my
        /\ vgpu' = [vgpu EXCEPT ![v].used = @ + 1]
    BY <1>5 DEF Alloc
  <2>2. PICK u : u = [vgpu[v] EXCEPT !.used = vgpu[v].used + 1] OBVIOUS
  <2>3. u \in VirtualDevice /\ u.list = vgpu[v].list /\ u.current = vgpu[v].current
    <3>1. vgpu[v] \in VirtualDevice /\ vgpu[v].used + 1 \in 0..ChunkSize
      BY <1>5, PlacesOf DEF Basic, Types
    <3> QED BY <2>2, <3>1, UpdateDevice DEF VirtualDevice
  <2>4. vgpu' = [vgpu EXCEPT ![v] = u] BY <2>1, <2>2
  <2>5. vgpu' \in [VGPUs -> VirtualDevice] /\ ListTypes' BY <1>1, <2>3, <2>4, NewDeviceTypes
  <2>6. /\ memory' \in [VGPUs -> [Places -> Commands \cup {None}]]
        /\ command' \in [Commands -> CommandObject]
        /\ \A c \in Commands : command'[c].queue = command[c].queue
    BY <2>1, <1>0, <1>5, PlacesOf, GiveTypes
  <2>7. Types' BY <1>1, <1>2, <2>1, <2>5, <2>6 DEF Types, Basic
  <2>8. InCall' BY <1>0, <1>1, <1>2, <1>3, <1>4, <2>1, <2>6, InCallStays DEF Basic
  <2> QED BY <2>7, <2>8
<1>6. CASE ~(vgpu[v].used < ChunkSize)
  <2>0. PICK s : s = <<v, vgpu[v].chunk>> OBVIOUS
  <2>1. /\ Arm(s) /\ my' = [my EXCEPT ![v].packet = [Nothing EXCEPT !.signal = Armed(s)]]
        /\ command' = command /\ vgpu' = vgpu /\ memory' = memory
    BY <1>6, <2>0 DEF Alloc
  <2>2. s \in Signals BY <2>0, Kinds, PlacesOf
  <2>3. PICK p \in Packet : p = [Nothing EXCEPT !.signal = Armed(s)]
    BY <2>2, Tickets, UpdatePacket DEF Basic
  <2>4. signal' \in [Signals -> [value : {0, 1}, uses : Nat]] BY <2>1, <2>2, Tickets DEF Arm, Basic
  <2>5. my' \in [VGPUs -> MyRecord] /\ my'[v].cmd = my[v].cmd /\ \A w \in VGPUs : w # v => my'[w] = my[w]
    BY <2>1, <2>3, NewPacketTypes
  <2>6. ListTypes' BY <1>1, <2>1, ListTypesStay DEF Basic, Types
  <2>7. Types' BY <1>1, <1>2, <2>1, <2>4, <2>5, <2>6 DEF Types, Basic
  <2>8. InCall' BY <1>0, <1>1, <1>2, <1>3, <1>4, <2>1, <2>5, InCallStays DEF Basic
  <2> QED BY <2>7, <2>8
<1> QED BY <1>5, <1>6

LEMMA NextChunkTypes ==
  ASSUME VirtualAssumptions, Basic, NEW v \in VGPUs, NextChunk(v)
  PROVE  Types' /\ InCall'
<1>0. Host(v) /\ todo[v] # <<>> BY DEF NextChunk, Host, Do
<1>1. /\ setup' = setup /\ created' = created /\ ring' = ring /\ dma' = dma /\ done' = done
      /\ signal' = signal /\ my' = my
  BY DEF NextChunk
<1>2. todo' \in [VGPUs -> StepSeqs] /\ \A w \in VGPUs : w # v => todo'[w] = todo[w] BY <1>0, HostTodoTypes
<1>3. todo'[v] # <<>> => Head(todo'[v]) # "copy"
  <2>1. ~(GrowList(v) \/ ReuseSignal(v)) BY DEF NextChunk, GrowList, ReuseSignal, Do
  <2> QED BY <1>0, <2>1, CopyComesNext DEF Basic, Types
<1>4. created \in 0..MaxCommands /\ MaxCommands \in Nat BY SetupFacts DEF Basic, Types
<1>5. PICK k \in Chunks : k = (vgpu[v].chunk + 1) % NumChunks /\ <<k, 0>> \in Places BY PlacesOf
<1>6. Give(v, <<k, 0>>) /\ vgpu' = [vgpu EXCEPT ![v].chunk = k, ![v].used = 1] BY <1>5 DEF NextChunk
<1>7. PICK u : u = [vgpu[v] EXCEPT !.chunk = k, !.used = 1] OBVIOUS
<1>8. u \in VirtualDevice /\ u.list = vgpu[v].list /\ u.current = vgpu[v].current
  <2>1. vgpu[v] \in VirtualDevice /\ 1 \in 0..ChunkSize BY PlacesOf DEF Basic, Types
  <2> QED BY <1>7, <2>1, UpdateDevice, ZenonT(60) DEF VirtualDevice
<1>9. vgpu' = [vgpu EXCEPT ![v] = u] BY <1>6, <1>7 DEF Basic, Types
<1>10. vgpu' \in [VGPUs -> VirtualDevice] /\ ListTypes' BY <1>1, <1>8, <1>9, NewDeviceTypes
<1>11. /\ memory' \in [VGPUs -> [Places -> Commands \cup {None}]]
       /\ command' \in [Commands -> CommandObject]
       /\ \A c \in Commands : command'[c].queue = command[c].queue
  BY <1>6, <1>0, <1>5, GiveTypes
<1>12. Types' BY <1>1, <1>2, <1>10, <1>11 DEF Types, Basic
<1>13. InCall' BY <1>0, <1>1, <1>2, <1>3, <1>4, <1>11, InCallStays DEF Basic
<1> QED BY <1>12, <1>13

LEMMA WaitingTypes ==
  ASSUME VirtualAssumptions, Basic, NEW v \in VGPUs, todo[v] # <<>>, NEW e
  PROVE  Waiting(v, e) \in SUBSET Ticket
<1>1. Current(v) \in Pool /\ vgpu[v].external \in SUBSET Pool BY InCallFacts DEF VirtualDevice
<1>2. \A s \in Pool : Now(s) \in Ticket BY Tickets, Kinds DEF Basic
<1> QED BY <1>1, <1>2 DEF Waiting

LEMMA ResolveTypes ==
  ASSUME VirtualAssumptions, Basic, NEW v \in VGPUs, NEW e \in {"Unknown", "Compute", "Sdma"},
         Resolve(v, e), setup' = setup
  PROVE  vgpu' \in [VGPUs -> VirtualDevice] /\ ListTypes'
<1>1. vgpu[v] \in VirtualDevice BY DEF Basic, Types
<1>2. PICK u : u = [vgpu[v] EXCEPT !.engine = e, !.external = {}] OBVIOUS
<1>3. u \in VirtualDevice /\ u.list = vgpu[v].list /\ u.current = vgpu[v].current
  BY <1>1, <1>2, UpdateDevice, ZenonT(60) DEF VirtualDevice
<1>4. vgpu' = [vgpu EXCEPT ![v] = u] BY <1>1, <1>2 DEF Resolve, Basic, Types
<1> QED BY <1>3, <1>4, NewDeviceTypes

(* The waits before a kernel, a marker or a copy: a packet without signal. *)
LEMMA WaitTypes ==
  ASSUME VirtualAssumptions, Basic, NEW v \in VGPUs,
         BlockingWait(v) \/ Barrier(v) \/ CopyWait(v)
  PROVE  Types' /\ InCall'
<1>0. Host(v) /\ todo[v] # <<>> BY DEF BlockingWait, Barrier, CopyWait, Host, Do
<1>1. /\ setup' = setup /\ created' = created /\ command' = command /\ memory' = memory
      /\ signal' = signal /\ ring' = ring /\ dma' = dma /\ done' = done
  BY DEF BlockingWait, Barrier, CopyWait
<1>2. todo' \in [VGPUs -> StepSeqs] /\ \A w \in VGPUs : w # v => todo'[w] = todo[w] BY <1>0, HostTodoTypes
<1>3. todo'[v] # <<>> => Head(todo'[v]) # "copy"
  <2>1. ~(GrowList(v) \/ ReuseSignal(v)) BY DEF BlockingWait, Barrier, CopyWait, GrowList, ReuseSignal, Do
  <2> QED BY <1>0, <2>1, CopyComesNext DEF Basic, Types
<1>4. created \in 0..MaxCommands /\ MaxCommands \in Nat BY SetupFacts DEF Basic, Types
<1>5. PICK e \in {"Unknown", "Compute", "Sdma"} : Resolve(v, e) BY DEF BlockingWait, Barrier, CopyWait
<1>6. vgpu' \in [VGPUs -> VirtualDevice] /\ ListTypes' BY <1>1, <1>5, ResolveTypes
<1>7. \E p \in Packet : my' = [my EXCEPT ![v].packet = p]
  <2>1. my[v].cmd \in Commands BY <1>0, InCallFacts
  <2>2. Waiting(v, "Compute") \in SUBSET Ticket /\ Waiting(v, "Sdma") \in SUBSET Ticket
    BY <1>0, WaitingTypes
  <2>3. CASE BlockingWait(v) BY <2>2, <2>3, UpdatePacket DEF BlockingWait
  <2>4. CASE CopyWait(v) BY <2>2, <2>4, UpdatePacket DEF CopyWait
  <2>5. CASE Barrier(v)
    <3>1. PICK c \in Commands \cup {None} :
            c = IF command[my[v].cmd].op \in {"marker", "nop"} THEN my[v].cmd ELSE None
      BY <2>1
    <3>2. my' = [my EXCEPT ![v].packet = [Nothing EXCEPT !.deps = Waiting(v, "Compute"), !.cmd = c]]
      BY <2>5, <3>1 DEF Barrier
    <3> QED BY <2>2, <3>2, UpdatePacket
  <2> QED BY <2>3, <2>4, <2>5
<1>8. my' \in [VGPUs -> MyRecord] /\ my'[v].cmd = my[v].cmd /\ \A w \in VGPUs : w # v => my'[w] = my[w]
  BY <1>7, NewPacketTypes
<1>9. Types' BY <1>1, <1>2, <1>6, <1>8 DEF Types, Basic
<1>10. InCall' BY <1>0, <1>1, <1>2, <1>3, <1>4, <1>8, InCallStays DEF Basic
<1> QED BY <1>9, <1>10

(* The index is taken from the ring. *)
LEMMA ReservedTypes ==
  ASSUME VirtualAssumptions, Basic, NEW v \in VGPUs, Reserve(v) \/ Kernel(v)
  PROVE  Types' /\ InCall'
<1>0. Host(v) /\ todo[v] # <<>> BY DEF Reserve, Kernel, Host, Do
<1>1. /\ setup' = setup /\ created' = created /\ command' = command /\ memory' = memory
      /\ vgpu' = vgpu /\ signal' = signal /\ dma' = dma /\ done' = done
  BY DEF Reserve, Kernel, Reserved
<1>2. todo' \in [VGPUs -> StepSeqs] /\ \A w \in VGPUs : w # v => todo'[w] = todo[w] BY <1>0, HostTodoTypes
<1>3. todo'[v] # <<>> => Head(todo'[v]) # "copy"
  <2>1. ~(GrowList(v) \/ ReuseSignal(v)) BY DEF Reserve, Kernel, GrowList, ReuseSignal, Do
  <2> QED BY <1>0, <2>1, CopyComesNext DEF Basic, Types
<1>4. created \in 0..MaxCommands /\ MaxCommands \in Nat BY SetupFacts DEF Basic, Types
<1>5. PICK h \in HwQueues : h = setup.hwQueue[v] BY <1>0, InCallFacts
<1>6. ring \in [HwQueues -> RingRecord] /\ ring[h] \in RingRecord BY DEF Basic, Types
<1>7. PICK i \in Nat : i = ring[h].write BY <1>6 DEF RingRecord
<1>8. PICK p \in Packet : Reserved(v, p)
  <2>1. my[v].cmd \in Commands /\ my[v].packet \in Packet BY <1>0, InCallFacts
  <2> QED BY <2>1, UpdatePacket DEF Reserve, Kernel
<1>9. my' = [my EXCEPT ![v] = [@ EXCEPT !.packet = p, !.index = i]] BY <1>5, <1>7, <1>8 DEF Reserved
<1>10. my' \in [VGPUs -> MyRecord] /\ my'[v].cmd = my[v].cmd /\ \A w \in VGPUs : w # v => my'[w] = my[w]
  BY <1>9, NewPacketIndexTypes
<1>11. ring' \in [HwQueues -> RingRecord]
  <2>1. ring' = [ring EXCEPT ![h].write = @ + 1] BY <1>5, <1>8 DEF Reserved
  <2>2. PICK r : r = [ring[h] EXCEPT !.write = i + 1] OBVIOUS
  <2>3. r \in RingRecord BY <1>6, <2>2, SMTT(30) DEF RingRecord
  <2>4. ring' = [ring EXCEPT ![h] = r] BY <2>1, <2>2, <1>7
  <2> QED BY ONLY <1>6, <2>3, <2>4, h \in HwQueues
<1>12. ListTypes' BY <1>1, ListTypesStay DEF Basic, Types
<1>13. Types' BY <1>1, <1>2, <1>10, <1>11, <1>12 DEF Types, Basic
<1>14. InCall' BY <1>0, <1>1, <1>2, <1>3, <1>4, <1>10, InCallStays DEF Basic
<1> QED BY <1>13, <1>14

LEMMA WriteTypes ==
  ASSUME VirtualAssumptions, Basic, NEW v \in VGPUs, Write(v)
  PROVE  Types' /\ InCall'
<1>0. Host(v) /\ todo[v] # <<>> BY DEF Write, Host, Do
<1>1. /\ setup' = setup /\ created' = created /\ command' = command /\ memory' = memory
      /\ signal' = signal /\ dma' = dma /\ done' = done
  BY DEF Write
<1>2. todo' \in [VGPUs -> StepSeqs] /\ \A w \in VGPUs : w # v => todo'[w] = todo[w] BY <1>0, HostTodoTypes
<1>3. todo'[v] # <<>> => Head(todo'[v]) # "copy"
  <2>1. ~(GrowList(v) \/ ReuseSignal(v)) BY DEF Write, GrowList, ReuseSignal, Do
  <2> QED BY <1>0, <2>1, CopyComesNext DEF Basic, Types
<1>4. created \in 0..MaxCommands /\ MaxCommands \in Nat BY SetupFacts DEF Basic, Types
<1>5. PICK h \in HwQueues : h = setup.hwQueue[v] BY <1>0, InCallFacts
<1>6. ring \in [HwQueues -> RingRecord] /\ ring[h] \in RingRecord BY DEF Basic, Types
<1>7. PICK i \in Nat, p \in Packet : i = my[v].index /\ p = my[v].packet BY <1>0, InCallFacts DEF MyRecord
<1>8. PICK k \in 0..RingSize - 1 : k = i % RingSize
  <2>1. RingSize \in Nat \ {0, 1} BY SetupFacts DEF Basic, Types
  <2> QED BY <2>1
<1>9. ring' \in [HwQueues -> RingRecord]
  <2>1. ring' = [ring EXCEPT ![h].slot[k] = p] BY <1>5, <1>7, <1>8 DEF Write
  <2>2. PICK r : r = [ring[h] EXCEPT !.slot = [ring[h].slot EXCEPT ![k] = p]] OBVIOUS
  <2>3. r \in RingRecord BY <1>6, <2>2 DEF RingRecord
  <2>4. ring' = [ring EXCEPT ![h] = r] BY <2>1, <2>2
  <2> QED BY ONLY <1>6, <2>3, <2>4, h \in HwQueues
<1>10. vgpu' \in [VGPUs -> VirtualDevice] /\ ListTypes'
  <2>1. vgpu[v] \in VirtualDevice BY DEF Basic, Types
  <2>2. PICK b \in BOOLEAN : b = (IF p.kind = "kernel" THEN TRUE
                   ELSE IF p.cmd # None /\ command[my[v].cmd].op = "marker" THEN FALSE ELSE vgpu[v].pending)
    BY <2>1 DEF VirtualDevice
  <2>3. PICK u : u = [vgpu[v] EXCEPT !.pending = b] OBVIOUS
  <2>4. u \in VirtualDevice /\ u.list = vgpu[v].list /\ u.current = vgpu[v].current
    BY <2>1, <2>3, UpdateDevice DEF VirtualDevice
  <2>5. vgpu' = [vgpu EXCEPT ![v] = u] BY <2>2, <2>3, <1>7 DEF Write
  <2> QED BY <1>1, <2>4, <2>5, NewDeviceTypes
<1>11. my' = [my EXCEPT ![v].packet = Nothing, ![v].index = 0] BY DEF Write
<1>12. my' = [my EXCEPT ![v] = [@ EXCEPT !.packet = Nothing, !.index = 0]] BY <1>11 DEF Basic, Types
<1>13. my' \in [VGPUs -> MyRecord] /\ my'[v].cmd = my[v].cmd /\ \A w \in VGPUs : w # v => my'[w] = my[w]
  BY <1>12, NewPacketIndexTypes, UpdatePacket
<1>14. Types' BY <1>1, <1>2, <1>9, <1>10, <1>13 DEF Types, Basic
<1>15. InCall' BY <1>0, <1>1, <1>2, <1>3, <1>4, <1>13, InCallStays DEF Basic
<1> QED BY <1>14, <1>15

LEMMA FenceTypes ==
  ASSUME VirtualAssumptions, Basic, NEW v \in VGPUs, Fence(v)
  PROVE  Types' /\ InCall'
<1>0. Host(v) /\ todo[v] # <<>> BY DEF Fence, Host, Do
<1>1. /\ setup' = setup /\ created' = created /\ command' = command /\ memory' = memory
      /\ signal' = signal /\ dma' = dma /\ done' = done /\ ring' = ring /\ my' = my
  BY DEF Fence
<1>2. todo' \in [VGPUs -> StepSeqs] /\ \A w \in VGPUs : w # v => todo'[w] = todo[w] BY <1>0, HostTodoTypes
<1>3. todo'[v] # <<>> => Head(todo'[v]) # "copy"
  <2>1. ~(GrowList(v) \/ ReuseSignal(v)) BY DEF Fence, GrowList, ReuseSignal, Do
  <2> QED BY <1>0, <2>1, CopyComesNext DEF Basic, Types
<1>4. created \in 0..MaxCommands /\ MaxCommands \in Nat BY SetupFacts DEF Basic, Types
<1>5. vgpu' \in [VGPUs -> VirtualDevice] /\ ListTypes'
  <2>1. vgpu[v] \in VirtualDevice BY DEF Basic, Types
  <2>2. PICK u : u = [vgpu[v] EXCEPT !.pending = FALSE] OBVIOUS
  <2>3. u \in VirtualDevice /\ u.list = vgpu[v].list /\ u.current = vgpu[v].current
    BY <2>1, <2>2, UpdateDevice DEF VirtualDevice
  <2>4. vgpu' = [vgpu EXCEPT ![v] = u] BY <2>2 DEF Fence
  <2> QED BY <1>1, <2>3, <2>4, NewDeviceTypes
<1>6. Types' BY <1>1, <1>2, <1>5 DEF Types, Basic
<1>7. InCall' BY <1>0, <1>1, <1>2, <1>3, <1>4, InCallStays DEF Basic
<1> QED BY <1>6, <1>7

LEMMA WaitCurrentTypes ==
  ASSUME VirtualAssumptions, Basic, NEW v \in VGPUs, WaitCurrent(v)
  PROVE  Types' /\ InCall'
<1>0. Host(v) /\ todo[v] # <<>> BY DEF WaitCurrent, Host, Do
<1>1. /\ setup' = setup /\ created' = created /\ command' = command /\ memory' = memory
      /\ signal' = signal /\ dma' = dma /\ ring' = ring /\ my' = my
  BY DEF WaitCurrent
<1>2. todo' \in [VGPUs -> StepSeqs] /\ \A w \in VGPUs : w # v => todo'[w] = todo[w] BY <1>0, HostTodoTypes
<1>3. todo'[v] # <<>> => Head(todo'[v]) # "copy"
  <2>1. ~(GrowList(v) \/ ReuseSignal(v)) BY DEF WaitCurrent, GrowList, ReuseSignal, Do
  <2> QED BY <1>0, <2>1, CopyComesNext DEF Basic, Types
<1>4. created \in 0..MaxCommands /\ MaxCommands \in Nat BY SetupFacts DEF Basic, Types
<1>5. vgpu' \in [VGPUs -> VirtualDevice] /\ ListTypes'
  <2>1. vgpu[v] \in VirtualDevice /\ 0 \in Chunks /\ 0 \in 0..ChunkSize BY PlacesOf DEF Basic, Types
  <2>2. PICK u : u = [vgpu[v] EXCEPT !.chunk = 0, !.used = 0] OBVIOUS
  <2>3. u \in VirtualDevice /\ u.list = vgpu[v].list /\ u.current = vgpu[v].current
    BY <2>1, <2>2, UpdateDevice, ZenonT(60) DEF VirtualDevice
  <2>4. vgpu' = [vgpu EXCEPT ![v] = u] BY <2>2 DEF WaitCurrent, Basic, Types
  <2> QED BY <1>1, <2>3, <2>4, NewDeviceTypes
<1>6. done' \subseteq Commands
  <2>1. my[v].cmd \in Commands BY <1>0, InCallFacts
  <2> QED BY <2>1 DEF WaitCurrent, Basic, Types
<1>7. Types' BY <1>1, <1>2, <1>5, <1>6 DEF Types, Basic
<1>8. InCall' BY <1>0, <1>1, <1>2, <1>3, <1>4, InCallStays DEF Basic
<1> QED BY <1>7, <1>8

LEMMA StartCopyTypes ==
  ASSUME VirtualAssumptions, Basic, NEW v \in VGPUs, StartCopy(v)
  PROVE  Types' /\ InCall'
<1>0. Host(v) /\ todo[v] # <<>> /\ Do(v, "copy") BY DEF StartCopy, Host, Do
<1>1. /\ setup' = setup /\ created' = created /\ command' = command /\ memory' = memory
      /\ signal' = signal /\ vgpu' = vgpu /\ ring' = ring /\ done' = done
      /\ my' = [my EXCEPT ![v].packet = Nothing]
  BY DEF StartCopy
<1>2. todo' \in [VGPUs -> StepSeqs] /\ \A w \in VGPUs : w # v => todo'[w] = todo[w] BY <1>0, HostTodoTypes
<1>3. todo'[v] # <<>> => Head(todo'[v]) # "copy"
  <2>1. ~(GrowList(v) \/ ReuseSignal(v)) BY DEF StartCopy, GrowList, ReuseSignal, Do
  <2> QED BY <1>0, <2>1, CopyComesNext DEF Basic, Types
<1>4. created \in 0..MaxCommands /\ MaxCommands \in Nat BY SetupFacts DEF Basic, Types
<1>5. my' \in [VGPUs -> MyRecord] /\ my'[v].cmd = my[v].cmd /\ \A w \in VGPUs : w # v => my'[w] = my[w]
  BY <1>1, NewPacketTypes, UpdatePacket
<1>6. dma' \subseteq Copy
  <2>1. PICK p \in Packet, c \in Commands : p = my[v].packet /\ c = my[v].cmd BY <1>0, InCallFacts
  <2>2. p.signal \in Ticket BY <1>0, <2>1 DEF Basic, InCall
  <2>3. [cmd |-> c, deps |-> p.deps, signal |-> p.signal] \in Copy BY <2>2 DEF Packet, Copy
  <2>4. dma' = dma \cup {[cmd |-> c, deps |-> p.deps, signal |-> p.signal]} BY <2>1 DEF StartCopy
  <2> QED BY <2>3, <2>4 DEF Basic, Types
<1>7. ListTypes' BY <1>1, ListTypesStay DEF Basic, Types
<1>8. Types' BY <1>1, <1>2, <1>5, <1>6, <1>7 DEF Types, Basic
<1>9. InCall' BY <1>0, <1>1, <1>2, <1>3, <1>4, <1>5, InCallStays DEF Basic
<1> QED BY <1>8, <1>9

(* The list or the current place change. *)
LEMMA NewListTypes ==
  ASSUME VirtualAssumptions, Basic, NEW v \in VGPUs, setup' = setup,
         NEW l \in Seq(Pool), NEW i \in 1..Len(l), Len(l) \in ListSize..setup.listed,
         vgpu' = [vgpu EXCEPT ![v].list = l, ![v].current = i]
  PROVE  vgpu' \in [VGPUs -> VirtualDevice] /\ ListTypes'
<1>1. vgpu \in [VGPUs -> VirtualDevice] /\ ListTypes BY DEF Basic, Types
<1>2. PICK u : u = [vgpu[v] EXCEPT !.list = l, !.current = i] OBVIOUS
<1>3. u \in VirtualDevice /\ u.list = l /\ u.current = i
  <2>1. PICK n : n = Len(l) OBVIOUS
  <2>2. n \in Nat /\ i \in 1..n BY <2>1
  <2>3. i \in Nat BY ONLY <2>2
  <2>4. PICK d \in VirtualDevice : d = vgpu[v] BY <1>1
  <2>5. u = [d EXCEPT !.list = l, !.current = i] BY ONLY <2>4, <1>2
  <2>6. u \in VirtualDevice BY ONLY <2>3, <2>5, l \in Seq(Pool), d \in VirtualDevice, UpdateDevice
  <2>7. u.list = l /\ u.current = i BY ONLY <2>5, d \in VirtualDevice DEF VirtualDevice
  <2> QED BY <2>6, <2>7
<1>4. vgpu' = [vgpu EXCEPT ![v] = u] BY <1>2, <1>1
<1>5. vgpu'[v] = u /\ vgpu' \in [VGPUs -> VirtualDevice] /\ \A w \in VGPUs : w # v => vgpu'[w] = vgpu[w]
  BY ONLY <1>1, <1>3, <1>4, v \in VGPUs
<1>6. ASSUME NEW w \in VGPUs
      PROVE Len(vgpu'[w].list) \in ListSize..setup'.listed /\ vgpu'[w].current \in 1..Len(vgpu'[w].list)
  <2>1. CASE w = v BY <2>1, <1>3, <1>5
  <2>2. CASE w # v BY <2>2, <1>1, <1>5 DEF ListTypes
  <2> QED BY <2>1, <2>2
<1> QED BY <1>5, <1>6 DEF ListTypes

LEMMA CopyFailsTypes ==
  ASSUME VirtualAssumptions, Basic, NEW v \in VGPUs, CopyFails(v)
  PROVE  Types' /\ InCall'
<1>0. Host(v) /\ todo[v] # <<>> /\ Do(v, "copy") BY DEF CopyFails, Host, Do
<1>1. /\ setup' = setup /\ created' = created /\ command' = command /\ memory' = memory
      /\ ring' = ring /\ done' = done /\ dma' = dma
      /\ my' = [my EXCEPT ![v].packet = Nothing]
  BY DEF CopyFails
<1>2. todo' \in [VGPUs -> StepSeqs] /\ \A w \in VGPUs : w # v => todo'[w] = todo[w] BY <1>0, HostTodoTypes
<1>3. todo'[v] # <<>> => Head(todo'[v]) # "copy"
  <2>1. ~(GrowList(v) \/ ReuseSignal(v)) BY DEF CopyFails, GrowList, ReuseSignal, Do
  <2> QED BY <1>0, <2>1, CopyComesNext DEF Basic, Types
<1>4. created \in 0..MaxCommands /\ MaxCommands \in Nat BY SetupFacts DEF Basic, Types
<1>5. my' \in [VGPUs -> MyRecord] /\ my'[v].cmd = my[v].cmd /\ \A w \in VGPUs : w # v => my'[w] = my[w]
  BY <1>1, NewPacketTypes, UpdatePacket
<1>6. signal' \in [Signals -> [value : {0, 1}, uses : Nat]]
  <2>1. Current(v) \in Signals BY <1>0, InCallFacts, Kinds
  <2> QED BY <2>1, Tickets DEF CopyFails, Basic
<1>7. vgpu' \in [VGPUs -> VirtualDevice] /\ ListTypes'
  <2>1. PICK l \in Seq(Pool), i \in Nat : l = vgpu[v].list /\ i = vgpu[v].current BY <1>0, InCallFacts
  <2>2. PICK n \in Nat \ {0, 1, 2} : n = Len(l) BY <2>1, <1>0, InCallFacts
  <2>3. i \in 1..n BY <2>1, <2>2, <1>0, InCallFacts
  <2>4. PICK j : j = IF i = 1 THEN n ELSE i - 1 OBVIOUS
  <2>5. j \in 1..n BY ONLY <2>3, <2>4, n \in Nat \ {0, 1, 2}, i \in Nat
  <2>6. vgpu' = [vgpu EXCEPT ![v].current = j] BY <2>1, <2>2, <2>4 DEF CopyFails
  <2>7. vgpu' = [vgpu EXCEPT ![v].list = l, ![v].current = j]
    <3>1. vgpu \in [VGPUs -> VirtualDevice] BY DEF Basic, Types
    <3>2. [vgpu[v] EXCEPT !.list = l, !.current = j] = [vgpu[v] EXCEPT !.current = j]
      BY <3>1, <2>1 DEF VirtualDevice
    <3> QED BY <2>6, <3>1, <3>2
  <2>8. n \in ListSize..setup.listed BY <2>1, <2>2 DEF Basic, Types, ListTypes
  <2> QED BY <1>1, <2>2, <2>5, <2>7, <2>8, NewListTypes
<1>8. Types' BY <1>1, <1>2, <1>5, <1>6, <1>7 DEF Types, Basic
<1>9. InCall' BY <1>0, <1>1, <1>2, <1>3, <1>4, <1>5, InCallStays DEF Basic
<1> QED BY <1>8, <1>9

LEMMA NextPlaceOf ==
  ASSUME VirtualAssumptions, Basic, NEW v \in VGPUs, todo[v] # <<>>
  PROVE  /\ NextPlace(v) \in 1..Len(vgpu[v].list)
         /\ NextId(NextPlace(v), vgpu[v].list) \in 1..Len(vgpu[v].list)
         /\ Peeked(v) \in Pool
<1>1. PICK l \in Seq(Pool) : l = vgpu[v].list BY InCallFacts
<1>2. PICK n \in Nat \ {0, 1, 2} : n = Len(l) BY <1>1, InCallFacts
<1>3. PICK i \in 1..n : i = vgpu[v].current BY <1>1, <1>2, InCallFacts
<1>4. NextPlace(v) = (i % n) + 1 BY <1>1, <1>2, <1>3 DEF NextPlace, NextId
<1>5. PICK j : j = (i % n) + 1 OBVIOUS
<1>6. j \in 1..n /\ (j % n) + 1 \in 1..n BY ONLY <1>5, n \in Nat \ {0, 1, 2}, i \in 1..n
<1>7. NextId(NextPlace(v), vgpu[v].list) = (j % n) + 1 BY <1>1, <1>2, <1>4, <1>5 DEF NextId
<1>8. l[(j % n) + 1] \in Pool BY ONLY <1>6, <1>2, l \in Seq(Pool), ElementOfSeq
<1> QED BY ONLY <1>1, <1>2, <1>4, <1>5, <1>6, <1>7, <1>8 DEF Peeked

(* What is put into a sequence. *)
LEMMA Inserted ==
  ASSUME NEW S, NEW l \in Seq(S), NEW k \in 1..Len(l), NEW s \in S
  PROVE  /\ InsertAt(l, k, s) \in Seq(S) /\ Len(InsertAt(l, k, s)) = Len(l) + 1
         /\ \A i \in 1..Len(l) + 1 : InsertAt(l, k, s)[i] =
              IF i < k THEN l[i] ELSE IF i = k THEN s ELSE l[i - 1]
<1>1. PICK n \in Nat : n = Len(l) OBVIOUS
<1>0. k \in Nat /\ k >= 1 /\ k <= n /\ \A i \in 1..n : l[i] \in S BY <1>1, ElementOfSeq
<1>2. PICK a : a = SubSeq(l, 1, k - 1) OBVIOUS
<1>3. a \in Seq(S) /\ Len(a) = k - 1 /\ \A i \in 1..k - 1 : a[i] = l[i]
  <2>1. PICK j \in Int : j = k - 1 BY <1>0
  <2>2. \A i \in 1..j : l[i] \in S BY ONLY <2>1, <1>0, n \in Nat
  <2>3. /\ SubSeq(l, 1, j) \in Seq(S)
        /\ Len(SubSeq(l, 1, j)) = IF 1 <= j THEN j - 1 + 1 ELSE 0
        /\ \A i \in 1..j - 1 + 1 : SubSeq(l, 1, j)[i] = l[1 + i - 1]
    BY ONLY <2>2, SubSeqProperties, j \in Int, 1 \in Int
  <2>4. a \in Seq(S) /\ Len(a) = (IF 1 <= j THEN j - 1 + 1 ELSE 0) /\ \A i \in 1..j - 1 + 1 : a[i] = l[1 + i - 1]
    BY ONLY <2>1, <2>3, <1>2
  <2>5. j \in Nat BY ONLY <2>1, <1>0
  <2>6. Len(a) = j BY ONLY <2>4, <2>5
  <2>7. ASSUME NEW i \in 1..j PROVE a[i] = l[i]
    <3>1. i \in 1..j - 1 + 1 /\ 1 + i - 1 = i BY ONLY j \in Int, i \in 1..j
    <3> QED BY ONLY <3>1, <2>4
  <2> QED BY ONLY <2>1, <2>4, <2>6, <2>7
<1>4. PICK b : b = SubSeq(l, k, Len(l)) OBVIOUS
<1>5. b \in Seq(S) /\ Len(b) = n - k + 1 /\ \A i \in 1..n - k + 1 : b[i] = l[k + i - 1]
  <2>1. \A i \in k..n : l[i] \in S BY ONLY <1>0, n \in Nat
  <2>2. k \in Int /\ n \in Int BY ONLY <1>0, n \in Nat
  <2>3. /\ SubSeq(l, k, n) \in Seq(S)
        /\ Len(SubSeq(l, k, n)) = IF k <= n THEN n - k + 1 ELSE 0
        /\ \A i \in 1..n - k + 1 : SubSeq(l, k, n)[i] = l[k + i - 1]
    BY ONLY <2>1, <2>2, SubSeqProperties
  <2> QED BY ONLY <2>3, <1>0, <1>1, <1>4
<1>6. PICK c \in Seq(S) : c = <<s>> /\ Len(c) = 1 /\ c[1] = s
  <2>1. <<s>> \in Seq(S) /\ Len(<<s>>) = 1 /\ <<s>>[1] = s BY ONLY s \in S
  <2> QED BY ONLY <2>1
<1>7. PICK d : d = a \o c OBVIOUS
<1>8. d \in Seq(S) /\ Len(d) = k /\ \A i \in 1..k : d[i] = IF i < k THEN l[i] ELSE s
  <2>1. /\ d \in Seq(S) /\ Len(d) = Len(a) + Len(c)
        /\ \A i \in 1..Len(a) + Len(c) : d[i] = IF i <= Len(a) THEN a[i] ELSE c[i - Len(a)]
    BY ONLY <1>3, <1>7, ConcatProperties, c \in Seq(S)
  <2>2. Len(d) = k BY ONLY <2>1, <1>0, <1>3, <1>6
  <2>3. ASSUME NEW i \in 1..k PROVE d[i] = IF i < k THEN l[i] ELSE s
    <3>0. i \in 1..Len(a) + Len(c) BY ONLY <1>0, <1>3, <1>6, i \in 1..k
    <3>1. d[i] = IF i <= k - 1 THEN a[i] ELSE c[i - (k - 1)] BY ONLY <2>1, <1>3, <3>0
    <3>2. CASE i < k BY ONLY <3>1, <3>2, <1>0, <1>3, i \in 1..k
    <3>3. CASE i = k
      <4>1. i - (k - 1) = 1 /\ ~(i <= k - 1) BY ONLY <3>3, <1>0
      <4> QED BY ONLY <4>1, <3>1, <3>3, <1>6, <1>0
    <3> QED BY ONLY <3>2, <3>3, <1>0, i \in 1..k
  <2> QED BY ONLY <2>1, <2>2, <2>3
<1>9. PICK e : e = d \o b OBVIOUS
<1>10. e \in Seq(S) /\ Len(e) = n + 1
       /\ \A i \in 1..n + 1 : e[i] = IF i < k THEN l[i] ELSE IF i = k THEN s ELSE l[i - 1]
  <2>1. /\ e \in Seq(S) /\ Len(e) = Len(d) + Len(b)
        /\ \A i \in 1..Len(d) + Len(b) : e[i] = IF i <= Len(d) THEN d[i] ELSE b[i - Len(d)]
    BY ONLY <1>5, <1>8, <1>9, ConcatProperties
  <2>2. Len(e) = n + 1 /\ Len(d) + Len(b) = n + 1 BY ONLY <2>1, <1>0, <1>5, <1>8, n \in Nat
  <2>3. ASSUME NEW i \in 1..n + 1
        PROVE  e[i] = IF i < k THEN l[i] ELSE IF i = k THEN s ELSE l[i - 1]
    <3>1. e[i] = IF i <= k THEN d[i] ELSE b[i - k] BY ONLY <2>1, <2>2, <1>8, i \in 1..n + 1
    <3>2. CASE i <= k BY ONLY <3>1, <3>2, <1>0, <1>8, i \in 1..n + 1, n \in Nat
    <3>3. CASE i > k
      <4>1. i - k \in 1..n - k + 1 /\ k + (i - k) - 1 = i - 1 /\ ~(i <= k)
        BY ONLY <3>3, <1>0, n \in Nat, i \in 1..n + 1
      <4>2. b[i - k] = l[k + (i - k) - 1] BY ONLY <4>1, <1>5
      <4> QED BY ONLY <4>1, <4>2, <3>1, <3>3, <1>0, i \in 1..n + 1, n \in Nat
    <3> QED BY ONLY <3>2, <3>3, <1>0, i \in 1..n + 1, n \in Nat
  <2> QED BY ONLY <2>1, <2>2, <2>3
<1>11. e = InsertAt(l, k, s) BY ONLY <1>2, <1>4, <1>6, <1>7, <1>9 DEF InsertAt
<1> QED BY ONLY <1>1, <1>10, <1>11

LEMMA AttachTypes ==
  ASSUME VirtualAssumptions, Basic, NEW v \in VGPUs, GrowList(v) \/ ReuseSignal(v),
         NEW l \in Seq(Pool), NEW i \in 1..Len(l), Len(l) \in ListSize..setup.listed, Attach(v, l, i)
  PROVE  Types' /\ InCall'
<1>0. Host(v) /\ todo[v] # <<>> BY DEF GrowList, ReuseSignal, Host, Do
<1>1. /\ setup' = setup /\ created' = created /\ memory' = memory
      /\ ring' = ring /\ done' = done /\ dma' = dma
  BY DEF Attach
<1>2. todo' \in [VGPUs -> StepSeqs] /\ \A w \in VGPUs : w # v => todo'[w] = todo[w] BY <1>0, HostTodoTypes
<1>3. created \in 0..MaxCommands /\ MaxCommands \in Nat BY SetupFacts DEF Basic, Types
<1>4. PICK s \in Pool : s = l[i] BY ElementOfSeq
<1>5. s \in Signals /\ Armed(s) \in Ticket BY <1>0, Kinds, Tickets DEF Basic
<1>6. PICK p \in Packet : p = my[v].packet BY <1>0, InCallFacts
<1>7. PICK q \in Packet : q = [p EXCEPT !.signal = Armed(s)] /\ q.signal = Armed(s)
  <2>1. [p EXCEPT !.signal = Armed(s)] \in Packet BY <1>5, UpdatePacket
  <2>2. [p EXCEPT !.signal = Armed(s)].signal = Armed(s) BY DEF Packet
  <2> QED BY <2>1, <2>2
<1>8. my' = [my EXCEPT ![v].packet = q] BY <1>4, <1>6, <1>7 DEF Attach
<1>9. /\ my' \in [VGPUs -> MyRecord] /\ my'[v].cmd = my[v].cmd /\ my'[v].packet = q
      /\ \A w \in VGPUs : w # v => my'[w] = my[w]
  BY <1>8, NewPacketTypes
<1>10. signal' \in [Signals -> [value : {0, 1}, uses : Nat]] BY <1>4, <1>5, Tickets DEF Attach, Arm, Basic
<1>11. vgpu' \in [VGPUs -> VirtualDevice] /\ ListTypes' BY <1>1, NewListTypes DEF Attach
<1>12. command' \in [Commands -> CommandObject] /\ \A c \in Commands : command'[c].queue = command[c].queue
  <2>1. command \in [Commands -> CommandObject] BY DEF Basic, Types
  <2>2. CASE p.cmd # None /\ p.kind = "barrier"
    <3>1. PICK c \in Commands : c = p.cmd BY <2>2 DEF Packet
    <3>2. PICK d : d = [command[c] EXCEPT !.hwEvent = s] OBVIOUS
    <3>3. d \in CommandObject /\ d.queue = command[c].queue
      <4>1. command[c] \in CommandObject /\ s \in Pool \cup {None} BY <2>1
      <4>2. d \in CommandObject BY <4>1, <3>2, UpdateCommand
      <4> QED BY <4>1, <4>2, <3>2 DEF CommandObject
    <3>4. command' = [command EXCEPT ![c] = d] BY <2>2, <3>1, <3>2, <1>4, <1>6 DEF Attach
    <3> QED BY <2>1, <3>3, <3>4
  <2>3. CASE ~(p.cmd # None /\ p.kind = "barrier") BY <2>1, <2>3, <1>6 DEF Attach
  <2> QED BY <2>2, <2>3
<1>13. Types' BY <1>1, <1>2, <1>9, <1>10, <1>11, <1>12 DEF Types, Basic
<1>14. InCall' BY <1>0, <1>1, <1>2, <1>3, <1>5, <1>7, <1>9, <1>12, InCallStays DEF Basic
<1> QED BY <1>13, <1>14

(* A list may grow: there is a signal nobody refers to. *)
LEMMA GrowListNew ==
  ASSUME VirtualAssumptions, Basic, NEW v \in VGPUs, Len(vgpu[v].list) < setup.listed
  PROVE  NewSignal \in Pool /\ ~Exists(NewSignal)
<1>1. PICK n \in Nat : n = setup.listed BY SetupFacts DEF Basic, Types
<1>2. Len(vgpu[v].list) \in Nat BY DEF Basic, Types, VirtualDevice
<1>3. PICK p : p = <<"list", <<v, n>>>> OBVIOUS
<1>4. n \in 1..setup.listed BY <1>1, <1>2
<1>5. p \in RefPlaces BY <1>3, <1>4 DEF RefPlaces
<1>6. ASSUME NEW s \in Pool, Exists(s) PROVE \E x \in RefPlaces \ {p} : RefAt(s, x)
  <2>1. CASE \E w \in VGPUs : s \in Range(vgpu[w].list)
    <3>1. PICK w \in VGPUs : s \in Range(vgpu[w].list) BY <2>1
    <3>2. PICK i \in 1..Len(vgpu[w].list) : <<"list", <<w, i>>>> \in RefPlaces /\ RefAt(s, <<"list", <<w, i>>>>)
      BY <3>1, ExistsAt DEF Basic
    <3>3. <<"list", <<w, i>>>> # p
      <4> SUFFICES ASSUME <<"list", <<w, i>>>> = p PROVE FALSE OBVIOUS
      <4>1. w = v /\ i = n BY <1>3
      <4> QED BY <4>1, <1>1, <1>2
    <3> QED BY <3>2, <3>3
  <2>2. CASE \E c \in Commands : command[c].hwEvent = s
    <3>1. PICK c \in Commands : command[c].hwEvent = s BY <2>2
    <3>2. <<"event", c>> \in RefPlaces /\ RefAt(s, <<"event", c>>) BY <3>1, ExistsAt DEF Basic
    <3>3. <<"event", c>> # p BY <1>3
    <3> QED BY <3>2, <3>3
  <2> QED BY <1>6, <2>1, <2>2 DEF Exists, Retaining
<1> QED BY <1>5, <1>6, NewSignalIsNew DEF Basic

(* So there is when an event has the signal a place is used for. *)
LEMMA ReuseSignalNew ==
  ASSUME VirtualAssumptions, Basic, NEW v \in VGPUs, NEW s0 \in Pool, s0 \in Range(vgpu[v].list), Retaining(s0) # {}
  PROVE  NewSignal \in Pool /\ ~Exists(NewSignal)
<1>1. PICK c \in Commands : command[c].hwEvent = s0 BY DEF Retaining
<1>2. PICK p : p = <<"event", c>> OBVIOUS
<1>3. p \in RefPlaces BY <1>2 DEF RefPlaces
<1>4. ASSUME NEW s \in Pool, Exists(s) PROVE \E x \in RefPlaces \ {p} : RefAt(s, x)
  <2>1. CASE \E w \in VGPUs : s \in Range(vgpu[w].list)
    <3>1. PICK w \in VGPUs : s \in Range(vgpu[w].list) BY <2>1
    <3>2. PICK i \in 1..Len(vgpu[w].list) : <<"list", <<w, i>>>> \in RefPlaces /\ RefAt(s, <<"list", <<w, i>>>>)
      BY <3>1, ExistsAt DEF Basic
    <3>3. <<"list", <<w, i>>>> # p BY <1>2
    <3> QED BY <3>2, <3>3
  <2>2. CASE \E d \in Commands : command[d].hwEvent = s /\ d # c
    <3>1. PICK d \in Commands : command[d].hwEvent = s /\ d # c BY <2>2
    <3>2. <<"event", d>> \in RefPlaces /\ RefAt(s, <<"event", d>>) BY <3>1, ExistsAt DEF Basic
    <3>3. <<"event", d>> # p BY <1>2, <3>1
    <3> QED BY <3>2, <3>3
  <2>3. CASE command[c].hwEvent = s
    <3>1. s \in Range(vgpu[v].list) BY <2>3, <1>1
    <3> QED BY <3>1, <2>1
  <2> QED BY <1>4, <2>1, <2>2, <2>3 DEF Exists, Retaining
<1> QED BY <1>3, <1>4, NewSignalIsNew DEF Basic

(* The list and the place of the next signal. *)
LEMMA GrowListAttach ==
  ASSUME VirtualAssumptions, Basic, NEW v \in VGPUs, GrowList(v)
  PROVE  \E l \in Seq(Pool) : \E i \in 1..Len(l) :
           /\ Attach(v, l, i) /\ Len(l) \in ListSize..setup.listed
           /\ i = NextPlace(v) /\ l = InsertAt(vgpu[v].list, i, NewSignal) /\ l[i] = NewSignal
           /\ NewSignal \in Pool /\ ~Exists(NewSignal)
<1>0. todo[v] # <<>> /\ Len(vgpu[v].list) < setup.listed BY DEF GrowList, MayGrow, Do
<1>1. PICK m \in Seq(Pool) : m = vgpu[v].list BY <1>0, InCallFacts
<1>2. PICK i \in 1..Len(m) : i = NextPlace(v) BY <1>0, <1>1, NextPlaceOf
<1>3. PICK s \in Pool : s = NewSignal /\ ~Exists(s) BY <1>0, GrowListNew
<1>4. PICK l : l = InsertAt(m, i, s) OBVIOUS
<1>5. l \in Seq(Pool) /\ Len(l) = Len(m) + 1 /\ i \in 1..Len(m) + 1
      /\ \A j \in 1..Len(m) + 1 : l[j] = IF j < i THEN m[j] ELSE IF j = i THEN s ELSE m[j - 1]
  <2>1. i \in 1..Len(m) + 1 OBVIOUS
  <2>2. /\ InsertAt(m, i, s) \in Seq(Pool) /\ Len(InsertAt(m, i, s)) = Len(m) + 1
        /\ \A j \in 1..Len(m) + 1 : InsertAt(m, i, s)[j] =
              IF j < i THEN m[j] ELSE IF j = i THEN s ELSE m[j - 1]
    BY ONLY Inserted, m \in Seq(Pool), i \in 1..Len(m), s \in Pool
  <2> QED BY ONLY <2>1, <2>2, <1>4
<1>6. l[i] = s
  <2>1. ~(i < i) OBVIOUS
  <2> QED BY ONLY <2>1, <1>5
<1>7. Len(l) \in ListSize..setup.listed
  <2>1. PICK n \in Nat, a \in Nat, b \in Nat : n = Len(m) /\ a = ListSize /\ b = setup.listed
    BY SetupFacts DEF Basic, Types
  <2>2. n \in a..b /\ n < b BY <2>1, <1>0, <1>1 DEF Basic, Types, ListTypes
  <2>3. n + 1 \in a..b BY ONLY <2>2, n \in Nat, a \in Nat, b \in Nat
  <2> QED BY ONLY <2>1, <2>3, <1>5
<1>8. Attach(v, l, i) BY <1>1, <1>2, <1>3, <1>4 DEF GrowList
<1> QED BY <1>1, <1>2, <1>3, <1>4, <1>5, <1>6, <1>7, <1>8

LEMMA ReuseSignalAttach ==
  ASSUME VirtualAssumptions, Basic, NEW v \in VGPUs, ReuseSignal(v)
  PROVE  \E l \in Seq(Pool) : \E i \in 1..Len(l) :
           /\ Attach(v, l, i) /\ Len(l) \in ListSize..setup.listed
           /\ i = NextPlace(v) /\ Len(l) = Len(vgpu[v].list)
           /\ ~Busy(vgpu[v].list[i]) /\ ~Busy(Peeked(v))
           /\ \/ l = vgpu[v].list /\ Retaining(l[i]) = {}
              \/ l = [vgpu[v].list EXCEPT ![i] = NewSignal] /\ NewSignal \in Pool /\ ~Exists(NewSignal)
<1>0. todo[v] # <<>> BY DEF ReuseSignal, Do
<1>1. PICK m \in Seq(Pool) : m = vgpu[v].list BY <1>0, InCallFacts
<1>2. PICK i \in 1..Len(m) : i = NextPlace(v) BY <1>0, <1>1, NextPlaceOf
<1>3. Len(m) \in ListSize..setup.listed BY <1>1 DEF Basic, Types, ListTypes
<1>4. /\ ~Busy(m[i]) /\ ~Busy(Peeked(v))
      /\ Attach(v, IF Retaining(m[i]) # {} THEN [m EXCEPT ![i] = NewSignal] ELSE m, i)
  BY <1>1, <1>2 DEF ReuseSignal
<1>5. CASE Retaining(m[i]) = {} BY <1>1, <1>2, <1>3, <1>4, <1>5
<1>6. CASE Retaining(m[i]) # {}
  <2>1. m[i] \in Pool /\ m[i] \in Range(vgpu[v].list) BY <1>1, ElementOfSeq DEF Range
  <2>2. NewSignal \in Pool /\ ~Exists(NewSignal) BY <2>1, <1>6, ReuseSignalNew
  <2>3. PICK l : l = [m EXCEPT ![i] = NewSignal] OBVIOUS
  <2>4. l \in Seq(Pool) /\ Len(l) = Len(m) BY ONLY <2>2, <2>3, m \in Seq(Pool), i \in 1..Len(m), ExceptSeq
  <2>5. i \in 1..Len(l) BY <2>4
  <2>6. Attach(v, l, i) BY <1>4, <1>6, <2>3
  <2> QED BY <1>1, <1>2, <1>3, <1>4, <2>2, <2>3, <2>4, <2>5, <2>6
<1> QED BY <1>5, <1>6

LEMMA SignalTypes ==
  ASSUME VirtualAssumptions, Basic, NEW v \in VGPUs, GrowList(v) \/ ReuseSignal(v)
  PROVE  Types' /\ InCall'
BY GrowListAttach, ReuseSignalAttach, AttachTypes

----------------------------------------
(* Types: the steps of the GPU and of the application. *)

(* A step that leaves the calls alone. *)
LEMMA CallsStay ==
  ASSUME InCall, todo' = todo, my' = my, created' = created,
         \A c \in 1..created : command'[c].queue = command[c].queue
  PROVE  InCall'
BY DEF InCall, Do, Ticket, Signals, Pool, ChunkSignals, Chunks

LEMMA PlansStay ==
  ASSUME Plans, todo' = todo
  PROVE  Plans'
BY DEF Plans

LEMMA LoweredTypes ==
  ASSUME Types, NEW t \in Ticket \cup {NoTicket}
  PROVE  Lowered(t) \in [Signals -> [value : {0, 1}, uses : Nat]]
<1>1. CASE t = NoTicket BY <1>1 DEF Types, Lowered
<1>2. CASE t # NoTicket
  <2>1. PICK s \in Signals : s = t.signal BY <1>2 DEF Ticket
  <2> QED BY <1>2, <2>1, Tickets DEF Lowered
<1> QED BY <1>1, <1>2

LEMMA FinishedTypes ==
  ASSUME Types, NEW c \in Commands \cup {None}, Finished(c)
  PROVE  done' \subseteq Commands
BY DEF Finished, Types

(* The slot of a sequence number, and what is in it. *)
LEMMA SlotFacts ==
  ASSUME VirtualAssumptions, Types, NEW h \in HwQueues
  PROVE  /\ ring[h] \in RingRecord /\ ring[h].read \in Nat /\ ring[h].write \in Nat
         /\ ring[h].running \in Packet \cup {None}
         /\ ring[h].slot \in [0..RingSize - 1 -> Packet \cup {None}]
         /\ \A i \in Nat : i % RingSize \in 0..RingSize - 1
         /\ ring[h].read % RingSize \in 0..RingSize - 1
         /\ AtHead(h) \in Packet \cup {None}
<1>1. ring[h] \in RingRecord BY DEF Types
<1>2. RingSize \in Nat \ {0, 1} BY SetupFacts DEF Types
<1>3. ring[h].read \in Nat /\ ring[h].write \in Nat /\ ring[h].running \in Packet \cup {None}
      /\ ring[h].slot \in [0..RingSize - 1 -> Packet \cup {None}]
  BY <1>1 DEF RingRecord
<1>4. \A i \in Nat : i % RingSize \in 0..RingSize - 1 BY <1>2
<1>5. ring[h].read % RingSize \in 0..RingSize - 1 BY <1>3, <1>4
<1>6. AtHead(h) \in Packet \cup {None} BY ONLY <1>3, <1>5 DEF AtHead
<1> QED BY <1>1, <1>3, <1>4, <1>5, <1>6

(* What is consumed. *)
LEMMA ConsumedRing ==
  ASSUME VirtualAssumptions, Types, NEW h \in HwQueues, NEW x \in Packet \cup {None}, ring' = Consumed(h, x)
  PROVE  /\ ring' \in [HwQueues -> RingRecord]
         /\ ring'[h].read = ring[h].read + 1 /\ ring'[h].write = ring[h].write /\ ring'[h].running = x
         /\ ring'[h].slot = [ring[h].slot EXCEPT ![ring[h].read % RingSize] = None]
         /\ \A g \in HwQueues : g # h => ring'[g] = ring[g]
<1>1. ring \in [HwQueues -> RingRecord] BY DEF Types
<1>2. PICK i \in Nat, k \in 0..RingSize - 1 : i = ring[h].read /\ k = ring[h].read % RingSize BY SlotFacts
<1>3. PICK q \in RingRecord : q = ring[h] BY <1>1
<1>4. PICK s \in [0..RingSize - 1 -> Packet \cup {None}] : s = [q.slot EXCEPT ![k] = None]
  BY ONLY q \in RingRecord, k \in 0..RingSize - 1 DEF RingRecord
<1>5. PICK r : r = [q EXCEPT !.read = i + 1, !.slot = s, !.running = x] OBVIOUS
<1>6. r.read = i + 1 /\ r.write = q.write /\ r.running = x /\ r.slot = s
  BY ONLY <1>5, q \in RingRecord DEF RingRecord
<1>7. r \in RingRecord
  <2>1. PICK n \in Nat : n = i + 1 OBVIOUS
  <2>2. PICK T, U : T = [0..RingSize - 1 -> Packet \cup {None}] /\ U = Packet \cup {None} OBVIOUS
  <2>3. RingRecord = [write : Nat, read : Nat, running : U, slot : T] BY ONLY <2>2 DEF RingRecord
  <2>4. s \in T /\ x \in U /\ r = [q EXCEPT !.read = n, !.slot = s, !.running = x]
    BY ONLY <1>5, <2>1, <2>2, s \in [0..RingSize - 1 -> Packet \cup {None}], x \in Packet \cup {None}
  <2> QED BY ONLY <2>3, <2>4, n \in Nat, q \in RingRecord
<1>8. ring' = [ring EXCEPT ![h] = r]
  <2>1. ring' = [ring EXCEPT ![h].read = @ + 1, ![h].slot[ring[h].read % RingSize] = None, ![h].running = x]
    BY DEF Consumed
  <2>2. [q EXCEPT !.read = i + 1, !.slot[k] = None, !.running = x] = r
    BY ONLY <1>4, <1>5, q \in RingRecord DEF RingRecord
  <2>3. ring' = [ring EXCEPT ![h] = [q EXCEPT !.read = i + 1, !.slot[k] = None, !.running = x]]
    BY ONLY <2>1, <1>1, <1>2, <1>3, h \in HwQueues
  <2> QED BY ONLY <2>2, <2>3
<1>9. ring' \in [HwQueues -> RingRecord] /\ ring'[h] = r /\ \A g \in HwQueues : g # h => ring'[g] = ring[g]
  BY ONLY <1>1, <1>7, <1>8, h \in HwQueues
<1>10. ring'[h].slot = [ring[h].slot EXCEPT ![ring[h].read % RingSize] = None]
  <2>1. ring'[h].slot = [q.slot EXCEPT ![k] = None] BY ONLY <1>4, <1>6, <1>9
  <2> QED BY ONLY <2>1, <1>2, <1>3
<1> QED BY ONLY <1>2, <1>3, <1>6, <1>9, <1>10

LEMMA ProcessorTypes ==
  ASSUME VirtualAssumptions, Basic, NEW h \in HwQueues, Processor(h)
  PROVE  Types' /\ InCall' /\ Plans'
<1>1. /\ setup' = setup /\ created' = created /\ command' = command /\ vgpu' = vgpu /\ memory' = memory
      /\ dma' = dma /\ todo' = todo /\ my' = my
  BY DEF Processor, StartKernel, EndKernel, PassBarrier
<1>2. InCall' /\ Plans' /\ ListTypes' BY <1>1, CallsStay, PlansStay, ListTypesStay DEF Basic, Types
<1>3. /\ ring' \in [HwQueues -> RingRecord]
      /\ signal' \in [Signals -> [value : {0, 1}, uses : Nat]] /\ done' \subseteq Commands
  <2>0. Types BY DEF Basic
  <2>1. CASE StartKernel(h)
    <3>1. AtHead(h) \in Packet \cup {None} BY <2>0, SlotFacts
    <3>2. ring' \in [HwQueues -> RingRecord] BY <2>0, <2>1, <3>1, ConsumedRing DEF StartKernel
    <3> QED BY <2>0, <2>1, <3>2 DEF StartKernel, Types
  <2>2. CASE PassBarrier(h)
    <3>1. PICK p \in Packet : p = AtHead(h) BY <2>0, <2>2, SlotFacts DEF PassBarrier, Ready
    <3>2. ring' \in [HwQueues -> RingRecord] BY <2>0, <2>2, ConsumedRing DEF PassBarrier
    <3>3. p.signal \in Ticket \cup {NoTicket} /\ p.cmd \in Commands \cup {None} BY DEF Packet
    <3> QED BY <2>0, <2>2, <3>1, <3>2, <3>3, LoweredTypes, FinishedTypes DEF PassBarrier
  <2>3. CASE EndKernel(h)
    <3>1. PICK p \in Packet : p = ring[h].running BY <2>0, <2>3, SlotFacts DEF EndKernel
    <3>2. p.signal \in Ticket \cup {NoTicket} /\ p.cmd \in Commands \cup {None} BY DEF Packet
    <3>3. ring' \in [HwQueues -> RingRecord]
      <4>1. ring \in [HwQueues -> RingRecord] BY <2>0 DEF Types
      <4>2. PICK r : r = [ring[h] EXCEPT !.running = None] OBVIOUS
      <4>3. r \in RingRecord BY <4>1, <4>2 DEF RingRecord
      <4>4. ring' = [ring EXCEPT ![h] = r] BY <2>3, <4>2 DEF EndKernel
      <4> QED BY ONLY <4>1, <4>3, <4>4, h \in HwQueues
    <3> QED BY <2>0, <2>3, <3>1, <3>2, <3>3, LoweredTypes, FinishedTypes DEF EndKernel
  <2> QED BY <2>1, <2>2, <2>3 DEF Processor
<1>4. Types' BY <1>1, <1>2, <1>3 DEF Types, Basic
<1> QED BY <1>2, <1>4

LEMMA RunCopyTypes ==
  ASSUME VirtualAssumptions, Basic, NEW x \in dma, RunCopy(x)
  PROVE  Types' /\ InCall' /\ Plans'
<1>1. /\ setup' = setup /\ created' = created /\ command' = command /\ vgpu' = vgpu /\ memory' = memory
      /\ ring' = ring /\ todo' = todo /\ my' = my /\ dma' = dma \ {x}
  BY DEF RunCopy
<1>2. InCall' /\ Plans' /\ ListTypes' BY <1>1, CallsStay, PlansStay, ListTypesStay DEF Basic, Types
<1>3. x.signal \in Ticket \cup {NoTicket} /\ x.cmd \in Commands \cup {None} BY DEF Basic, Types, Copy
<1>4. Types BY DEF Basic
<1>5. signal' \in [Signals -> [value : {0, 1}, uses : Nat]] /\ done' \subseteq Commands
  BY <1>3, <1>4, LoweredTypes, FinishedTypes DEF RunCopy
<1>6. Types' BY <1>1, <1>2, <1>4, <1>5 DEF Types
<1> QED BY <1>2, <1>6

LEMMA ReleaseEventTypes ==
  ASSUME VirtualAssumptions, Basic, NEW c \in Commands, ReleaseEvent(c)
  PROVE  Types' /\ InCall' /\ Plans'
<1>1. /\ setup' = setup /\ created' = created /\ vgpu' = vgpu /\ memory' = memory /\ signal' = signal
      /\ ring' = ring /\ todo' = todo /\ my' = my /\ dma' = dma /\ done' = done
  BY DEF ReleaseEvent
<1>2. command' \in [Commands -> CommandObject] /\ \A d \in Commands : command'[d].queue = command[d].queue
  <2>1. command \in [Commands -> CommandObject] BY DEF Basic, Types
  <2>2. PICK d : d = [command[c] EXCEPT !.hwEvent = None] OBVIOUS
  <2>3. d \in CommandObject BY <2>1, <2>2, UpdateCommand
  <2>4. d.queue = command[c].queue BY <2>1, <2>2 DEF CommandObject
  <2>5. command' = [command EXCEPT ![c] = d] BY <2>2 DEF ReleaseEvent
  <2> QED BY <2>1, <2>3, <2>4, <2>5
<1>3. \A d \in 1..created : command'[d].queue = command[d].queue
  <2>1. created \in 0..MaxCommands /\ MaxCommands \in Nat BY SetupFacts DEF Basic, Types
  <2> QED BY <2>1, <1>2 DEF Commands
<1>4. InCall' /\ Plans' /\ ListTypes' BY <1>1, <1>3, CallsStay, PlansStay, ListTypesStay DEF Basic, Types
<1>5. Types' BY <1>1, <1>2, <1>4 DEF Types, Basic
<1> QED BY <1>4, <1>5

LEMMA SubmitTypes ==
  ASSUME VirtualAssumptions, Basic, NEW v \in VGPUs, NEW op \in Operations, NEW W \in SUBSET Commands,
         Submit(v, op, W)
  PROVE  Types' /\ InCall' /\ Plans'
<1>1. /\ setup' = setup /\ memory' = memory /\ signal' = signal
      /\ ring' = ring /\ dma' = dma /\ done' = done
  BY DEF Submit
<1>2. PICK n \in Nat : n = setup.commands /\ n \in 0..MaxCommands /\ MaxCommands \in Nat
  BY SetupFacts DEF Basic, Types
<1>3. PICK c \in Commands : c = created + 1 /\ created' = c /\ c \in 0..n /\ created \in 0..n
  <2>1. created \in 0..n /\ created < n /\ created' = created + 1 BY <1>2 DEF Submit, Basic, Types
  <2>2. created + 1 \in 1..MaxCommands /\ created + 1 \in 0..n BY ONLY <2>1, <1>2, n \in Nat
  <2> QED BY <2>1, <2>2 DEF Commands
<1>4. /\ command' \in [Commands -> CommandObject] /\ command'[c].queue = v
      /\ \A d \in Commands : d # c => command'[d] = command[d]
  <2>1. command \in [Commands -> CommandObject] BY DEF Basic, Types
  <2>2. PICK d : d = [command[c] EXCEPT !.queue = v, !.op = op, !.waits = W] OBVIOUS
  <2>3. d \in CommandObject BY <2>1, <2>2, UpdateCommand
  <2>4. d.queue = v BY <2>1, <2>2 DEF CommandObject
  <2>5. command' = [command EXCEPT ![c] = d] BY <2>1, <2>2, <1>3 DEF Submit
  <2> QED BY <2>1, <2>3, <2>4, <2>5
<1>5. vgpu' \in [VGPUs -> VirtualDevice] /\ ListTypes'
  <2>1. CASE op = "flush"
    <3>1. vgpu' = vgpu BY <2>1 DEF Submit
    <3> QED BY <1>1, <3>1, ListTypesStay DEF Basic, Types
  <2>2. CASE op # "flush"
    <3>1. PICK X : X = {command[e].hwEvent : e \in W} OBVIOUS
    <3>2. X \in SUBSET Pool
      <4>1. \A e \in W : command[e].hwEvent # None BY DEF Submit
      <4>2. \A e \in W : command[e].hwEvent \in Pool BY <4>1 DEF Basic, Types, CommandObject
      <4> QED BY <3>1, <4>2
    <3>3. vgpu[v] \in VirtualDevice BY DEF Basic, Types
    <3>4. PICK u : u = [vgpu[v] EXCEPT !.external = X] OBVIOUS
    <3>5. u \in VirtualDevice BY <3>2, <3>3, <3>4, UpdateDevice
    <3>6. u.list = vgpu[v].list /\ u.current = vgpu[v].current BY <3>3, <3>4 DEF VirtualDevice
    <3>7. vgpu' = [vgpu EXCEPT ![v] = u] BY <2>2, <3>1, <3>4 DEF Submit
    <3> QED BY <1>1, <3>5, <3>6, <3>7, NewDeviceTypes
  <2> QED BY <2>1, <2>2
<1>6. /\ my' \in [VGPUs -> MyRecord] /\ my'[v].cmd = c /\ \A w \in VGPUs : w # v => my'[w] = my[w]
  <2>1. my \in [VGPUs -> MyRecord] BY DEF Basic, Types
  <2>2. PICK m : m = [my[v] EXCEPT !.cmd = c] OBVIOUS
  <2>3. m \in MyRecord BY <2>1, <2>2, UpdateMy
  <2>4. m.cmd = c BY <2>1, <2>2 DEF MyRecord
  <2>5. my' = [my EXCEPT ![v] = m] BY <2>2, <1>3 DEF Submit
  <2> QED BY <2>1, <2>3, <2>4, <2>5
<1>7. /\ todo' \in [VGPUs -> StepSeqs] /\ Planned(todo'[v]) /\ Head(todo'[v]) # "copy"
      /\ \A w \in VGPUs : w # v => todo'[w] = todo[w]
  <2>1. PICK s \in StepSeqs : s = Call[op] /\ Planned(s) /\ Head(s) \in {"alloc", "barrier", "fence"}
    BY CallIsPlan DEF VirtualAssumptions
  <2>2. todo' = [todo EXCEPT ![v] = s] BY <2>1 DEF Submit
  <2>3. todo \in [VGPUs -> StepSeqs] BY DEF Basic, Types
  <2> QED BY ONLY <2>1, <2>2, <2>3, v \in VGPUs
<1>8. Plans' BY <1>7 DEF Plans, Basic
<1>9. InCall'
  <2> SUFFICES ASSUME NEW w \in VGPUs, todo'[w] # <<>>
               PROVE  /\ my'[w].cmd \in 1..created' /\ command'[my'[w].cmd].queue = w
                      /\ Head(todo'[w]) = "copy" => my'[w].packet.signal \in Ticket
    BY DEF InCall, Do, Ticket, Signals, Pool, ChunkSignals, Chunks
  <2>1. CASE w = v BY <2>1, <1>3, <1>4, <1>6, <1>7 DEF Commands
  <2>2. CASE w # v
    <3>1. todo[w] # <<>> /\ todo'[w] = todo[w] /\ my'[w] = my[w] BY <2>2, <1>6, <1>7
    <3>2. /\ my[w].cmd \in 1..created /\ command[my[w].cmd].queue = w
          /\ Head(todo[w]) = "copy" => my[w].packet.signal \in Ticket
      BY <3>1 DEF Basic, InCall, Do
    <3>3. my[w].cmd \in Commands /\ my[w].cmd # c /\ my[w].cmd \in 1..c
      BY ONLY <3>2, <1>2, <1>3 DEF Commands
    <3>4. command'[my[w].cmd] = command[my[w].cmd] BY <3>3, <1>4
    <3> QED BY <3>1, <3>2, <3>3, <3>4, <1>3
  <2> QED BY <2>1, <2>2
<1>10. Types'
  <2>1. created' \in 0..setup'.commands BY <1>1, <1>2, <1>3
  <2> QED BY <2>1, <1>1, <1>4, <1>5, <1>6, <1>7 DEF Types, Basic
<1> QED BY <1>8, <1>9, <1>10

----------------------------------------
(* The initial state. *)

LEMMA Monotone ==
  ASSUME NEW a \in Nat, NEW b \in Nat, NEW c \in Nat, a <= b
  PROVE  a * c <= b * c /\ a * c \in Nat /\ b * c \in Nat
<1>1. PICK d \in Nat : b = a + d
  <2>1. b - a \in Nat /\ b = a + (b - a) OBVIOUS
  <2> QED BY <2>1
<1>2. d * c \in Nat /\ a * c \in Nat /\ b * c \in Nat OBVIOUS
<1>3. b * c = a * c + d * c BY <1>1
<1> QED BY ONLY <1>2, <1>3

(* The devices in an order, and the signals each has of its own. *)
Order(v) == CHOOSE i \in 1..Cardinality(VGPUs) : SetToSeq(VGPUs)[i] = v

LEMMA OrderIsOne ==
  ASSUME VirtualAssumptions
  PROVE  /\ \A v \in VGPUs : Order(v) \in 1..Cardinality(VGPUs)
         /\ \A v, w \in VGPUs : Order(v) = Order(w) => v = w
<1>1. IsFiniteSet(VGPUs) BY DEF VirtualAssumptions, VirtualGPUAssumption
<1>2. PICK n \in Nat : n = Cardinality(VGPUs) /\ ExistsBijection(1..n, VGPUs) BY <1>1, FS_CardinalityType
<1>3. PICK f \in [1..n -> VGPUs] : IsInjective(f) BY <1>2 DEF ExistsBijection, Bijection, Injection
<1>4. PICK g : g = SetToSeq(VGPUs) OBVIOUS
<1>5. g \in [1..n -> VGPUs] /\ IsInjective(g) BY <1>2, <1>3, <1>4 DEF SetToSeq
<1>6. \A v \in VGPUs : \E i \in 1..n : g[i] = v
  <2>1. g \in Injection(1..n, VGPUs) BY <1>5 DEF Injection
  <2>2. IsFiniteSet(1..n) /\ Cardinality(1..n) = n
    <3>1. 1 \in Int /\ n \in Int /\ n \in Nat OBVIOUS
    <3> QED BY ONLY <3>1, FS_Interval
  <2>3. g \in Surjection(1..n, VGPUs) BY ONLY <2>1, <2>2, <1>1, <1>2, FS_Injection
  <2> QED BY ONLY <2>3 DEF Surjection
<1>7. \A v \in VGPUs : Order(v) \in 1..n /\ g[Order(v)] = v BY <1>2, <1>4, <1>6 DEF Order
<1> QED BY <1>2, <1>7

LEMMA InitialLists ==
  ASSUME VirtualAssumptions, setup \in Setups, NEW v \in VGPUs
  PROVE  /\ InitialList(v) \in Seq(Pool) /\ Len(InitialList(v)) = ListSize
         /\ \A i \in 1..ListSize : InitialList(v)[i] = <<"pool", (Order(v) - 1) * ListSize + i>>
<1>1. PICK l, n, m \in Nat : l = ListSize /\ n = Cardinality(VGPUs) /\ m = MaxSignals
  BY SetupFacts, FS_CardinalityType DEF VirtualAssumptions, VirtualGPUAssumption
<1>2. m >= setup.listed * n + MaxCommands /\ setup.listed \in Nat /\ setup.listed >= l /\ MaxCommands \in Nat
  BY <1>1, SetupFacts
<1>3. PICK o \in 1..n : o = Order(v) BY <1>1, OrderIsOne
<1>4. l * n <= setup.listed * n /\ setup.listed * n \in Nat /\ l * n \in Nat BY <1>2, Monotone
<1>5. o * l <= n * l /\ o * l \in Nat BY Monotone
<1>6. n * l = l * n /\ (o - 1) * l = o * l - l /\ (o - 1) * l \in Nat
  <2>1. o - 1 \in Nat OBVIOUS
  <2>2. (o - 1) * l \in Nat BY ONLY <2>1, l \in Nat
  <2> QED BY <2>2
<1>7. ASSUME NEW i \in 1..l PROVE (o - 1) * l + i \in 1..m
  <2>1. (o - 1) * l + i <= o * l BY ONLY <1>5, <1>6, l \in Nat, i \in 1..l
  <2> QED BY ONLY <2>1, <1>2, <1>4, <1>5, <1>6, l \in Nat, n \in Nat, m \in Nat, i \in 1..l, o \in 1..n
<1>8. \A i \in 1..l : <<"pool", (o - 1) * l + i>> \in Pool BY <1>1, <1>7 DEF Pool
<1>9. PICK s : s = [i \in 1..l |-> <<"pool", (o - 1) * l + i>>] OBVIOUS
<1>10. s \in Seq(Pool) /\ Len(s) = l /\ \A i \in 1..l : s[i] = <<"pool", (o - 1) * l + i>>
  <2>1. s \in [1..l -> Pool] BY ONLY <1>8, <1>9
  <2>2. s \in Seq(Pool) /\ Len(s) = l BY ONLY <2>1, l \in Nat
  <2> QED BY ONLY <2>2, <1>9
<1>11. InitialList(v) = s BY <1>1, <1>3, <1>9 DEF InitialList, Order
<1> QED BY ONLY <1>1, <1>3, <1>10, <1>11

LEMMA InitBasic ==
  ASSUME VirtualAssumptions, Init
  PROVE  Basic
<1>1. setup \in Setups /\ created \in 0..setup.commands
  <2>1. setup \in Setups /\ created = 0 BY DEF Init
  <2>2. PICK n \in Nat : n = setup.commands BY <2>1, SetupFacts
  <2> QED BY <2>1, <2>2
<1>2. command \in [Commands -> CommandObject] BY DEF Init, CommandObject
<1>3. vgpu \in [VGPUs -> VirtualDevice] /\ ListTypes
  <2>1. NumChunks \in Nat \ {0, 1} /\ ChunkSize \in Nat \ {0} /\ ListSize \in Nat \ {0, 1, 2} /\ setup.listed \in Nat
        /\ setup.listed >= ListSize
    BY <1>1, SetupFacts
  <2>2. 0 \in Chunks /\ 0 \in 0..ChunkSize /\ 1 \in 1..ListSize /\ ListSize \in ListSize..setup.listed
    BY <2>1 DEF Chunks
  <2>3. \A v \in VGPUs : InitialList(v) \in Seq(Pool) /\ Len(InitialList(v)) = ListSize
    BY <1>1, InitialLists
  <2>4. vgpu = [v \in VGPUs |-> [list |-> InitialList(v), current |-> 1, engine |-> "Unknown", external |-> {},
        pending |-> FALSE, chunk |-> 0, used |-> 0]]
    BY DEF Init
  <2>5. \A v \in VGPUs : vgpu[v].list = InitialList(v) /\ vgpu[v].current = 1 BY <2>4
  <2>6. ListTypes BY <2>2, <2>3, <2>5 DEF ListTypes
  <2>7. vgpu \in [VGPUs -> VirtualDevice] BY ONLY <2>2, <2>3, <2>4 DEF VirtualDevice
  <2> QED BY <2>6, <2>7
<1>4. memory \in [VGPUs -> [Places -> Commands \cup {None}]] BY DEF Init
<1>5. signal \in [Signals -> [value : {0, 1}, uses : Nat]] BY DEF Init
<1>6. ring \in [HwQueues -> RingRecord] BY DEF Init, RingRecord
<1>7. todo \in [VGPUs -> StepSeqs] /\ \A v \in VGPUs : todo[v] = <<>> BY ConsSteps DEF Init
<1>8. my \in [VGPUs -> MyRecord] BY UpdatePacket DEF Init, MyRecord
<1>9. Types BY <1>1, <1>2, <1>3, <1>4, <1>5, <1>6, <1>7, <1>8 DEF Types, Init
<1>10. Plans /\ InCall BY <1>7 DEF Plans, InCall, Planned
<1> QED BY <1>9, <1>10 DEF Basic

LEMMA HostBasic ==
  ASSUME VirtualAssumptions, Basic, NEW v \in VGPUs, Host(v)
  PROVE  Basic'
<1>1. Plans' BY HostTodoTypes
<1>2. Types' /\ InCall'
  BY AllocTypes, NextChunkTypes, WaitTypes, SignalTypes, ReservedTypes, WriteTypes, FenceTypes,
     WaitCurrentTypes, StartCopyTypes, CopyFailsTypes DEF Host
<1> QED BY <1>1, <1>2 DEF Basic

LEMMA NextBasic ==
  ASSUME VirtualAssumptions, Basic, [Next]_vars
  PROVE  Basic'
<1>1. CASE UNCHANGED vars
  <2>1. /\ setup' = setup /\ created' = created /\ command' = command /\ vgpu' = vgpu /\ memory' = memory
        /\ signal' = signal /\ ring' = ring /\ dma' = dma /\ done' = done /\ todo' = todo /\ my' = my
    BY <1>1 DEF vars
  <2>2. InCall' /\ Plans' /\ ListTypes' BY <2>1, CallsStay, PlansStay, ListTypesStay DEF Basic, Types
  <2> QED BY <2>1, <2>2 DEF Basic, Types
<1>2. ASSUME NEW v \in VGPUs, Host(v) PROVE Basic' BY <1>2, HostBasic
<1>3. ASSUME NEW h \in HwQueues, Processor(h) PROVE Basic' BY <1>3, ProcessorTypes DEF Basic
<1>4. ASSUME Dma PROVE Basic' BY <1>4, RunCopyTypes DEF Basic, Dma
<1>5. ASSUME Application PROVE Basic'
  <2>1. ASSUME NEW v \in VGPUs, NEW op \in Operations, NEW W \in {{}} \cup {{e} : e \in Commands},
               Submit(v, op, W)
        PROVE  Basic'
    <3>1. W \in SUBSET Commands OBVIOUS
    <3> QED BY <2>1, <3>1, SubmitTypes DEF Basic
  <2>2. ASSUME NEW c \in Commands, ReleaseEvent(c) PROVE Basic' BY <2>2, ReleaseEventTypes DEF Basic
  <2> QED BY <1>5, <2>1, <2>2 DEF Application
<1> QED BY <1>1, <1>2, <1>3, <1>4, <1>5 DEF Next

----------------------------------------
(* The ring: numbers and slots. *)

LEMMA Division ==
  ASSUME NEW k \in Nat \ {0}, NEW n \in Nat
  PROVE  n \div k \in Nat /\ n % k \in 0..k - 1 /\ n = k * (n \div k) + (n % k)
OBVIOUS

(* Numbers with the same slot are a whole ring apart. *)
LEMMA Apart ==
  ASSUME NEW k \in Nat \ {0}, NEW n \in Nat, NEW m \in Nat, n % k = m % k, m < n
  PROVE  n - m >= k
<1>0. PICK r : r = n % k OBVIOUS
<1>1. PICK a \in Nat, b \in Nat : n = k * a + r /\ m = k * b + r /\ r \in Nat
  <2>1. n \div k \in Nat /\ n % k \in 0..k - 1 /\ n = k * (n \div k) + (n % k) BY Division
  <2>2. m \div k \in Nat /\ m = k * (m \div k) + (m % k) BY Division
  <2>3. r \in Nat /\ n = k * (n \div k) + r /\ m = k * (m \div k) + r BY <1>0, <2>1, <2>2
  <2> QED BY <2>1, <2>2, <2>3
<1>2. k * b < k * a BY <1>1
<1>3. a > b BY <1>1, <1>2
<1>4. PICK d \in Nat : a = b + 1 + d
  <2>1. a - b - 1 \in Nat /\ a = b + 1 + (a - b - 1) BY <1>3
  <2> QED BY <2>1
<1>5. k * a = k * b + k + k * d /\ k * d \in Nat BY <1>4
<1> QED BY <1>1, <1>5

(* The indices from read to write - 1 are taken, some of them (I) by
   threads that have yet to store their packets: the other packets are in
   their slots, and no other slot is full. *)
RingPart(r, w, f, I) ==
  /\ r \in Nat /\ w \in Nat /\ r <= w /\ I \subseteq r..w - 1
  /\ \A i \in (r..w - 1) \ I : f[i % RingSize] # None /\ i - r < RingSize - 1
  /\ \A k \in 0..RingSize - 1 : f[k] # None => \E i \in (r..w - 1) \ I : i % RingSize = k

LEMMA RingReserve ==
  ASSUME NEW r, NEW w, NEW f, NEW I, RingPart(r, w, f, I)
  PROVE  RingPart(r, w + 1, f, I \cup {w}) /\ w \notin I
<1>1. r \in Nat /\ w \in Nat /\ r <= w /\ I \subseteq r..w - 1 BY DEF RingPart
<1>2. (r..(w + 1) - 1) \ (I \cup {w}) = (r..w - 1) \ I BY ONLY <1>1
<1>3. I \cup {w} \subseteq r..(w + 1) - 1 /\ w \notin I /\ w + 1 \in Nat /\ r <= w + 1 BY ONLY <1>1
<1> QED BY <1>1, <1>2, <1>3 DEF RingPart

LEMMA RingWrite ==
  ASSUME NEW r, NEW w, NEW f \in [0..RingSize - 1 -> Packet \cup {None}], NEW I, RingPart(r, w, f, I),
         RingSize \in Nat \ {0, 1}, None \notin Packet,
         NEW n \in I, n - r < RingSize - 1, NEW p \in Packet
  PROVE  RingPart(r, w, [f EXCEPT ![n % RingSize] = p], I \ {n}) /\ f[n % RingSize] = None
<1>1. r \in Nat /\ w \in Nat /\ r <= w /\ I \subseteq r..w - 1 /\ n \in r..w - 1 /\ n \in Nat
  BY DEF RingPart
<1>2. PICK k \in 0..RingSize - 1 : k = n % RingSize BY <1>1
<1>3. PICK g : g = [f EXCEPT ![k] = p] OBVIOUS
<1>4. g[k] = p /\ \A j \in 0..RingSize - 1 : j # k => g[j] = f[j] BY <1>3
<1>5. (r..w - 1) \ (I \ {n}) = ((r..w - 1) \ I) \cup {n} BY <1>1
<1>6. \A i \in (r..w - 1) \ I : i % RingSize \in 0..RingSize - 1 BY <1>1
<1>7. \A i \in ((r..w - 1) \ I) \cup {n} : g[i % RingSize] # None /\ i - r < RingSize - 1
  <2>1. \A i \in (r..w - 1) \ I : f[i % RingSize] # None /\ i - r < RingSize - 1 BY DEF RingPart
  <2> QED BY <2>1, <1>2, <1>4, <1>6
<1>8. \A j \in 0..RingSize - 1 : g[j] # None => \E i \in ((r..w - 1) \ I) \cup {n} : i % RingSize = j
  <2>1. \A j \in 0..RingSize - 1 : f[j] # None => \E i \in (r..w - 1) \ I : i % RingSize = j
    BY DEF RingPart
  <2> QED BY <2>1, <1>2, <1>4
<1>9. f[n % RingSize] = None
  <2> SUFFICES ASSUME f[n % RingSize] # None PROVE FALSE OBVIOUS
  <2>1. PICK i \in (r..w - 1) \ I : i % RingSize = n % RingSize BY <1>2 DEF RingPart
  <2>2. i - r < RingSize - 1 /\ i # n /\ i \in Nat /\ i >= r /\ n >= r BY <1>1 DEF RingPart
  <2>3. i < n \/ n < i BY <2>2, <1>1
  <2>4. n - i >= RingSize \/ i - n >= RingSize BY <2>1, <2>2, <2>3, <1>1, Apart
  <2> QED BY <2>2, <2>4, <1>1
<1>10. RingPart(r, w, g, I \ {n}) BY <1>1, <1>5, <1>7, <1>8 DEF RingPart
<1> QED BY <1>2, <1>3, <1>9, <1>10

LEMMA RingConsume ==
  ASSUME NEW r, NEW w, NEW f \in [0..RingSize - 1 -> Packet \cup {None}], NEW I, RingPart(r, w, f, I),
         RingSize \in Nat \ {0, 1}, f[r % RingSize] # None
  PROVE  RingPart(r + 1, w, [f EXCEPT ![r % RingSize] = None], I) /\ r \notin I /\ r < w
<1>1. r \in Nat /\ w \in Nat /\ r <= w /\ I \subseteq r..w - 1 BY DEF RingPart
<1>2. PICK k \in 0..RingSize - 1 : k = r % RingSize BY <1>1
<1>3. PICK i0 \in (r..w - 1) \ I : i0 % RingSize = k BY <1>2 DEF RingPart
<1>4. i0 = r
  <2> SUFFICES ASSUME i0 # r PROVE FALSE OBVIOUS
  <2>1. i0 \in Nat /\ r < i0 /\ i0 - r < RingSize - 1 BY <1>1 DEF RingPart
  <2>2. i0 - r >= RingSize BY <2>1, <1>1, <1>2, <1>3, Apart
  <2> QED BY <2>1, <2>2, <1>1
<1>5. r \notin I /\ r < w BY <1>1, <1>4
<1>6. PICK g : g = [f EXCEPT ![k] = None] OBVIOUS
<1>7. g[k] = None /\ \A j \in 0..RingSize - 1 : j # k => g[j] = f[j] BY <1>6
<1>8. (r + 1..w - 1) \ I \subseteq (r..w - 1) \ I /\ I \subseteq r + 1..w - 1 /\ r + 1 <= w /\ r + 1 \in Nat
  BY <1>1, <1>5
<1>9. ASSUME NEW i \in (r + 1..w - 1) \ I PROVE g[i % RingSize] # None /\ i - (r + 1) < RingSize - 1
  <2>1. f[i % RingSize] # None /\ i - r < RingSize - 1 BY <1>8 DEF RingPart
  <2>2. i \in Nat /\ r < i BY <1>1
  <2>3. i % RingSize # k
    <3> SUFFICES ASSUME i % RingSize = k PROVE FALSE OBVIOUS
    <3>1. i - r >= RingSize BY <2>2, <1>1, <1>2, Apart
    <3> QED BY <3>1, <2>1, <2>2, <1>1
  <2>4. i % RingSize \in 0..RingSize - 1 BY <2>2
  <2> QED BY <2>1, <2>2, <2>3, <2>4, <1>1, <1>7
<1>10. ASSUME NEW j \in 0..RingSize - 1, g[j] # None PROVE \E i \in (r + 1..w - 1) \ I : i % RingSize = j
  <2>1. j # k /\ f[j] # None BY <1>7, <1>10
  <2>2. PICK i \in (r..w - 1) \ I : i % RingSize = j BY <2>1 DEF RingPart
  <2>3. i # r BY <2>1, <2>2, <1>2
  <2> QED BY <2>2, <2>3, <1>1
<1>11. RingPart(r + 1, w, g, I) BY <1>1, <1>8, <1>9, <1>10 DEF RingPart
<1> QED BY <1>2, <1>5, <1>6, <1>11

----------------------------------------
(* Who has an index and has not stored the packet. *)

(* The rest of a call that has an index. *)
HoldPlan(s) ==
  s # <<>> /\ (Head(s) = "write" \/ (Head(s) = "signal" /\ s # Cons("signal", Cons("copy", <<>>))))

Holding(v) == HoldPlan(todo[v])
Indices(h) == {my[v].index : v \in {v \in VGPUs : Holding(v) /\ setup.hwQueue[v] = h}}

LEMMA HoldPlans ==
  /\ ~HoldPlan(<<>>)
  /\ \A t \in AfterAlloc : ~HoldPlan(t) /\ ~HoldPlan(Cons("reserve", Cons("write", Cons("nextChunk", t))))
  /\ \A t \in AfterBlockingWait : ~HoldPlan(t) /\ ~HoldPlan(Cons("reserve", Cons("write", t)))
  /\ \A t \in AfterKernel : HoldPlan(t)
  /\ \A t \in AfterBarrier : ~HoldPlan(t)
  /\ \A t \in AfterReserve : HoldPlan(t)
  /\ \A t \in AfterSignal : HoldPlan(t) <=> t # Cons("copy", <<>>)
  /\ \A t \in AfterWrite : ~HoldPlan(t)
  /\ \A t \in AfterFence : ~HoldPlan(t) /\ ~HoldPlan(Cons("barrier", Cons("reserve", Cons("signal", Cons("write", t)))))
  /\ \A t \in AfterCopyWait : ~HoldPlan(t)
  /\ ~HoldPlan(DispatchPlan)
<1>0. \A a \in Steps, t \in StepSeqs : Cons(a, t) # <<>> /\ Head(Cons(a, t)) = a /\ Tail(Cons(a, t)) = t
                                       /\ Cons(a, t) \in StepSeqs
  BY ConsSteps
<1>1. PICK w, c \in StepSeqs : w = Cons("write", <<>>) /\ c = Cons("copy", <<>>) BY ConsSteps, StepNames
<1>2. w # <<>> /\ Head(w) = "write" /\ c # <<>> /\ Head(c) = "copy" BY <1>1, ConsSteps, StepNames
<1>3. \A t \in AfterAlloc : ~HoldPlan(t) BY NextHeads DEF HoldPlan
<1>4. ASSUME NEW t \in AfterAlloc PROVE ~HoldPlan(Cons("reserve", Cons("write", Cons("nextChunk", t))))
  <2>1. t \in StepSeqs BY PlansAreSequences
  <2>2. Cons("nextChunk", t) \in StepSeqs BY ONLY <2>1, <1>0, StepNames
  <2>3. Cons("write", Cons("nextChunk", t)) \in StepSeqs BY ONLY <2>2, <1>0, StepNames
  <2>4. Head(Cons("reserve", Cons("write", Cons("nextChunk", t)))) = "reserve"
    BY ONLY <2>3, <1>0, StepNames
  <2> QED BY ONLY <2>4 DEF HoldPlan
<1>5. ASSUME NEW t \in AfterBlockingWait PROVE ~HoldPlan(t) /\ ~HoldPlan(Cons("reserve", Cons("write", t)))
  <2>1. t \in StepSeqs BY PlansAreSequences
  <2>2. Cons("write", t) \in StepSeqs BY ONLY <2>1, <1>0, StepNames
  <2>3. Head(Cons("reserve", Cons("write", t))) = "reserve" BY ONLY <2>2, <1>0, StepNames
  <2> QED BY <2>3, NextHeads DEF HoldPlan
<1>6. \A t \in AfterKernel : HoldPlan(t)
  <2>1. Cons("signal", w) # Cons("signal", c)
    <3>1. Tail(Cons("signal", w)) = w /\ Tail(Cons("signal", c)) = c
      BY ONLY <1>0, StepNames, w \in StepSeqs, c \in StepSeqs
    <3>2. w # c BY ONLY <1>2
    <3> QED BY ONLY <3>1, <3>2
  <2>2. Head(Cons("signal", w)) = "signal" /\ Cons("signal", w) # <<>>
    BY ONLY <1>0, StepNames, w \in StepSeqs
  <2> QED BY ONLY <1>1, <1>2, <2>1, <2>2 DEF AfterKernel, HoldPlan
<1>7. \A t \in AfterBarrier : ~HoldPlan(t) BY NextHeads DEF HoldPlan
<1>8. ASSUME NEW t \in StepSeqs PROVE HoldPlan(Cons("write", t))
  BY ONLY <1>0, StepNames, t \in StepSeqs DEF HoldPlan
<1>9. ASSUME NEW t \in StepSeqs PROVE HoldPlan(Cons("signal", Cons("write", t)))
  <2>1. PICK u \in StepSeqs : u = Cons("write", t) /\ Head(u) = "write"
    BY ONLY <1>0, StepNames, t \in StepSeqs
  <2>2. Head(Cons("signal", u)) = "signal" /\ Tail(Cons("signal", u)) = u /\ Tail(Cons("signal", c)) = c
        /\ Cons("signal", u) # <<>>
    BY ONLY <1>0, StepNames, u \in StepSeqs, c \in StepSeqs
  <2>3. Cons("signal", u) # Cons("signal", c) BY ONLY <2>1, <2>2, <1>2
  <2> QED BY ONLY <1>1, <2>1, <2>2, <2>3 DEF HoldPlan
<1>10. \A t \in AfterReserve : HoldPlan(t)
  <2>1. \A y \in Endings : y \in StepSeqs BY PlansAreSequences
  <2>2. \A y \in AfterBlockingWait : y \in StepSeqs BY PlansAreSequences
  <2>3. \A y \in AfterAlloc : Cons("nextChunk", y) \in StepSeqs BY <1>0, StepNames, PlansAreSequences
  <2> QED BY ONLY <2>1, <2>2, <2>3, <1>8, <1>9 DEF AfterReserve
<1>11. \A t \in AfterSignal : HoldPlan(t) <=> t # Cons("copy", <<>>)
  <2>1. \A y \in Endings : HoldPlan(Cons("write", y)) /\ Head(Cons("write", y)) = "write"
    BY <1>0, <1>8, StepNames, PlansAreSequences
  <2>2. ~HoldPlan(c) BY ONLY <1>2 DEF HoldPlan
  <2> QED BY ONLY <1>1, <1>2, <2>1, <2>2 DEF AfterSignal
<1>12. \A t \in AfterWrite : ~HoldPlan(t) BY NextHeads DEF HoldPlan
<1>13. ASSUME NEW t \in AfterFence
       PROVE ~HoldPlan(t) /\ ~HoldPlan(Cons("barrier", Cons("reserve", Cons("signal", Cons("write", t)))))
  <2>1. t \in StepSeqs BY PlansAreSequences
  <2>2. Cons("write", t) \in StepSeqs BY ONLY <2>1, <1>0, StepNames
  <2>3. Cons("signal", Cons("write", t)) \in StepSeqs BY ONLY <2>2, <1>0, StepNames
  <2>4. Cons("reserve", Cons("signal", Cons("write", t))) \in StepSeqs BY ONLY <2>3, <1>0, StepNames
  <2>5. Head(Cons("barrier", Cons("reserve", Cons("signal", Cons("write", t))))) = "barrier"
    BY ONLY <2>4, <1>0, StepNames
  <2> QED BY <2>5, NextHeads DEF HoldPlan
<1>14. \A t \in AfterCopyWait : ~HoldPlan(t) BY NextHeads DEF AfterCopyWait, HoldPlan
<1>15. ~HoldPlan(DispatchPlan) /\ ~HoldPlan(<<>>) BY DispatchPlanned DEF HoldPlan
<1> QED BY ONLY <1>3, <1>4, <1>5, <1>6, <1>7, <1>10, <1>11, <1>12, <1>13, <1>14, <1>15

(* An index is taken by Reserve and Kernel and given up by Write. *)
LEMMA HoldSteps ==
  ASSUME VirtualAssumptions, Basic, NEW v \in VGPUs, Host(v)
  PROVE  /\ Reserve(v) \/ Kernel(v) => ~HoldPlan(todo[v]) /\ HoldPlan(todo'[v])
         /\ Write(v) => HoldPlan(todo[v]) /\ ~HoldPlan(todo'[v])
         /\ ~(Reserve(v) \/ Kernel(v) \/ Write(v)) => (HoldPlan(todo'[v]) <=> HoldPlan(todo[v]))
<1>0. PICK t : t = Tail(todo[v]) OBVIOUS
<1>1. Plans /\ Planned(todo[v]) /\ todo \in [VGPUs -> StepSeqs] BY DEF Basic, Plans, Types
<1>3. CASE Reserve(v)
  <2>1. todo[v] # <<>> /\ Head(todo[v]) = "reserve" /\ todo'[v] = t
    BY <1>0, <1>1, <1>3, PlainGoesOn DEF Plain, Reserve, Do
  <2>2. t \in AfterReserve BY <1>0, <1>1, <2>1, PlanHeads
  <2> QED BY <1>3, <2>1, <2>2, HoldPlans DEF HoldPlan, Write, Do, Kernel
<1>4. CASE Kernel(v)
  <2>1. todo[v] # <<>> /\ Head(todo[v]) = "kernel" /\ todo'[v] = t
    BY <1>0, <1>1, <1>4, PlainGoesOn DEF Plain, Kernel, Do
  <2>2. t \in AfterKernel BY <1>0, <1>1, <2>1, PlanHeads
  <2> QED BY <1>4, <2>1, <2>2, HoldPlans DEF HoldPlan, Write, Do, Kernel
<1>5. CASE Write(v)
  <2>1. todo[v] # <<>> /\ Head(todo[v]) = "write" /\ todo'[v] = t
    BY <1>0, <1>1, <1>5, PlainGoesOn DEF Plain, Write, Do
  <2>2. t \in AfterWrite BY <1>0, <1>1, <2>1, PlanHeads
  <2> QED BY <1>5, <2>1, <2>2, HoldPlans DEF HoldPlan, Reserve, Do, Kernel
<1>6. CASE GrowList(v) \/ ReuseSignal(v)
  <2>1. todo[v] # <<>> /\ Head(todo[v]) = "signal" /\ todo'[v] = t
    BY <1>0, <1>1, <1>6, PlainGoesOn DEF Plain, GrowList, ReuseSignal, Do
  <2>2. t \in AfterSignal /\ todo[v] = Cons("signal", t) BY <1>0, <1>1, <2>1, PlanHeads
  <2>3. t \in StepSeqs /\ Cons("copy", <<>>) \in StepSeqs BY <2>2, PlansAreSequences, ConsSteps, StepNames
  <2>4. Tail(Cons("signal", t)) = t /\ Tail(Cons("signal", Cons("copy", <<>>))) = Cons("copy", <<>>)
    BY <2>3, ConsSteps, StepNames
  <2>5. HoldPlan(todo[v]) <=> t # Cons("copy", <<>>) BY ONLY <2>1, <2>2, <2>4 DEF HoldPlan
  <2> QED BY <1>6, <2>1, <2>2, <2>5, HoldPlans DEF Reserve, Do, Kernel, Write
<1>7. CASE NextChunk(v) \/ Barrier(v) \/ CopyWait(v) \/ WaitCurrent(v) \/ StartCopy(v)
  <2>1. todo[v] # <<>> /\ Head(todo[v]) \in {"nextChunk", "barrier", "copyWait", "waitCurrent", "copy"}
        /\ todo'[v] = t
    BY <1>0, <1>1, <1>7, PlainGoesOn DEF Plain, NextChunk, Barrier, CopyWait, WaitCurrent, StartCopy, Do
  <2>2. t \in AfterAlloc \/ t \in AfterBarrier \/ t \in AfterCopyWait \/ t = <<>>
    BY <1>0, <1>1, <2>1, PlanHeads
  <2>3. ~HoldPlan(todo[v]) BY <2>1 DEF HoldPlan
  <2> QED BY <2>1, <2>2, <2>3, HoldPlans DEF Reserve, Do, Kernel, Write
<1>8. CASE Alloc(v)
  <2>1. todo[v] # <<>> /\ Head(todo[v]) = "alloc" BY <1>8 DEF Alloc, Do
  <2>2. /\ t \in AfterAlloc
        /\ todo' = [todo EXCEPT ![v] = IF vgpu[v].used < ChunkSize THEN t
                                      ELSE Cons("reserve", Cons("write", Cons("nextChunk", t)))]
    BY <1>0, <1>1, <1>8, OthersGoOn
  <2>3. todo'[v] = t \/ todo'[v] = Cons("reserve", Cons("write", Cons("nextChunk", t)))
    BY ONLY <2>2, <1>1, v \in VGPUs
  <2>4. ~HoldPlan(todo[v]) /\ ~HoldPlan(todo'[v]) BY <2>1, <2>2, <2>3, HoldPlans DEF HoldPlan
  <2> QED BY <2>1, <2>4 DEF Reserve, Do, Kernel, Write
<1>9. CASE BlockingWait(v)
  <2>1. todo[v] # <<>> /\ Head(todo[v]) = "blockingWait" BY <1>9 DEF BlockingWait, Do
  <2>2. /\ t \in AfterBlockingWait
        /\ todo' = [todo EXCEPT ![v] = IF Waiting(v, "Compute") = {} THEN t ELSE Cons("reserve", Cons("write", t))]
    BY <1>0, <1>1, <1>9, OthersGoOn
  <2>3. todo'[v] = t \/ todo'[v] = Cons("reserve", Cons("write", t)) BY ONLY <2>2, <1>1, v \in VGPUs
  <2>4. ~HoldPlan(todo[v]) /\ ~HoldPlan(todo'[v]) BY <2>1, <2>2, <2>3, HoldPlans DEF HoldPlan
  <2> QED BY <2>1, <2>4 DEF Reserve, Do, Kernel, Write
<1>10. CASE Fence(v)
  <2>1. todo[v] # <<>> /\ Head(todo[v]) = "fence" BY <1>10 DEF Fence, Do
  <2>2. /\ t \in AfterFence
        /\ todo' = [todo EXCEPT ![v] = IF vgpu[v].pending \/ vgpu[v].external # {}
                                      THEN Cons("barrier", Cons("reserve", Cons("signal", Cons("write", t))))
                                      ELSE t]
    BY <1>0, <1>1, <1>10, OthersGoOn
  <2>3. todo'[v] = t \/ todo'[v] = Cons("barrier", Cons("reserve", Cons("signal", Cons("write", t))))
    BY ONLY <2>2, <1>1, v \in VGPUs
  <2>4. ~HoldPlan(todo[v]) /\ ~HoldPlan(todo'[v]) BY <2>1, <2>2, <2>3, HoldPlans DEF HoldPlan
  <2> QED BY <2>1, <2>4 DEF Reserve, Do, Kernel, Write
<1>11. CASE CopyFails(v)
  <2>1. todo[v] # <<>> /\ Head(todo[v]) = "copy" /\ todo' = [todo EXCEPT ![v] = DispatchPlan]
    BY <1>0, <1>1, <1>11, OthersGoOn DEF CopyFails, Do
  <2>2. todo'[v] = DispatchPlan BY ONLY <2>1, <1>1, v \in VGPUs
  <2>3. ~HoldPlan(todo[v]) /\ ~HoldPlan(todo'[v]) BY <2>1, <2>2, HoldPlans DEF HoldPlan
  <2> QED BY <2>1, <2>3 DEF Reserve, Do, Kernel, Write
<1> QED BY <1>3, <1>4, <1>5, <1>6, <1>7, <1>8, <1>9, <1>10, <1>11 DEF Host

----------------------------------------
(* The invariant of the rings. *)

RingOf(h) == RingPart(ring[h].read, ring[h].write, ring[h].slot, Indices(h))
RunningOf(h) == ring[h].running # None => ring[h].running.kind = "kernel" /\ ring[h].read > 0

(* No two threads have the same index of a ring. *)
OwnIndex ==
  \A v, w \in VGPUs :
    (Holding(v) /\ Holding(w) /\ setup.hwQueue[v] = setup.hwQueue[w] /\ my[v].index = my[w].index) => v = w

RingOK == OwnIndex /\ \A h \in HwQueues : RingOf(h) /\ RunningOf(h)

VirtualInv == Basic /\ RingOK

(* A step that takes and stores nothing. *)
LEMMA HoldersStay ==
  ASSUME RingOK, setup' = setup,
         \A v \in VGPUs : (HoldPlan(todo'[v]) <=> HoldPlan(todo[v]))
                          /\ (HoldPlan(todo[v]) => my'[v].index = my[v].index)
  PROVE  OwnIndex' /\ \A h : (Indices(h))' = Indices(h)
<1>1. OwnIndex' BY DEF RingOK, OwnIndex, Holding
<1>2. \A h : (Indices(h))' = Indices(h) BY DEF Indices, Holding
<1> QED BY <1>1, <1>2

LEMMA RingOfStays ==
  ASSUME NEW h, RingOf(h), RunningOf(h), ring'[h] = ring[h], (Indices(h))' = Indices(h)
  PROVE  (RingOf(h))' /\ (RunningOf(h))'
BY DEF RingOf, RunningOf

LEMMA OtherHostRing ==
  ASSUME VirtualAssumptions, VirtualInv, NEW v \in VGPUs, Host(v),
         ~(Reserve(v) \/ Kernel(v) \/ Write(v))
  PROVE  RingOK'
<1>1. setup' = setup /\ ring' = ring
  BY DEF Host, Alloc, NextChunk, BlockingWait, Barrier, CopyWait, GrowList, ReuseSignal, Attach,
         Fence, WaitCurrent, StartCopy, CopyFails
<1>2. \A w \in VGPUs : w # v => todo'[w] = todo[w] BY HostTodoTypes DEF VirtualInv
<1>3. HoldPlan(todo'[v]) <=> HoldPlan(todo[v]) BY HoldSteps DEF VirtualInv
<1>4. \A w \in VGPUs : my'[w].index = my[w].index
  <2>1. my \in [VGPUs -> MyRecord] BY DEF VirtualInv, Basic, Types
  <2>2. my' = my \/ \E p : my' = [my EXCEPT ![v].packet = p]
    BY DEF Host, Alloc, NextChunk, BlockingWait, Barrier, CopyWait, GrowList, ReuseSignal, Attach,
           Fence, WaitCurrent, StartCopy, CopyFails
  <2> QED BY <2>1, <2>2 DEF MyRecord
<1>5. OwnIndex' /\ \A h : (Indices(h))' = Indices(h) BY <1>1, <1>2, <1>3, <1>4, HoldersStay DEF VirtualInv
<1>6. \A h \in HwQueues : (RingOf(h))' /\ (RunningOf(h))'
  BY <1>1, <1>5, RingOfStays DEF VirtualInv, RingOK
<1> QED BY <1>5, <1>6 DEF RingOK

(* The device takes the next index of its ring. *)
LEMMA ReserveRing ==
  ASSUME VirtualAssumptions, VirtualInv, NEW v \in VGPUs, Reserve(v) \/ Kernel(v)
  PROVE  /\ RingOK'
         /\ ring'[setup.hwQueue[v]] = [ring[setup.hwQueue[v]] EXCEPT !.write = @ + 1]
         /\ \A g \in HwQueues : g # setup.hwQueue[v] => ring'[g] = ring[g]
         /\ my'[v].index = ring[setup.hwQueue[v]].write /\ \A w \in VGPUs : w # v => my'[w] = my[w]
         /\ ring[setup.hwQueue[v]].write \notin Indices(setup.hwQueue[v])
<1>0. Host(v) /\ todo[v] # <<>> /\ Basic /\ Types BY DEF Reserve, Kernel, Host, Do, VirtualInv, Basic
<1>1. setup' = setup BY DEF Reserve, Kernel, Reserved
<1>2. PICK h \in HwQueues : h = setup.hwQueue[v] BY <1>0, InCallFacts
<1>3. PICK n \in Nat : n = ring[h].write BY <1>0, SlotFacts
<1>4. PICK p \in Packet : Reserved(v, p)
  <2>1. my[v].cmd \in Commands /\ my[v].packet \in Packet BY <1>0, InCallFacts
  <2> QED BY <2>1, UpdatePacket DEF Reserve, Kernel
<1>5. my'[v].index = n /\ \A w \in VGPUs : w # v => my'[w] = my[w]
  <2>1. my' = [my EXCEPT ![v] = [@ EXCEPT !.packet = p, !.index = n]] BY <1>2, <1>3, <1>4 DEF Reserved
  <2> QED BY <2>1, <1>0 DEF Types, MyRecord
<1>6. /\ ring'[h] = [ring[h] EXCEPT !.write = @ + 1]
      /\ ring'[h].write = n + 1 /\ ring'[h].read = ring[h].read /\ ring'[h].slot = ring[h].slot
      /\ ring'[h].running = ring[h].running
      /\ \A g \in HwQueues : g # h => ring'[g] = ring[g]
  <2>1. ring \in [HwQueues -> RingRecord] /\ ring[h] \in RingRecord BY <1>0 DEF Types
  <2>2. ring' = [ring EXCEPT ![h].write = @ + 1] BY <1>2, <1>4 DEF Reserved
  <2> QED BY <2>1, <2>2, <1>3 DEF RingRecord
<1>7. ~HoldPlan(todo[v]) /\ HoldPlan(todo'[v]) /\ \A w \in VGPUs : w # v => todo'[w] = todo[w]
  BY <1>0, HoldSteps, HostTodoTypes
<1>8. (Indices(h))' = Indices(h) \cup {n} BY <1>1, <1>2, <1>5, <1>7 DEF Indices, Holding
<1>9. \A g \in HwQueues : g # h => (Indices(g))' = Indices(g)
  BY <1>1, <1>2, <1>5, <1>7 DEF Indices, Holding
<1>10. RingPart(ring[h].read, n + 1, ring[h].slot, Indices(h) \cup {n}) /\ n \notin Indices(h)
  <2>1. RingPart(ring[h].read, n, ring[h].slot, Indices(h)) BY <1>3 DEF VirtualInv, RingOK, RingOf
  <2> QED BY ONLY <2>1, RingReserve
<1>11. ASSUME NEW g \in HwQueues PROVE (RingOf(g))' /\ (RunningOf(g))'
  <2>1. RingOf(g) /\ RunningOf(g) BY DEF VirtualInv, RingOK
  <2>2. CASE g = h BY <2>1, <2>2, <1>6, <1>8, <1>10 DEF RingOf, RunningOf
  <2>3. CASE g # h BY <2>1, <2>3, <1>6, <1>9, RingOfStays
  <2> QED BY <2>2, <2>3
<1>12. OwnIndex'
  <2>1. OwnIndex BY DEF VirtualInv, RingOK
  <2>2. \A w \in VGPUs : Holding(w) /\ setup.hwQueue[w] = h => my[w].index # n BY <1>10 DEF Indices
  <2> QED BY <2>1, <2>2, <1>1, <1>2, <1>5, <1>7 DEF OwnIndex, Holding
<1>13. RingOK' BY <1>11, <1>12 DEF RingOK
<1> QED BY <1>2, <1>3, <1>5, <1>6, <1>10, <1>13

(* The device stores its packet: its slot was free. *)
LEMMA WriteRing ==
  ASSUME VirtualAssumptions, VirtualInv, NEW v \in VGPUs, Do(v, "write"), SlotIsFree(v)
  PROVE  /\ ring[setup.hwQueue[v]].slot[my[v].index % RingSize] = None
         /\ Write(v) => RingOK'
<1>0. todo[v] # <<>> /\ Basic /\ Types /\ Holding(v) BY DEF Do, VirtualInv, Basic, Holding, HoldPlan
<1>1. PICK h \in HwQueues : h = setup.hwQueue[v] BY <1>0, InCallFacts
<1>2. PICK n \in Nat, p \in Packet : n = my[v].index /\ p = my[v].packet BY <1>0, InCallFacts DEF MyRecord
<1>3. n \in Indices(h) /\ n - ring[h].read < RingSize - 1 BY <1>0, <1>1, <1>2 DEF Indices, SlotIsFree
<1>4. PICK f \in [0..RingSize - 1 -> Packet \cup {None}] : f = ring[h].slot BY <1>0, SlotFacts
<1>5. RingPart(ring[h].read, ring[h].write, f, Indices(h)) BY <1>4 DEF VirtualInv, RingOK, RingOf
<1>6. RingSize \in Nat \ {0, 1} /\ None \notin Packet BY <1>0, SetupFacts, Kinds DEF Types
<1>7. /\ RingPart(ring[h].read, ring[h].write, [f EXCEPT ![n % RingSize] = p], Indices(h) \ {n})
      /\ f[n % RingSize] = None
  <2>1. PICK r, w, I : r = ring[h].read /\ w = ring[h].write /\ I = Indices(h) OBVIOUS
  <2>2. RingPart(r, w, f, I) /\ n \in I /\ n - r < RingSize - 1 BY ONLY <2>1, <1>3, <1>5
  <2>3. RingPart(r, w, [f EXCEPT ![n % RingSize] = p], I \ {n}) /\ f[n % RingSize] = None
    BY ONLY <2>2, <1>6, RingWrite, f \in [0..RingSize - 1 -> Packet \cup {None}], p \in Packet
  <2> QED BY ONLY <2>1, <2>3
<1>8. ASSUME Write(v) PROVE RingOK'
  <2>1. Host(v) /\ setup' = setup BY <1>8 DEF Write, Host
  <2>2. ~HoldPlan(todo'[v]) /\ \A w \in VGPUs : w # v => todo'[w] = todo[w]
    BY <1>0, <1>8, <2>1, HoldSteps, HostTodoTypes
  <2>3. \A w \in VGPUs : w # v => my'[w] = my[w] BY <1>0, <1>8 DEF Write, Types
  <2>4. /\ ring'[h].write = ring[h].write /\ ring'[h].read = ring[h].read
        /\ ring'[h].slot = [f EXCEPT ![n % RingSize] = p]
        /\ ring'[h].running = ring[h].running
        /\ \A g \in HwQueues : g # h => ring'[g] = ring[g]
    <3>1. ring \in [HwQueues -> RingRecord] /\ ring[h] \in RingRecord BY <1>0 DEF Types
    <3>2. ring' = [ring EXCEPT ![h].slot[n % RingSize] = p] BY <1>1, <1>2, <1>8 DEF Write
    <3> QED BY <3>1, <3>2, <1>4 DEF RingRecord
  <2>5. OwnIndex BY DEF VirtualInv, RingOK
  <2>6. (Indices(h))' = Indices(h) \ {n}
    BY <1>0, <1>1, <1>2, <2>1, <2>2, <2>3, <2>5 DEF Indices, Holding, OwnIndex
  <2>7. \A g \in HwQueues : g # h => (Indices(g))' = Indices(g)
    BY <1>1, <2>1, <2>2, <2>3 DEF Indices, Holding
  <2>8. ASSUME NEW g \in HwQueues PROVE (RingOf(g))' /\ (RunningOf(g))'
    <3>1. RingOf(g) /\ RunningOf(g) BY DEF VirtualInv, RingOK
    <3>2. CASE g = h BY <3>1, <3>2, <2>4, <2>6, <1>7 DEF RingOf, RunningOf
    <3>3. CASE g # h BY <3>1, <3>3, <2>4, <2>7, RingOfStays
    <3> QED BY <3>2, <3>3
  <2>9. OwnIndex' BY <2>5, <2>1, <2>2, <2>3 DEF OwnIndex, Holding
  <2> QED BY <2>8, <2>9 DEF RingOK
<1> QED BY <1>1, <1>2, <1>4, <1>7, <1>8

(* The processor takes a packet: nobody has its index. *)
LEMMA ConsumeRing ==
  ASSUME VirtualAssumptions, VirtualInv, NEW h \in HwQueues, StartKernel(h) \/ PassBarrier(h)
  PROVE  /\ RingOK'
         /\ ring[h].read \notin Indices(h) /\ ring[h].read < ring[h].write
<1>0. Basic /\ Types BY DEF VirtualInv, Basic
<1>1. setup' = setup /\ todo' = todo /\ my' = my BY DEF StartKernel, PassBarrier
<1>2. OwnIndex' /\ \A g : (Indices(g))' = Indices(g)
  <2>1. \A v \in VGPUs : (HoldPlan(todo'[v]) <=> HoldPlan(todo[v]))
                          /\ (HoldPlan(todo[v]) => my'[v].index = my[v].index)
    BY <1>1
  <2> QED BY <2>1, <1>1, HoldersStay DEF VirtualInv
<1>3. PICK x \in Packet \cup {None} : ring' = Consumed(h, x) /\ (x # None => x.kind = "kernel")
  <2>1. AtHead(h) \in Packet \cup {None} BY <1>0, SlotFacts
  <2> QED BY <2>1 DEF StartKernel, PassBarrier, Ready
<1>4. /\ ring'[h].read = ring[h].read + 1 /\ ring'[h].write = ring[h].write /\ ring'[h].running = x
      /\ ring'[h].slot = [ring[h].slot EXCEPT ![ring[h].read % RingSize] = None]
      /\ \A g \in HwQueues : g # h => ring'[g] = ring[g]
  BY <1>0, <1>3, ConsumedRing
<1>5. ring[h].slot[ring[h].read % RingSize] # None BY DEF StartKernel, PassBarrier, Ready, AtHead
<1>6. PICK f \in [0..RingSize - 1 -> Packet \cup {None}] : f = ring[h].slot BY <1>0, SlotFacts
<1>7. RingSize \in Nat \ {0, 1} BY <1>0, SetupFacts DEF Types
<1>8. RingPart(ring[h].read, ring[h].write, f, Indices(h)) BY <1>6 DEF VirtualInv, RingOK, RingOf
<1>9. /\ RingPart(ring[h].read + 1, ring[h].write, [f EXCEPT ![ring[h].read % RingSize] = None], Indices(h))
      /\ ring[h].read \notin Indices(h) /\ ring[h].read < ring[h].write
  <2>1. PICK r, w, I : r = ring[h].read /\ w = ring[h].write /\ I = Indices(h) OBVIOUS
  <2>2. RingPart(r, w, f, I) /\ f[r % RingSize] # None BY ONLY <2>1, <1>5, <1>6, <1>8
  <2>3. RingPart(r + 1, w, [f EXCEPT ![r % RingSize] = None], I) /\ r \notin I /\ r < w
    BY ONLY <2>2, <1>7, RingConsume, f \in [0..RingSize - 1 -> Packet \cup {None}]
  <2> QED BY ONLY <2>1, <2>3
<1>10. ring[h].read \in Nat BY <1>0, SlotFacts
<1>11. ASSUME NEW g \in HwQueues PROVE (RingOf(g))' /\ (RunningOf(g))'
  <2>1. RingOf(g) /\ RunningOf(g) BY DEF VirtualInv, RingOK
  <2>2. CASE g = h
    <3>1. (RingOf(h))' BY <1>2, <1>4, <1>6, <1>9 DEF RingOf
    <3>2. (RunningOf(h))' BY <1>3, <1>4, <1>10 DEF RunningOf
    <3> QED BY <2>2, <3>1, <3>2
  <2>3. CASE g # h BY <2>1, <2>3, <1>4, <1>2, RingOfStays
  <2> QED BY <2>2, <2>3
<1> QED BY <1>2, <1>9, <1>11 DEF RingOK

LEMMA EndKernelRing ==
  ASSUME VirtualAssumptions, VirtualInv, NEW h \in HwQueues, EndKernel(h)
  PROVE  /\ RingOK'
         /\ ring'[h].read = ring[h].read /\ ring'[h].write = ring[h].write
         /\ ring'[h].slot = ring[h].slot /\ ring'[h].running = None
         /\ \A g \in HwQueues : g # h => ring'[g] = ring[g]
<1>1. setup' = setup /\ todo' = todo /\ my' = my BY DEF EndKernel
<1>2. OwnIndex' /\ \A g : (Indices(g))' = Indices(g)
  <2>1. \A v \in VGPUs : (HoldPlan(todo'[v]) <=> HoldPlan(todo[v]))
                          /\ (HoldPlan(todo[v]) => my'[v].index = my[v].index)
    BY <1>1
  <2> QED BY <2>1, <1>1, HoldersStay DEF VirtualInv
<1>3. /\ ring'[h].read = ring[h].read /\ ring'[h].write = ring[h].write
      /\ ring'[h].slot = ring[h].slot /\ ring'[h].running = None
      /\ \A g \in HwQueues : g # h => ring'[g] = ring[g]
  <2>1. ring \in [HwQueues -> RingRecord] /\ ring[h] \in RingRecord BY DEF VirtualInv, Basic, Types
  <2>2. ring' = [ring EXCEPT ![h].running = None] BY DEF EndKernel
  <2> QED BY <2>1, <2>2 DEF RingRecord
<1>4. ASSUME NEW g \in HwQueues PROVE (RingOf(g))' /\ (RunningOf(g))'
  <2>1. RingOf(g) /\ RunningOf(g) BY DEF VirtualInv, RingOK
  <2>2. CASE g = h BY <2>1, <2>2, <1>2, <1>3 DEF RingOf, RunningOf
  <2>3. CASE g # h BY <2>1, <2>3, <1>2, <1>3, RingOfStays
  <2> QED BY <2>2, <2>3
<1> QED BY <1>2, <1>3, <1>4 DEF RingOK

(* The application, the DMA engines and stuttering leave the rings alone. *)
LEMMA OtherRing ==
  ASSUME VirtualAssumptions, VirtualInv, Application \/ Dma \/ UNCHANGED vars
  PROVE  RingOK'
<1>0. Basic BY DEF VirtualInv
<1>1. setup' = setup /\ ring' = ring BY DEF Application, Submit, ReleaseEvent, Dma, RunCopy, vars
<1>2. \A v \in VGPUs : (HoldPlan(todo'[v]) <=> HoldPlan(todo[v]))
                       /\ (HoldPlan(todo[v]) => my'[v].index = my[v].index)
  <2>1. CASE todo' = todo /\ my' = my BY <2>1
  <2>2. ASSUME NEW v \in VGPUs, NEW op \in Operations, NEW W, Submit(v, op, W)
        PROVE  \A w \in VGPUs : (HoldPlan(todo'[w]) <=> HoldPlan(todo[w]))
                                /\ (HoldPlan(todo[w]) => my'[w].index = my[w].index)
    <3>1. ~HoldPlan(todo[v]) BY <2>2 DEF Submit, HoldPlan
    <3>2. \A w \in VGPUs : w # v => todo'[w] = todo[w] /\ my'[w] = my[w]
      BY <2>2, <1>0 DEF Submit, Basic, Types
    <3>3. Head(Call[op]) \in {"alloc", "barrier", "fence"} BY CallIsPlan DEF VirtualAssumptions
    <3>4. todo'[v] = Call[op] BY <2>2, <1>0 DEF Submit, Basic, Types
    <3>5. ~HoldPlan(todo'[v]) BY <3>3, <3>4 DEF HoldPlan
    <3> QED BY <3>1, <3>2, <3>5
  <2>3. CASE \E c \in Commands : ReleaseEvent(c) BY <2>1, <2>3 DEF ReleaseEvent
  <2>4. CASE Dma \/ UNCHANGED vars BY <2>1, <2>4 DEF Dma, RunCopy, vars
  <2> QED BY <2>2, <2>3, <2>4 DEF Application
<1>3. OwnIndex' /\ \A h : (Indices(h))' = Indices(h) BY <1>1, <1>2, HoldersStay DEF VirtualInv
<1>4. \A h \in HwQueues : (RingOf(h))' /\ (RunningOf(h))'
  BY <1>1, <1>3, RingOfStays DEF VirtualInv, RingOK
<1> QED BY <1>3, <1>4 DEF RingOK

LEMMA NextRing ==
  ASSUME VirtualAssumptions, VirtualInv, [Next]_vars
  PROVE  RingOK'
<1>1. ASSUME NEW v \in VGPUs, Host(v) PROVE RingOK'
  <2>1. CASE Write(v) BY <2>1, WriteRing DEF Write
  <2> QED BY <1>1, <2>1, OtherHostRing, ReserveRing
<1>2. ASSUME NEW h \in HwQueues, Processor(h) PROVE RingOK'
  BY <1>2, ConsumeRing, EndKernelRing DEF Processor
<1> QED BY <1>1, <1>2, OtherRing DEF Next

LEMMA InitRing ==
  ASSUME VirtualAssumptions, Init
  PROVE  RingOK
<1>1. Types BY InitBasic DEF Basic
<1>2. \A v \in VGPUs : ~Holding(v) BY DEF Init, Holding, HoldPlan
<1>3. \A h \in HwQueues : ring[h].write = 0 /\ ring[h].read = 0 /\ ring[h].running = None
                          /\ ring[h].slot = [i \in 0..RingSize - 1 |-> None]
  BY DEF Init
<1>4. \A h : Indices(h) = {} BY <1>2 DEF Indices
<1>5. \A h \in HwQueues : RingOf(h)
  <2> SUFFICES ASSUME NEW h \in HwQueues PROVE RingOf(h) OBVIOUS
  <2>1. RingSize \in Nat \ {0, 1} BY <1>1, SetupFacts DEF Types
  <2>2. ring[h].write = 0 /\ ring[h].read = 0 /\ Indices(h) = {} /\ \A k \in 0..RingSize - 1 : ring[h].slot[k] = None
    BY <1>3, <1>4
  <2>3. 0..0 - 1 = {} OBVIOUS
  <2> QED BY ONLY <2>1, <2>2, <2>3 DEF RingOf, RingPart
<1>6. \A h \in HwQueues : RunningOf(h) BY <1>3 DEF RunningOf
<1>7. OwnIndex BY <1>2 DEF OwnIndex
<1> QED BY <1>5, <1>6, <1>7 DEF RingOK

LEMMA InvIsTyped == ASSUME VirtualAssumptions, VirtualInv PROVE TypeOK
<1>0. Types BY DEF VirtualInv, Basic
<1>1. \A v \in VGPUs : Len(vgpu[v].list) <= setup.listed /\ vgpu[v].current \in DOMAIN vgpu[v].list
  <2> SUFFICES ASSUME NEW v \in VGPUs
               PROVE  Len(vgpu[v].list) <= setup.listed /\ vgpu[v].current \in DOMAIN vgpu[v].list
    OBVIOUS
  <2>1. vgpu[v].list \in Seq(Pool) /\ Len(vgpu[v].list) \in ListSize..setup.listed
        /\ vgpu[v].current \in 1..Len(vgpu[v].list)
    BY <1>0 DEF Types, ListTypes, VirtualDevice
  <2>2. setup.listed \in Nat /\ ListSize \in Nat BY <1>0, SetupFacts DEF Types
  <2> QED BY <2>1, <2>2
<1>2. ASSUME NEW h \in HwQueues
      PROVE  /\ ring[h].read <= ring[h].write
             /\ ring[h].slot \in [0..RingSize - 1 -> Packet \cup {None}]
             /\ ring[h].running \in Packet \cup {None}
  <2>1. ring[h].read <= ring[h].write BY DEF VirtualInv, RingOK, RingOf, RingPart
  <2> QED BY <2>1, <1>0, SlotFacts
<1> QED BY <1>0, <1>1, <1>2 DEF Types, TypeOK, MyRecord, StepSeqs

LEMMA VirtualInvHolds == ASSUME VirtualAssumptions PROVE Spec => []VirtualInv
<1>1. Init => VirtualInv BY InitBasic, InitRing DEF VirtualInv
<1>2. VirtualInv /\ [Next]_vars => VirtualInv' BY NextBasic, NextRing DEF VirtualInv
<1> QED BY <1>1, <1>2, PTL DEF Spec

(* Every variable has its type: the lists of signals stay as short as the
   number of signals allows and the current place is one of them, a ring
   is never read past what was reserved, every copy has a signal. *)
THEOREM TypeCorrectness == ASSUME VirtualAssumptions PROVE Spec => []TypeOK
<1>1. VirtualInv => TypeOK BY InvIsTyped
<1> QED BY <1>1, VirtualInvHolds, PTL

(* No thread stores a packet over one the GPU has not taken, however many
   threads and virtual devices share the ring and in whatever order they
   store what they have reserved. *)
THEOREM NothingOverwritten == ASSUME VirtualAssumptions PROVE Spec => []NoOverwrite
<1>1. VirtualInv => NoOverwrite BY WriteRing DEF NoOverwrite
<1> QED BY <1>1, VirtualInvHolds, PTL
====
