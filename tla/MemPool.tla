------------------------------- MODULE MemPool -------------------------------
(***************************************************************************)
(* A stream-ordered memory pool of HIP (hipamd/src/hip_mempool_impl.cpp).  *)
(*                                                                         *)
(* hipMallocAsync() and hipFreeAsync() take effect in the order of a       *)
(* stream, yet the pool acts at once, on the host.  A freed block goes to  *)
(* free_heap_ with a marker event of the freeing stream and a set of safe  *)
(* streams; it may be handed to a stream of that set without a wait, and   *)
(* to any other once the event has retired.  hipStreamWaitEvent() makes    *)
(* the waiting stream safe wherever the stream of the event is, whenever   *)
(* the event was recorded.                                                 *)
(*                                                                         *)
(* The GPU is modelled by what the pool relies on: a stream runs its work  *)
(* in order, and a unit of work starts after the work it waits for.  The   *)
(* position of a stream is the number of units it was given; a clock maps  *)
(* every stream to a position.                                             *)
(*                                                                         *)
(* A call holds the device's lock_ and lock_pool_ops_ from its first       *)
(* access of the heaps to its last: it is one step, but for                *)
(* hipStreamWaitEvent(), which gives its marker after the locks.           *)
(***************************************************************************)
EXTENDS Integers, Sequences, FiniteSetsExt

CONSTANTS
    Streams,       \* the streams of one device
    Blocks,        \* the memory objects, numbered as the heaps sort them
    Size,          \* block -> its size; ascending with the block
    Events,        \* the events of the application
    MaxWork,       \* bound of this model: units of work in all
    MaxWaiting     \* bound of this model: threads in hipStreamWaitEvent()

VARIABLES
    opportunistic, \* hipMemPoolReuseAllowOpportunistic, frozen
    pending,       \* stream -> the clocks of its unfinished units, in order
    done,          \* stream -> the units of work that are complete
    sees,          \* stream -> the clock the next unit waits for
    heap,          \* block -> "none", "busy" or "free"
    safe,          \* block -> safe_streams_
    event,         \* block -> event_: <<stream, position>>, or NoEvent
    mark,          \* event of the application -> stream and position of its
                   \* latest record, or NoEvent
    waiting,       \* <<stream, event>> of each hipStreamWaitEvent() that is yet
                   \* to give the stream its marker
    user,          \* busy block -> the stream and position of its allocation
    used,          \* block -> the clock of its latest uses
    excused        \* history: free block -> the streams that may take it before
                   \* its earlier uses (see ReuseIsSafe)

vars == <<opportunistic, pending, done, sees, heap, safe, event, mark, waiting, user,
          used, excused>>

NoEvent == <<>>
Nobody == <<>>

(* What the theorems assume of the constants. *)
MemoryAssumption == Blocks \subseteq Nat

Clocks == [Streams -> 0 .. MaxWork]
Positions == Streams \X (0 .. MaxWork)
Zero == [s \in Streams |-> 0]
Join(c, d) == [s \in Streams |-> Max({c[s], d[s]})]
Issued(s) == done[s] + Len(pending[s])
Room(n) == MapThenSumSet(Issued, Streams) + n <= MaxWork

TypeOK ==
  /\ opportunistic \in BOOLEAN
  /\ pending \in [Streams -> Seq(Clocks)]
  /\ done \in Clocks /\ sees \in [Streams -> Clocks]
  /\ heap \in [Blocks -> {"none", "busy", "free"}]
  /\ safe \in [Blocks -> SUBSET Streams]
  /\ event \in [Blocks -> Positions \cup {NoEvent}]
  /\ user \in [Blocks -> Positions \cup {Nobody}]
  /\ used \in [Blocks -> Clocks]
  /\ mark \in [Events -> Positions \cup {NoEvent}]
  /\ waiting \subseteq Streams \X Events
  /\ excused \in [Blocks -> SUBSET Streams]
  \* a stream may always take back what it allocated itself
  /\ \A b \in Blocks : heap[b] = "busy" => user[b] # Nobody /\ user[b][1] \in safe[b]

Init ==
  /\ opportunistic \in BOOLEAN
  /\ pending = [s \in Streams |-> <<>>] /\ done = Zero
  /\ sees = [s \in Streams |-> Zero]
  /\ heap = [b \in Blocks |-> "none"] /\ safe = [b \in Blocks |-> {}]
  /\ event = [b \in Blocks |-> NoEvent]
  /\ user = [b \in Blocks |-> Nobody]
  /\ used = [b \in Blocks |-> Zero]
  /\ mark = [e \in Events |-> NoEvent] /\ waiting = {}
  /\ excused = [b \in Blocks |-> {}]

----------------------------------------
(* Clock c once stream s has completed its next unit: what is complete
   counts as 0. *)
Settled(c, s) == IF c[s] = done[s] + 1 THEN [c EXCEPT ![s] = 0] ELSE c

(* The GPU completes the next unit of a stream once what it waits for is
   complete. *)
Complete(s) ==
  /\ pending[s] # <<>>
  /\ \A r \in Streams \ {s} : Head(pending[s])[r] <= done[r]
  /\ done' = [done EXCEPT ![s] = @ + 1]
  /\ pending' = [r \in Streams |->
        LET rest == IF r = s THEN Tail(pending[r]) ELSE pending[r]
        IN [i \in DOMAIN rest |-> Settled(rest[i], s)]]
  /\ sees' = [r \in Streams |-> Settled(sees[r], s)]
  /\ used' = [b \in Blocks |-> Settled(used[b], s)]
  /\ UNCHANGED <<opportunistic, heap, safe, event, mark, waiting, user, excused>>

(* The next unit of stream s waits for what s sees; Give adds it. *)
Ticked(s) == [sees[s] EXCEPT ![s] = Issued(s) + 1]
Give(s) ==
  /\ Room(1)
  /\ pending' = [pending EXCEPT ![s] = Append(@, Ticked(s))]
  /\ sees' = [sees EXCEPT ![s] = Ticked(s)]

(* The next unit of stream s follows unit p of stream r, and all units up
   to clock c. *)
Follows(s, r, p) == ~(sees[s][r] < p /\ done[r] < p)
Ordered(c, s) == \A r \in Streams : Follows(s, r, c[r])

(* The application runs a kernel on a block, on the stream it allocated
   the block for or on one that has waited for that stream since. *)
Use(s, b) ==
  /\ heap[b] = "busy"
  /\ LET owner == user[b][1] IN s # owner => Follows(s, owner, user[b][2] + 1)
  /\ Give(s)
  /\ used' = [used EXCEPT ![b] = [@ EXCEPT ![s] = Issued(s) + 1]]
  /\ UNCHANGED <<opportunistic, done, heap, safe, event, mark, waiting, user, excused>>

(* hipEventRecord(): a marker of the stream, which the event keeps. *)
Record(s, e) ==
  /\ Give(s)
  /\ mark' = [mark EXCEPT ![e] = <<s, Issued(s) + 1>>]
  /\ UNCHANGED <<opportunistic, done, heap, safe, event, waiting, user, used, excused>>

(* IsSafeRelease(): there is no event, or the GPU has passed it. *)
Retired(b) == event[b] # NoEvent => event[b][2] <= done[event[b][1]]

(* The next work of stream s follows the free of block b. *)
AfterFree(s, b) == Retired(b) \/ Follows(s, event[b][1], event[b][2])

(* AddSafeStream(): what is safe for the stream of an event is safe for the
   stream that waits for it, whenever the event was recorded. *)
Joined(s, r, b) == IF heap[b] = "free" /\ s \in safe[b] THEN safe[b] \cup {r} ELSE safe[b]

(* hipStreamWaitEvent() makes stream r safe, under the locks of the pools. *)
Wait(r, e) ==
  /\ mark[e] # NoEvent /\ mark[e][1] # r
  /\ Cardinality(waiting) < MaxWaiting /\ waiting' = waiting \cup {<<r, e>>}
  /\ LET s == mark[e][1] IN
     /\ safe' = [b \in Blocks |-> Joined(s, r, b)]
     /\ excused' = [b \in Blocks |->
           IF heap[b] = "free" /\ (s \in excused[b] \/ AfterFree(s, b))
           THEN excused[b] \cup {r} ELSE excused[b]]
  /\ UNCHANGED <<opportunistic, pending, done, sees, heap, event, mark, user, used>>

(* Then Event::streamWait() gives r a marker that waits for the latest
   record of the event, unless that is complete or on r itself. *)
StreamWait(r, e) ==
  /\ <<r, e>> \in waiting /\ waiting' = waiting \ {<<r, e>>}
  /\ LET s == mark[e][1]  ready == mark[e][2] <= done[s]
         waiter == Join(pending[s][mark[e][2] - done[s]], Ticked(r))
     IN IF s = r \/ ready THEN UNCHANGED <<pending, sees>>
        ELSE /\ Room(1)
             /\ pending' = [pending EXCEPT ![r] = Append(@, waiter)]
             /\ sees' = [sees EXCEPT ![r] = waiter]
  /\ UNCHANGED <<opportunistic, done, heap, safe, event, mark, user, used, excused>>

----------------------------------------
(* IsSafeFind(): may block b go to stream s? *)
IsSafeFind(b, s, opp) ==
  \/ s \in safe[b]
  \/ opp /\ Retired(b)
  \/ event[b] = NoEvent

Free == {b \in Blocks : heap[b] = "free"}
Total(B) == MapThenSumSet(LAMBDA b : Size[b], B)

(* The blocks of free_heap_ that FindMemory() accepts: a block of more than
   12.5% above the size is not taken opportunistically. *)
Accepted(s, size) ==
  {b \in Free : /\ Size[b] >= size
                /\ IsSafeFind(b, s, opportunistic /\ 8 * Size[b] <= 9 * size)}

(* Mutant of SafeOnce: the block keeps its safe streams. *)
SafeStill(b, s) == safe[b] \cup {s}

(* Mutant of SafeOnce: not even the stream that allocates the block. *)
SafeNever(b, s) == {}

(* The safe streams of a block that stream s was given: FindMemory() takes
   only the event over. *)
SafeOnce(b, s) == {s}

(* Block b moves to busy_heap_; it keeps its event, "since the logic could
   skip GPU wait on reuse".  Of its earlier uses those count further that s
   waits for: the application answers for its own. *)
MakeBusy(b, s) ==
  /\ heap' = [heap EXCEPT ![b] = "busy"]
  /\ safe' = [safe EXCEPT ![b] = SafeOnce(b, s)]
  /\ user' = [user EXCEPT ![b] = <<s, Issued(s)>>]
  /\ used' = [used EXCEPT ![b] = [r \in Streams |-> IF Follows(s, r, @[r]) THEN @[r] ELSE 0]]
  /\ excused' = [excused EXCEPT ![b] = {}]
  /\ UNCHANGED <<opportunistic, pending, done, sees, mark, waiting>>

(* hipMallocAsync(), AllocateMemory(): the first accepted block, in the
   order of the heap. *)
Reuse(s, size) ==
  /\ Accepted(s, size) # {}
  /\ MakeBusy(Min(Accepted(s, size)), s)
  /\ UNCHANGED event

(* AllocateMemory() that finds none: a new memory object. *)
Allocate(s, size) ==
  /\ Accepted(s, size) = {}
  /\ \E b \in Blocks :
        /\ heap[b] = "none" /\ Size[b] = size
        /\ MakeBusy(b, s)
        /\ event' = [event EXCEPT ![b] = NoEvent]

(* FreeMemory() first shrinks a free heap that is larger than the busy one
   of what has retired and, when the device is low on memory, of the first
   blocks of the rest, which it waits for, until half of the rest is left. *)
Outgrown == Total(Free) > Total({c \in Blocks : heap[c] = "busy"})
Shrunk(low) ==
  LET retired == {c \in Free : Retired(c)}
      rest == Free \ retired
      forced == {c \in rest : 2 * Total({d \in rest : d >= c}) > Total(rest)}
  IN IF ~Outgrown THEN {} ELSE retired \cup (IF low THEN forced ELSE {})

(* The blocks of B are freed; those of E are erased from the free heap and
   given back, which leaves nothing of them here. *)
PutAway(B, E) ==
  /\ heap' = [c \in Blocks |-> IF c \in B THEN "free" ELSE IF c \in E THEN "none" ELSE heap[c]]
  /\ user' = [c \in Blocks |-> IF c \in B THEN Nobody ELSE user[c]]
  /\ used' = [c \in Blocks |-> IF c \in E THEN Zero ELSE used[c]]

(* hipFreeAsync(), FreeMemory(): the host waits for the old event of the
   block and marks the freeing stream with a new one.  The application
   frees on a stream that its uses of the block are ordered before. *)
FreeAsync(b, s, low) ==
  /\ heap[b] = "busy" /\ Ordered(used[b], s)
  /\ LET owner == user[b][1] IN s # owner => Follows(s, owner, user[b][2] + 1)
  /\ Retired(b)
  /\ LET shrunk == Shrunk(low) IN
     /\ \A c \in shrunk : Retired(c)
     /\ Give(s)
     /\ PutAway({b}, shrunk)
     /\ safe' = [c \in Blocks |-> IF c = b THEN safe[c] \cup {s}
                                ELSE IF c \in shrunk THEN {} ELSE safe[c]]
     /\ event' = [c \in Blocks |-> IF c = b THEN <<s, Issued(s) + 1>>
                                 ELSE IF c \in shrunk THEN NoEvent ELSE event[c]]
     /\ excused' = [c \in Blocks |-> IF c = b THEN {user[b][1]}
                                   ELSE IF c \in shrunk THEN {} ELSE excused[c]]
  /\ UNCHANGED <<opportunistic, done, mark, waiting>>

(* The blocks ReleaseFreedMemory() gives back, after a synchronization,
   and TrimTo(0): what is in the free heap and has retired. *)
Releasable == {b \in Free : Retired(b)}
Release(B, freed) ==
  /\ PutAway(freed, B)
  /\ safe' = [b \in Blocks |-> IF b \in B THEN {} ELSE safe[b]]
  /\ event' = [b \in Blocks |-> IF b \in B \cup freed THEN NoEvent ELSE event[b]]
  /\ excused' = [b \in Blocks |-> IF b \in B THEN {} ELSE excused[b]]
  /\ UNCHANGED <<opportunistic, pending, done, sees, mark, waiting>>

Trim == Releasable # {} /\ Release(Releasable, {})

(* hipFree(): SyncAllStreams() waits for the device and trims; the block
   then waits in the free heap without an event, safe for all. *)
HipFree(b) ==
  /\ heap[b] = "busy" /\ \A s \in Streams : pending[s] = <<>>
  /\ Release(Releasable, {b})

(* Mutant of Drained: the stream goes away while it has work. *)
NotDrained(s) == TRUE

(* hipStreamDestroy(), then a stream at the same address.  RemoveStream()
   erases the stream from copies of the entries, so that safe_streams_
   keeps it; but the stream is drained before it goes. *)
Drained(s) == pending[s] = <<>>

Recreate(s) ==
  /\ Drained(s) /\ \A w \in waiting : w[1] # s
  /\ sees' = [sees EXCEPT ![s] = Zero]
  /\ UNCHANGED <<opportunistic, pending, done, heap, safe, event, mark, waiting, user,
                 used, excused>>

Next ==
  \/ \E s \in Streams : Complete(s) \/ Recreate(s)
  \/ \E s \in Streams, e \in Events : Record(s, e) \/ Wait(s, e) \/ StreamWait(s, e)
  \/ \E s \in Streams, b \in Blocks : Use(s, b)
  \/ \E s \in Streams, n \in {Size[b] : b \in Blocks} : Reuse(s, n) \/ Allocate(s, n)
  \/ \E s \in Streams, b \in Blocks, low \in BOOLEAN : FreeAsync(b, s, low)
  \/ \E b \in Blocks : HipFree(b)
  \/ Trim

Spec == Init /\ [][Next]_vars

----------------------------------------
(* A freed block goes to a stream only when every earlier use of it is
   complete or ordered before the next work of that stream, and is given
   back to the system only when every use is complete.  Excused is a stream
   whose work does not follow the free, and which either allocated the
   block or was told, since the free, to wait for a stream that follows the
   free or is excused itself: by an event recorded too early, or by a
   hipStreamWaitEvent() that is yet to give its marker. *)
ReuseIsSafe ==
  [][\A b \in Blocks : heap[b] = "free" =>
        /\ heap'[b] = "busy" =>
              LET s == user'[b][1]
              IN Ordered(used[b], s) \/ (s \in excused[b] /\ ~AfterFree(s, b))
        /\ heap'[b] = "none" => \A s \in Streams : used[b][s] <= done[s]]_vars
=============================================================================
