----------------------------- MODULE SysmemPool -----------------------------
(***************************************************************************)
(* amd::SysmemPool (rocclr/platform/object.hpp), the pool the commands are *)
(* allocated from: chunks of ChunkSize objects, the last ActiveSize of     *)
(* them listed in the ring active_allocs_.                                 *)
(*                                                                         *)
(* Alloc() takes the next global slot number with one atomic increment and *)
(* then looks its chunk up in the ring without the lock; only a thread     *)
(* whose chunk does not exist yet takes chunk_access_, to create it.       *)
(* Free() counts the chunk down with an atomic decrement; the thread that  *)
(* reaches zero unlists the chunk under the lock and deletes it outside.   *)
(*                                                                         *)
(* free_chunk_num_ only serves the report of the destructor and is left    *)
(* out.  A chunk is named by its number, so that memory the system gives   *)
(* out again is never taken for the chunk that was there before.           *)
(***************************************************************************)
EXTENDS Integers, FiniteSets

CONSTANTS
    Users,       \* the threads
    ChunkSize,   \* kAllocChunkSize, 2048 in the code
    ActiveSize,  \* kActiveAllocSize, 32 in the code
    MaxAlloc,    \* bound of this model: slots taken from the pool
    NoChunk      \* the null pointer

VARIABLES
    currentAlloc,  \* current_alloc_, the next slot
    maxChunk,      \* max_chunk_idx_
    active,        \* active_allocs_
    busy,          \* chunk -> busy_, its slots that were handed out
    free,          \* chunk -> free_, its slots that were not freed yet
    existing,      \* the chunks that are not deleted
    live,          \* the objects the callers hold: [chunk, slot, base]
    slot,          \* user -> current, the slot it has taken
    object,        \* user -> the chunk it found its object in
    step,          \* user -> what it does next
    holder,        \* the user that holds chunk_access_, or NoChunk
    stalled        \* some user was overtaken by ActiveSize - 1 chunks

vars == <<currentAlloc, maxChunk, active, busy, free, existing, live, slot,
          object, step, holder, stalled>>

(* What the theorems assume of the constants. *)
PoolAssumption ==
  /\ ChunkSize \in Nat \ {0} /\ ActiveSize \in Nat \ {0} /\ MaxAlloc \in Nat \ {0}
  /\ NoChunk \notin Nat \cup Users

Slots == 0 .. MaxAlloc - 1
Chunks == 0 .. MaxAlloc \div ChunkSize
Pointers == Chunks \cup {NoChunk}

TypeOK ==
  /\ currentAlloc \in 0 .. MaxAlloc /\ maxChunk \in Nat
  /\ active \in [0 .. ActiveSize - 1 -> Pointers]
  /\ busy \in [Chunks -> Nat] /\ free \in [Chunks -> Int]
  /\ existing \subseteq Chunks
  /\ live \subseteq [chunk : Pointers, slot : 0 .. ChunkSize - 1, base : Pointers]
  /\ slot \in [Users -> Slots] /\ object \in [Users -> Pointers]
  /\ step \in [Users -> {"idle", "test", "lock", "publish", "find", "base",
                         "unlist", "delete"}]
  /\ holder \in Users \cup {NoChunk}
  /\ stalled \in BOOLEAN

Init ==
  /\ currentAlloc = 0 /\ maxChunk = 0
  /\ active = [i \in 0 .. ActiveSize - 1 |-> NoChunk]
  /\ busy = [c \in Chunks |-> 0] /\ free = [c \in Chunks |-> ChunkSize]
  /\ existing = {} /\ live = {}
  /\ slot = [t \in Users |-> 0] /\ object = [t \in Users |-> NoChunk]
  /\ step = [t \in Users |-> "idle"]
  /\ holder = NoChunk /\ stalled = FALSE

Idx(t) == slot[t] \div ChunkSize          \* the chunk of the slot t has taken
Entry(t) == active[Idx(t) % ActiveSize]   \* what the ring shows for it
Go(t, next) == step' = [step EXCEPT ![t] = next]

(* Take the next slot, with one atomic increment. *)
Take(t) ==
  /\ currentAlloc < MaxAlloc
  /\ slot' = [slot EXCEPT ![t] = currentAlloc]
  /\ currentAlloc' = currentAlloc + 1
  /\ Go(t, "test")

----------------------------------------
(* Alloc(): take a slot. *)
Claim(t) ==
  /\ step[t] = "idle" /\ Take(t)
  /\ UNCHANGED <<maxChunk, active, busy, free, existing, live, object, holder, stalled>>

(* The head of the while loop: does the chunk of the slot exist? *)
Test(t) ==
  /\ step[t] = "test"
  /\ Go(t, IF Idx(t) >= maxChunk THEN "lock" ELSE "find")
  /\ UNCHANGED <<currentAlloc, maxChunk, active, busy, free, existing, live,
                 slot, object, holder, stalled>>

(* A user that has a slot and no object yet, in a chunk that is or is about
   to be ActiveSize - 1 chunks old when chunk c is created. *)
Overtaken(c) ==
  \E t \in Users : /\ step[t] \in {"test", "lock", "find", "base"}
                   /\ c + 1 - Idx(t) >= ActiveSize

(* Mutant of Missing: no second check under the lock. *)
MissingBefore(t) == Idx(t) <= maxChunk

(* "Second check in a case of multiple waiters". *)
Missing(t) == Idx(t) = maxChunk

(* Under the lock, the chunk is still missing: create it.  The chunk it
   replaces in the ring is deleted when it has stale slots and its busy_
   and free_ agree. *)
Create(t) ==
  /\ step[t] = "lock" /\ holder = NoChunk /\ Missing(t)
  /\ LET stale == Entry(t)
         drop == /\ stale # NoChunk
                 /\ busy[stale] # ChunkSize /\ free[stale] = busy[stale]
     IN existing' = (existing \ (IF drop THEN {stale} ELSE {})) \cup {Idx(t)}
  /\ active' = [active EXCEPT ![Idx(t) % ActiveSize] = Idx(t)]
  /\ holder' = t
  /\ stalled' = (stalled \/ Overtaken(maxChunk))
  /\ Go(t, "publish")
  /\ UNCHANGED <<currentAlloc, maxChunk, busy, free, live, slot, object>>

(* Only now do the users that wait for the chunk see that it exists. *)
Publish(t) ==
  /\ step[t] = "publish"
  /\ maxChunk' = maxChunk + 1
  /\ holder' = NoChunk
  /\ Go(t, "test")
  /\ UNCHANGED <<currentAlloc, active, busy, free, existing, live, slot, object, stalled>>

(* Under the lock, another user created the chunk, or an earlier one is
   still missing: look again. *)
LookAgain(t) ==
  /\ step[t] = "lock" /\ holder = NoChunk
  /\ Idx(t) # maxChunk /\ maxChunk - Idx(t) < ActiveSize
  /\ Go(t, "test")
  /\ UNCHANGED <<currentAlloc, maxChunk, active, busy, free, existing, live,
                 slot, object, holder, stalled>>

(* Under the lock, the wait was so long that the chunk is about to leave
   the ring: drop the slot and take a new one. *)
DropSlot(t) ==
  /\ step[t] = "lock" /\ holder = NoChunk
  /\ maxChunk - Idx(t) >= ActiveSize
  /\ Take(t)
  /\ UNCHANGED <<maxChunk, active, busy, free, existing, live, object, holder, stalled>>

(* Take the address of the object: a first read of the ring, no lock held. *)
Find(t) ==
  /\ step[t] = "find"
  /\ object' = [object EXCEPT ![t] = Entry(t)]
  /\ Go(t, "base")
  /\ UNCHANGED <<currentAlloc, maxChunk, active, busy, free, existing, live,
                 slot, holder, stalled>>

(* Note the chunk of the object, a second read of the ring, and count it. *)
SetBase(t) ==
  /\ step[t] = "base"
  /\ live' = live \cup {[chunk |-> object[t], slot |-> slot[t] % ChunkSize,
                         base |-> Entry(t)]}
  /\ busy' = IF Entry(t) = NoChunk THEN busy ELSE [busy EXCEPT ![Entry(t)] = @ + 1]
  /\ slot' = [slot EXCEPT ![t] = 0] /\ object' = [object EXCEPT ![t] = NoChunk]
  /\ Go(t, "idle")
  /\ UNCHANGED <<currentAlloc, maxChunk, active, free, existing, holder, stalled>>

----------------------------------------
(* Free(): count the chunk down; the last one goes on to delete it. *)
Release(t) ==
  /\ step[t] = "idle"
  /\ \E o \in live :
        /\ o.base # NoChunk
        /\ live' = live \ {o}
        /\ free' = [free EXCEPT ![o.base] = @ - 1]
        /\ IF free[o.base] = 1
             THEN object' = [object EXCEPT ![t] = o.base] /\ Go(t, "unlist")
             ELSE UNCHANGED <<object, step>>
  /\ UNCHANGED <<currentAlloc, maxChunk, active, busy, existing, slot, holder, stalled>>

(* "Make sure active chunks don't have a stale pointer", under the lock. *)
Unlist(t) ==
  /\ step[t] = "unlist" /\ holder = NoChunk
  /\ active' = [i \in DOMAIN active |-> IF active[i] = object[t] THEN NoChunk ELSE active[i]]
  /\ Go(t, "delete")
  /\ UNCHANGED <<currentAlloc, maxChunk, busy, free, existing, live, slot, object,
                 holder, stalled>>

(* Delete the chunk, after the lock was released. *)
Delete(t) ==
  /\ step[t] = "delete"
  /\ existing' = existing \ {object[t]}
  /\ object' = [object EXCEPT ![t] = NoChunk]
  /\ Go(t, "idle")
  /\ UNCHANGED <<currentAlloc, maxChunk, active, busy, free, live, slot, holder, stalled>>

Next ==
  \E t \in Users :
      \/ Claim(t) \/ Test(t) \/ Create(t) \/ Publish(t) \/ LookAgain(t)
      \/ DropSlot(t) \/ Find(t) \/ SetBase(t)
      \/ Release(t) \/ Unlist(t) \/ Delete(t)

Spec == Init /\ [][Next]_vars

----------------------------------------
(* The ring never shows a chunk that was deleted: Alloc() reads it without
   the lock, and Create reads the counters of the entry it replaces. *)
RingIsLive == \A i \in DOMAIN active : active[i] \in existing \cup {NoChunk}

(* Both reads of the ring by one Alloc() give the chunk of its own slot. *)
OneChunk ==
  /\ \A t \in Users : step[t] \in {"find", "base"} => Entry(t) = Idx(t)
  /\ \A t \in Users : step[t] = "base" => object[t] = Idx(t)

(* No two callers hold one object, and the objects they hold are in chunks
   that exist. *)
Exclusive ==
  /\ \A o \in live : o.chunk = o.base /\ o.chunk \in existing
  /\ \A o, p \in live : o.chunk = p.chunk /\ o.slot = p.slot => o = p
  /\ \A t \in Users : step[t] = "base" =>
        ~\E o \in live : o.chunk = object[t] /\ o.slot = slot[t] % ChunkSize

(* A chunk goes away as soon as each of its slots was used and freed, and
   no chunk is deleted twice. *)
Reclaimed ==
  /\ \A c \in existing : free[c] = 0 =>
        \E t \in Users : step[t] \in {"unlist", "delete"} /\ object[t] = c
  /\ \A t \in Users : step[t] \in {"unlist", "delete"} => object[t] \in existing

(* All of it, as long as no thread stays between taking its slot and
   taking its object while ActiveSize - 1 later chunks are created. *)
SlotsAreSafe == ~stalled => RingIsLive /\ OneChunk /\ Exclusive /\ Reclaimed
=============================================================================
