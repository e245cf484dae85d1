# A TLA+ verification of clr, the compute language runtimes

clr is AMD's runtime for HIP (`hipamd/`) and OpenCL (`opencl/`) on a common
layer, ROCclr (`rocclr/`).  Its own logic is concurrent bookkeeping: application
threads, one worker thread per queue, signal-handler threads and the GPU share
command queues, events, reference counts, rings and pools.  The modules here
model that bookkeeping, TLC checks it on small instances, and TLAPS proves the
central lock, the lock-free queue, the callbacks, the order of the queues with and without
worker threads, the AQL rings, the pool of commands and the pool of device memory, for any
number of threads, commands and streams.

Paths below are relative to `src/`.

## 1. Inventory

### The parts, from the bottom up

| Part | Code | State | Operations |
|---|---|---|---|
| Semaphore | `rocclr/thread/semaphore.*` | an atomic counter, a `sem_t` | `post`, `wait`, `timedWait`, `reset` |
| Monitor | `rocclr/thread/monitor.*` | lock bit and list of contenders in one word, the on-deck word, list of waiters, owner, lock count | `tryLock`, `lock`, `unlock`, `wait`, `notify`, `notifyAll` |
| ConcurrentLinkedQueue | `rocclr/utils/concurrent.hpp` | linked nodes, tagged head and tail pointers | `enqueue`, `dequeue`, `empty` |
| HostQueue | `rocclr/platform/commandqueue.*` | FIFO of commands, last command, `acceptingCommands_`, batch, the worker | `append`, `flush`, `finish`, `terminate`, `loop` |
| Event, Command | `rocclr/platform/command.*` | status, wait list, callbacks, `notified_`, `notify_event_`, reference count | `enqueue`, `setStatus`, `awaitCompletion`, `notifyCmdQueue`, `setCallback` |
| Direct dispatch | `commandqueue.*`, `command.cpp`, `rocvirtual.cpp` | head and tail of the submission batch | `FormSubmissionBatch`, submission by the calling thread, completion by the signal handler |
| ROCm virtual device | `rocclr/device/rocm/rocvirtual.*` | ring of signals, AQL ring, kernel-argument chunks, dirty fence | `ActiveSignal`, `WaitingSignal`, `dispatchGenericAqlPacket`, `allocKernArg`, `flush`, `updateCommandsState` |
| SysmemPool | `rocclr/platform/object.hpp` | chunks of command storage, free counters | `Alloc`, `Free` |
| Device | `rocclr/device/device.hpp` | active queues | `addToActiveQueues`, `removeFromActiveQueues`, `getActiveQueues` |
| HIP streams, devices | `hipamd/src/hip_stream.cpp`, `hip_device.cpp` | set of streams, null stream | creation, destruction, `WaitActiveStreams`, `SyncAllStreams` |
| HIP events | `hipamd/src/hip_event.*` | the recorded event, the device it was recorded on | `addMarker`, `query`, `synchronize`, `streamWait`, `elapsedTime` |
| HIP memory pools | `hipamd/src/hip_mempool_impl.*` | busy and free heaps, per-allocation safe streams and event | `AllocateMemory`, `FreeMemory`, `TrimTo` |
| HIP graphs | `hipamd/src/hip_graph_internal.*` | nodes, edges, stream and launch number of each node | `TopologicalOrder`, `ScheduleNodes`, `clone`, `Run` |
| OpenCL API | `opencl/amdocl/cl_*.cpp` | handles the application holds | enqueues, user events, releases |

Threads (`thread.cpp`), stream capture, memory objects, device-side host calls,
programs and code objects, and the PAL backend are listed in `PROJECT.json` with
what becomes of them.

### How the parts interact

An API call makes a `Command` with a wait list (one reference to each event in
it) and calls `enqueue()`.  `append()` takes a reference, marks it queued, puts
it into the queue's FIFO and, in HIP, remembers it as the last command; `flush()`
notifies the worker under `queueLock_`.  The worker dequeues, waits for events
of other queues (after flushing its own batch, since somebody may be waiting
for commands in it), submits to the virtual device and collects submitted
commands in a batch.  A marker flushes the batch: the device waits for the GPU
and completes each command, which wakes whoever is in `awaitCompletion()` and
drops the runtime's references.  A thread that waits for an event sends one
marker after it (`notifyCmdQueue()`), for otherwise nothing would flush the
batch.  `finish()` waits for the last command; `terminate()` sends a last marker,
stops the worker and joins it.  All blocking goes through `Monitor`, which
sleeps on the two semaphores of the calling `Thread`.

### What is hard, and what makes each part correct

The hazards are in `PROJECT.json`, each at the line where it bites.  By part:

* *Monitor.*  Every load and CAS interleaves with any other.  One holder at a
  time; a node, which lives on a sleeping call's stack, is in exactly one place
  or none; one thread on deck; no wake-up lost between an unlocker that leaves
  the work to another and that other; nesting restored after a `wait()`.
* *ConcurrentLinkedQueue.*  Producers stall between linking a node and moving
  `tail_`; nodes are reclaimed and reused under other threads' pointers.  FIFO,
  nothing lost, empty means empty, no access to reclaimed memory.
* *HostQueue, Event.*  Lost notifications between a look at the queue (or at a
  status) and the wait; the order of the last-command pointer against the order
  of the FIFO; wait lists and batches across queues that wait for each other;
  reference counts through eight kinds of holder; failures of events.  Commands
  settle in order and after their events, `finish()` means finished, nothing is
  freed early or leaked, every call returns.
* *Direct dispatch.*  Batches are formed by the calling thread and completed by
  a handler of the HSA runtime; `execution()` and `notify_lock_` are taken in both
  orders and held over waits for the GPU.  `finish()` means executed, a command is
  in one batch, nothing is freed early or leaked, no deadlock.
* *Signals, AQL ring, kernel arguments.*  A signal, a packet or an argument chunk
  is used again while the GPU may still read it; a copy that fails on one engine
  falls back to another.  Order of the stream, freshness of what is reused, and
  nobody stuck.
* *Event callbacks.*  An entry is pushed while the list is run: once each, not
  before its status, and none forgotten.
* *Pools.*  SysmemPool reads a chunk pointer outside the lock.  Memory pools
  hand memory freed on one stream to another: only after its uses.
* *Streams, HIP events.*  Raw queue pointers outlive the lock; two event locks
  are taken in argument order.
* *Graphs.*  Nodes spread over streams that run side by side, and waits that are
  thought redundant are left out.  Every edge is kept on the GPU, through child
  graphs too; a launch is in line with its stream; a cycle is refused.

## 2. Modules

| Module | Models | Role |
|---|---|---|
| `Semaphore` | `amd::Semaphore` | state and atomic steps; extended by `Monitor` |
| `Monitor` | `amd::legacy_monitor::Monitor` | detailed specification |
| `AbstractMonitor` | the promises of `monitor.hpp` | abstract lock and condition |
| `MonitorProofs` | | theorems about `Monitor`: its invariant, its nodes, what it promises |
| `ConcurrentQueue` | `amd::ConcurrentLinkedQueue` | detailed specification |
| `AbstractQueue` | "first-in-first-out" | abstract queue |
| `QueueProofs` | | theorems about `ConcurrentQueue` |
| `HostQueue` | `amd::HostQueue` with worker threads, `amd::Event`, reference counts | detailed specification |
| `AbstractHostQueue` | in-order queues with wait lists | abstract specification |
| `HostProofs` | | theorems about `HostQueue`: its history, what it promises |
| `DirectDispatch` | `amd::HostQueue` and `amd::Event` with direct dispatch, the signal handler | detailed specification |
| `DirectProofs` | | theorems about `DirectDispatch` |
| `VirtualGPU` | `roc::VirtualGPU`: signals, AQL ring, kernel arguments, DMA copies | detailed specification |
| `VirtualProofs`, `AirProofs`, `SignalProofs` | | theorems about `VirtualGPU` |
| `EventCallbacks` | `setStatus()`, `setCallback()`, `processCallbacks()` of `amd::Event` | detailed specification |
| `SysmemPool` | `amd::SysmemPool`, where commands are allocated | detailed specification |
| `MemPool` | `hip::MemoryPool` and its heaps | detailed specification |
| `GraphLaunch` | `hip::Graph` and `hip::GraphExec`: topological order, streams, launch | detailed specification |
| `MCMonitor`, `MCConcurrentQueue`, `MCHostQueue`, `MCDirectDispatch`, `MCVirtualGPU`, `MCGraphLaunch` | | instances for TLC |
| `MCGraphs` | | the graphs of the instances of `GraphLaunch` |
| `Parts`, `MCParts` | `EventCallbacks`, `SysmemPool`, `MemPool`, `GraphLaunch` | four parts that share no state, instantiated in one module; a behavior is about one of them |
| `PartsProofs` | | theorems about the first three of them, each alone and in `Parts` |

The layers meet by refinement instead of one giant product.  `HostQueue` treats
a critical section of `lock_`, `queueLock_` or `lastCmdLock_` as one step, which
`ImplementsMonitor` and `MutualExclusion` justify, and its FIFO as a sequence,
which `ImplementsFifo` justifies.  `DirectDispatch` looks at the GPU as a queue of
packets that runs in order after its dependencies; `VirtualGPU` shows how signals,
ring and engines give that (`StreamOrder`).  `MemPool` and `GraphLaunch` rely on the
same order.
Where one module checks several shapes of a system, the shape is a frozen
variable `setup` that `Init` draws from a set of the instance.

### Semaphore and Monitor

`contendersList_` is one machine word: bit 0 is the lock, the rest points to the
first contender.  The model has `locked` and `contenders`, and a CAS compares
the bit and the head, which is what the word holds.  A node is named by its
semaphore, since a node is on the stack of one call and carries that thread's
lock or suspend semaphore.  `pc` names the place in the code; `head`, `rest` and
`target` are the locals that survive from one atomic access to the next, and
they are what makes the CASes fail.

| Action | Code |
|---|---|
| `TryLock`, `Lock`, `FindLocked`, `FindFree`, `Relock`, `Cas` | `tryLock()` and its callers `lock()`, `trySpinLock()`, `finishLock()` and `wait()` |
| `ResetSemaphore` ... `LeaveDeck` | `finishLock()` and the second half of `wait()` |
| `Wait`, `Notify`, `NotifyAll`, `NotifyNext` | the condition |
| `Unlock`, `ClearBit`, `CheckDeck`, `CheckList` | `unlock()` |
| `Grab`, `Select`, `Pop`, `Install`, `Post`, `PostSignal` | `finishUnlock()`, `Semaphore::post()` |

Spinning and yielding change no state: a step not yet taken.  `depth` is a
history variable, the nesting the client believes in.  `SpuriousCAS` says
whether `compare_exchange_weak` may fail on an equal word: it does not on x86,
it may on ARM.  `MaxDepth` bounds nesting and `MaxDrift` how far waits that time
out drive a counter below zero.

### ConcurrentQueue

One action per load or CAS of a shared pointer.  Pointers are a node and a tag;
`TagCount` is 32 in the code.  A `setup` says which threads call and whether the
allocator hands reclaimed nodes out again: without, a run shows the algorithm
itself, with, also what reuse does.  `Advance` joins the read of `value_` with the
CAS of `head_`; the comment there says why.

### HostQueue

Threads are the clients and the workers, and a worker is named by its queue.
`command` has each command's queue, wait list, status and `notified_`; `refs` is
its reference count, every `retain()` and `release()` in its place; `queue` has
the FIFO, last command, accepting flag and batch.  `order` (everything appended)
and `my[t].due` (what a `finish()` has to wait for) are history.

| Action | Code |
|---|---|
| `Create`, `AppendCommand`, `SwapLast`, `DropLast`, `Flush` | `Command::enqueue()`, `append()`, `flush()` |
| `Await`, `FindDone`, `NotifyCmdQueue`, `DropMarker`, `Sleep`, `AwaitReturns` | `awaitCompletion()`, `notifyCmdQueue()` |
| `CreateUserEvent`, `SetUserEvent`, `SignalUserEvent`, `ReleaseHandle` | the OpenCL and HIP calls on events |
| `Take`, `FindNothing`, `NextEvent`, `EventAwaited`, `Insert`, `SignalError` | `loop()` |
| `CompleteHead`, `SignalHead`, `BatchFlushed` | `updateCommandsState()`, `setStatus()` |
| `FinishWithMarker`, `FinishLast`, `FinishIdle`, `ClearLast`, `FinishReturns` | `finish()` |
| `Terminate`, `DropFinalMarker`, `Stop`, `Join` | `terminate()` |

Choices a reader should know:

* This is the runtime with `AMD_DIRECT_DISPATCH` off: the default of OpenCL and of
  HIP outside Linux (`hip_context.cpp:39-44`).
* The device is external: `flush()` of the virtual device waits for the GPU, so
  a batch completes some time after it was flushed.  CL_RUNNING lies between
  submitted and complete and is observed by nobody here; `EventCallbacks` has it.
* HIP with a dirty fence sends a marker in `finish()` and without one does not.
  The device decides, so both actions are enabled.  `finish()` skips its wait for
  a command with a finished HW event; without direct dispatch only a profiling
  marker has one, and those are not modelled.
* A queue is terminated when its last reference goes, so no other client is in a
  call on it.  `EarlyRelease` FALSE adds that no thread waits for an event of
  that queue; TRUE, as in `hostqueue_cl`, is OpenCL's rule, under which an
  application may drop a queue and keep its events.
* The queues of `Init` are constructed: the handshake between the constructor
  and the new worker is over.
* Markers of `notifyCmdQueue()` are numbered after the command they follow, one
  each, because `notified_` lets only one caller send it.

### DirectDispatch

The same objects as in `HostQueue`, with no worker: `enqueue()` submits from the
calling thread, and a `Handler` completes batches.  `execution` and `notifyLock`
are explicit, since a thread may block while it holds them; `lock_` of an event is
not (`HostQueue` has its wait and signal).  `command` adds what direct dispatch
keeps: `hwEvent` (the packet's signal), `notifyEvent`, `next` and `batchHead`, and
`deps`, the signals its packet waits for, taken when it is written.  `ran` is what
the GPU has executed, apart from `status`, which handlers update late.

| Action | Code |
|---|---|
| `Launch`, `StreamWait`, `ReleaseHandle` | a launch or copy, `hipEventRecord()`, `hipStreamWaitEvent()`, `hipEventDestroy()` |
| `WaitStream`, `WaitMarker` | a null stream or blocking stream waiting for another stream's work |
| `WaitList`, `Notify`, `Notified`, `Unlock`, `Enqueued` | `Command::enqueue()`, `notifyCmdQueue()` |
| `Form` | `FormSubmissionBatch()` |
| `SubmitPacket`, `SubmitCpuWait`, `Reset`, `SetComplete`, `Advance` | submission to the virtual device, `flush()`, `ResetSubmissionBatch()`, `updateCommandsState()` |
| `Execute`, `SignalHandler` | the GPU; `HsaAmdSignalHandler()` |
| `Finish`, `FinishIdle`, `FenceIgnored`, `Fence`, `SignalFalls`, `Await`, `WakeUp`, `Clear`, `Return`, `Terminate` | `finish()`, `terminate()`, `awaitCompletion()` |

`FinishMeansExecuted` is about the GPU, because `finish()` may return on a signal
before a handler has set any status.  `Lifetimes` excuses one reference: `terminate()`
retains the last command and then overwrites its local with a marker when a batch
is open.

### VirtualGPU

One thread at a time drives a virtual device, the holder of `execution()`, so the
locals of a call belong to the device.  A call is a list of steps, `todo`; each
action does the first.  A `Ticket` is a signal together with the number of its
use: a signal that is set again under a packet that still waits for its previous
use shows as a ticket that no longer matches.  `done` is what the GPU has finished;
`memory` is which command wrote a place of the argument pool last.

| Action | Code |
|---|---|
| `Submit`, `ReleaseEvent` | `submitKernel()`, `submitMarker()`, copies, `flush()`; `~Event()` |
| `Alloc`, `NextChunk` | `allocKernArg()` |
| `BlockingWait`, `Barrier`, `CopyWait`, `WaitCurrent` | `WaitingSignal()`, `dispatchBlockingWait()`, `dispatchBarrierPacket()`, waits on the CPU |
| `GrowList`, `ReuseSignal` | `ActiveSignal()` |
| `Reserve`, `Write`, `Kernel` | `dispatchGenericAqlPacket()` |
| `StartCopy`, `CopyFails`, `Fence` | `rocrCopyBuffer()` and its fallback, fences between engines |
| `StartKernel`, `EndKernel`, `PassBarrier`, `RunCopy` | external: packet processor and DMA engines |

### EventCallbacks

Threads that set the status race with threads that register a callback.  `Load`
and `CompareAndSwap` are the two accesses of `setStatus()`, `ReadHead` to `EndWalk`
the walk over the lock-free list, `Push` and `TestStatus` the two halves of
`setCallback()`.  `setup` gives a history: an OpenCL command through all statuses or
to an error, a user event that two threads end, a HIP command.  Entries are
registered for a status in OpenCL; HIP registers at the end.

### SysmemPool

`Claim`, `Test`, `Create`, `Publish`, `LookAgain`, `DropSlot`, `Find`, `SetBase` are the
atomic accesses of `Alloc()`, `Release`, `Unlist`, `Delete` those of `Free()`.  A slot is
a number drawn from the counter; the chunk behind it is found in a ring of
`ActiveSize` pointers.  `stalled` is a history variable: it becomes true when a
thread sleeps for so long between drawing its slot and reading the ring that the
ring has gone around (31 chunks of the code).

### MemPool

The GPU is reduced to what the pool relies on.  Each stream has a number of units
of work; a clock maps streams to numbers; `pending` holds, for every unfinished
unit, the clock it waits for, and `sees` what the next unit will wait for.  A block
of a heap has its `safe` streams and `event` as in `MemoryTimestamp`, and `used`, the
clock of its uses (history).  An event of the application keeps the position of its
latest record, `mark`; a wait for it makes the waiter safe at once, and gives it a
marker in a later step (`waiting`).  The application may free a block on any stream
that its uses are ordered before.  `excused` is history too: see section 5.

| Action | Code |
|---|---|
| `Complete`, `Use` | external: the GPU and the application's kernels |
| `Record` | `hipEventRecord()` |
| `Wait`, `StreamWait` | `hipStreamWaitEvent()`: `AddSafeStream()`, then `Event::streamWait()` |
| `Reuse`, `Allocate` | `AllocateMemory()`, `FindMemory()` |
| `FreeAsync` | `FreeMemory()` with a stream, the release of an outgrown free heap included |
| `Trim`, `HipFree` | `ReleaseFreedMemory()`, `TrimTo()`; `hipFree()` |
| `Recreate` | `hipStreamDestroy()`, and a new stream at the same address |

### GraphLaunch

A graph is built, instantiated and launched by one thread, so the calls run in the
order of the code: `todo` is the list of calls that the recursion still has to make.
Concurrency is on the GPU.  `knows` has, for each stream, what its next command is
ordered after, and `after` what each node was ordered after when it was enqueued:
both are history, and the properties are about them.  A graph is a record with the
edges of each node in their order, which the stream assignment depends on, and the
child graph node that a node is inside of.

| Action | Code |
|---|---|
| `Instantiate` | `ihipGraphInstantiate()`, `TopologicalOrder()` |
| `ScheduleVertex`, `ScheduleNode` | `ScheduleNodes()`, `ScheduleOneNode()` |
| `Run` | `GraphExec::Run()` and the first part of `RunNodes()` |
| `EnqueueListed`, `ListDone` | `EnqueueGraphWithSingleList()` |
| `SkipNode`, `RunOneNode` | `RunOneNode()` |
| `EndNodes` | the end of `RunNodes()` |

## 3. Runs

All runs use two workers of TLC; the largest takes a few minutes.  Deadlock
checking is off because the systems may stop: nobody need call anything more.

| Run | Instance | Shows |
|---|---|---|
| `monitor_all` | 2 threads, recursive, all operations between them, nesting 2, drift 2 (51 thousand states) | types, the inductive invariant, nesting; `ImplementsMonitor`; `Progress` |
| `monitor_wait` | 3 threads: waiter, notifier, locker; timeouts that race with a post (drift 0) (2.0 million) | stable deck, each node in one place, no lost wake-up |
| `queue_all` | three setups of a queue with 3 tags and 4 nodes: 2 producers and the worker, 3 elements; the same with an observer, 2 elements; 1 producer, 4 elements through reused nodes (170 thousand) | `ImplementsFifo`, empty means empty, no reclaimed access with one producer, delivery of every element |
| `hostqueue_hip` | HIP, 2 clients with a stream each, 2 commands, waits and `finish()` (2.0 million) | all safety properties of `HostQueue`, `InOrder` |
| `hostqueue_cl` | OpenCL, 2 clients sharing 2 queues, user events that succeed or fail, `terminate()` of queues whose events may be awaited (407 thousand) | finish, lifetimes and order where clients share queues, failure of events |
| `hostqueue_live` | HIP, 1 client on 2 queues, 2 commands, all calls with `terminate()` (237 thousand) | every call returns |
| `hostqueue_finish` | HIP, 2 clients sharing streams, 3 commands | finding 1 |
| `directdispatch` | 2 clients sharing 2 streams, all calls, 3 commands, batches of 1 (1.1 million) | all properties of `DirectDispatch` |
| `virtualgpu` | 2 virtual devices with a ring each, or sharing one, and one whose list of signals cannot grow; 3 or 4 commands, rings of 4, 2 argument chunks (1.3 million) | all properties of `VirtualGPU` |
| `virtualgpu_fill` | 1 virtual device, fills and kernels, 4 chunks | finding 2 |
| `parts` | 2 setters and 2 callbacks; 3 threads, chunks of 2, a ring of 3, 7 slots; 3 streams, 2 blocks, an event, 4 units of work; graphs of 4 nodes with at most 2 edges each, and with a child graph of 3 between two nodes, on 2 streams (1.0 million) | each callback runs once and in time; slots of a pool are safe; reuse of memory is safe; a launch follows its graph |
| `graph_fan` | a graph of 7 nodes, one with 6 edges, on 4 streams | finding 3 |

**Why the bounds are enough.**  A monitor needs two threads for every pair of
racing accesses, and a third for a node behind another node on the list: that is
when the CAS of `finishUnlock()` can meet a list changed behind its back.
Calls repeat without bound, so a node comes back to a list it has left; nesting
and drift are the only bounded counters.  `MaxDrift` is how far below zero a
timeout may leave a counter: 0 lets a wait expire only when a post has been
counted and its token is still on the way, 2 adds waits that expire with no post
in sight, twice in a row, so that later posts meet a shifted counter.  A second
waiter beside a notifier and a locker is left out: its state space is several times larger.

Three elements and four nodes let one producer stall between link
and swing while another links behind it and the worker overtakes both; three
tags make the tag wrap inside the run.  Two commands and two queues give a wait
list across queues in each direction, and every wait, `finish()` and `terminate()`
adds markers of its own on top; `hostqueue_cl` counts markers of `finish()` and user
events against the bound.

With direct dispatch a call may be a command, an event, a marker that closes a
batch, or a wait for another stream, and three of them give a batch with two
commands closed by a third, two waits in opposite directions, and a `terminate()`
under a notification.  `MaxBatch` 1 makes `enqueue()` close a full batch itself.
Four commands go once around a ring of 4 (each kernel may bring a barrier), around
two argument chunks of one kernel, and around the smallest list of signals.

A pool of 7 slots goes once around its ring of 3 chunks of 2, so a chunk is
created in a slot whose previous chunk may be being deleted; three threads give one
that creates, one that waits for it and one that frees.  Four units of work are a
record, a kernel, the free's marker and the marker of a wait, and one wait at a time
may be between its two steps; five units, or two waits, give no other outcome.  The
streams and the threads of the pool of slots are the same model values, so that one
symmetry serves both: only one part runs.

Four nodes with two ordered edges each are the smallest graphs with a diamond, with a
node that two streams lead to, with roots on both streams and more of them than
streams, and with cycles of two, three and four nodes.  Two streams make them wrap.

**Symmetry** is used only in runs without liveness: nodes and producers, queues
and clients that may do the same things.  In `hostqueue_hip` a client can be
renamed only together with its own stream.

**Fairness.**  A thread inside a call of the runtime is scheduled again:
weak fairness on its steps.  Nothing is assumed of what the application calls
next or that it ever unlocks a monitor, except as stated in the property; a
timed wait need not expire.  In `queue_all` the worker keeps dequeuing, as
`loop()` does.  Spinning threads do not starve others under weak fairness per
thread; `Progress` promises that *some* thread gets the lock, since the monitor
allows barging and no single thread is promised it.  `CallsReturn` has no user
events, which the application may leave unset forever, and one client, which
cannot wait for work it has not submitted; deadlock through other clients would
need a wait list that is cyclic, and a wait list names older commands.

`DirectDispatch` and `VirtualGPU` have no liveness run: their state spaces are too
large for TLC's liveness check on instances of interest.  `NoDeadlock` and
`NeverStuck` say instead that in no reachable state everybody waits: some call, the
GPU or a handler can take a step.

**Properties not obvious from their names.**  `NodesAreLive` counts the places a
stack node is in (contention list, wait list, deck, the hands of an unlocker)
and demands exactly one while its call sleeps and none otherwise.
`NoLostWakeup` says what must be under way when the lock is free.
`Lifetimes` bounds the reference counts from both sides: whatever can still be
reached has a reference, at rest nothing else has, and nothing is appended to a
terminated queue but a late marker of `notifyCmdQueue()`.  `ActiveWhenPending` and the two halves of
`NoMissedWakeup` each name the one window in which two pieces of state may disagree.  `OneBatch` says a
submitted command is in one batch, hence completed and released once.
`SignalsFresh` compares tickets: nobody waits for a use of a signal that has been
replaced.  `SlotsAreSafe` is four facts, under the hypothesis `~stalled`: the ring shows
living chunks only, no number of a chunk has two chunks, no slot is handed out
twice or in a deleted chunk, and a chunk goes once its objects are gone.

## 4. Proofs

TLC checks small instances; TLAPS proves, for every value of the constants:

| Module | Theorem | States |
|---|---|---|
| `MonitorProofs` | `Invariance`, `TypeCorrectness` | `Spec => []IInv`, `Spec => []TypeOK` |
| | `Exclusion` | `Spec => []MutualExclusion` |
| | `DeckStability` | `Spec => []OnDeckIsStable` |
| | `Nesting` | `Spec => []CountIsNesting` |
| | `NodesStayLive` | `Spec => []NodesAreLive` |
| | `Implements` | `Spec => ImplementsMonitor`, the refinement of `AbstractMonitor` |
| | `WakeupsArrive` | `Spec => []NoLostWakeup`, where `SpuriousCAS = FALSE` |
| `QueueProofs` | `TypeCorrectness` | `Spec => []TypeOK`, where `ReuseIsByPair` |
| | `OrdersFirstInFirstOut` | `Spec => ImplementsFifo`, the refinement of `AbstractQueue`, where `ReuseIsByPair` |
| | `EmptinessIsTrue` | `Spec => EmptyIsTrue`, where `ReuseIsByPair` |
| | `PairStaysSafe` | `Spec => []PairIsSafe`, where `ReuseIsByPair` and there is one consumer |
| `PartsProofs` | `EventTypeCorrectness`, `CallbacksAreRun` | `Spec => []TypeOK` and `Spec => []CallbacksRun` of `EventCallbacks`, where `HistoriesAreSane` |
| | `PoolTypeCorrectness`, `SlotsStaySafe` | `Spec => []TypeOK` and `Spec => []SlotsAreSafe` of `SysmemPool`, where `PoolAssumption` |
| | `ReuseStaysSafe` | `Spec => ReuseIsSafe` of `MemPool`, where `MemoryAssumption` |
| | `EventsAreHeard`, `ObjectsStaySafe`, `MemoryStaysSafe` | the same three properties for the composition, `Parts` |
| `HostProofs` | `QueuesKeepOrder` | `Spec => []InvOrder` |
| | `ImplementsOrder` | `Spec => InOrder`, the refinement of `AbstractHostQueue` |
| | `FinishCompletes` | `Spec => []FinishMeansDone`, where `~IsHip \/ OneClientEach` |
| | `PendingIsActive` | `Spec => []ActiveWhenPending` |
| | `WorkerIsWoken` | `Spec => []NoMissedCommand`, the half of `NoMissedWakeup` about workers |
| | `NothingAppendedAfter` | `Spec => []NoAppendAfterTerminate`, a conjunct of `Lifetimes` |
| `DirectProofs` | `TypeCorrectness` | `Spec => []Types`, which is `TypeOK` without `refs` and `active` |
| | `FinishWaits` | `Spec => []FinishMeansExecuted` |
| | `OrderIsKept` | `Spec => []ExecutionOrder` |
| | `InOneBatch` | `Spec => []OneBatch` |
| `VirtualProofs` | `TypeCorrectness` | `Spec => []TypeOK` |
| | `NothingOverwritten` | `Spec => []NoOverwrite` |
| `SignalProofs` | `SignalsAreFresh` | `Spec => []SignalsFresh` |
| | `StreamsAreInOrder` | `Spec => []StreamOrder` |

Each proof module has one lemma for each conjunct of its invariant or for each
action that disturbs it, and says above it what it means.

### The monitor

For any set of threads, any choice of operations per thread, recursive or not,
and any bounds.  The assumptions are those named in `Monitor`: which operations a
thread calls, that the semaphores are the threads' pairs, that the sentinels of the
on-deck word are no semaphores, that the flags are Booleans and the bounds numbers.

*Exclusion.*  Mutual exclusion alone is not inductive.  `unlock()` clears the bit
without looking, so it must be known that who unlocks holds; a recursive
`tryLock()` trusts `owner_`, so `owner_` must name a holder and nobody else
(`OwnerInv`); and `unlock()` decides by the lock count whether to give the lock up,
so the count must be the nesting.  After `wait()` that count comes from a local, so
the nesting must survive in it (`PhaseInv`).  Stability of the deck needs that only
one thread holds the microlock and that the word is `Mark` while it does
(`MicrolockInv`).  `IInv` is the conjunction.

*Nodes.*  `NodesAreLive` counts places; `NodeInv` says what the count rests on.  A
node is on one list, on deck or in the hands of an unlocker, on a list once, and in
a place exactly while its call sleeps (`PlaceInv`).  An unlocker that
holds the microlock has read a list that is still the end of the list: others only push
in front of it (`LocalInv`, `EndsWith`).  So a head that is the same word is the same
list, and a node that comes back to a list it has left cannot deceive the CAS.

*Refinement.*  The abstract holder changes where the lock bit does, and a waiter
counts as waiting from the moment `unlock()` has cleared the bit: between the push on
the list of waiters and that moment the thread still holds the lock, and nobody can
notify it.  `WakeupsArrive` needs that somebody who sleeps is on the list, or on
deck, or posted to, or about to be (`SleepOf`, `DeckOf`), and that the lock does not
stay free beside contenders unless a thread on its way through `unlock()` looks after
them (`Heirs`).  With `SpuriousCAS = TRUE` the statement is false: see section 5.

### The lock-free queue

For any threads, nodes, number of elements and number of tags, one tag included;
`QueueAssumption` says that nodes and threads are finitely many, that there is a node
for the dummy, and that the null pointer is no node.  The hypothesis `ReuseIsByPair`:
memory that was given back is handed out again only where one producer works beside
one worker and nobody asks `empty()`.  Beyond it nothing can be proved, because a
thread that stalls for as many updates as there are tags has its CAS succeed on a
reused pointer; that is the hazard at `concurrent.hpp:47`, which no property covers.

`QueueInv(L)` says what the shared pointers and every thread's locals are, given the
nodes `L` that are in the queue, the dummy first.  They are linked in this order, all
different, and `tail_` is one of them (`Chain`).  A node that has left keeps its
successor (`Followed`), so an enqueuer that holds a `tail_` of long ago finds a
successor there, helps in vain and tries again: it never links to a node that is
gone.  A new node belongs to one thread until the CAS on `next_` (`Owner`,
`Distinct`).  A dequeuer holds the dummy of now or one that has left, and if its
`head_` is still the dummy, then the `tail_` it read cannot be behind it, which is why
head # tail is enough to move on (`Dequeuer`); for the same reason equal pointers with
no successor mean that the queue was empty since the call began.  With one producer
and one worker each holds the pointers of the queue, and `tail_` is behind only while
the producer is about to move it (`Pair`, `Lag`): that makes reuse safe.

Every step either leaves `L` alone (`QuietStep`), or appends a node (`LinkStep`), or
drops the first (`AdvanceStep`).  That the elements the specification finds by
following the links are those of `L` is an induction along the list
(`BehindChain`); induction on numbers comes from the library's theorem that every set
of numbers has a smallest one (`Least`, `Induction`).

### The callbacks of an event

For any threads that set the status and register callbacks, whatever each does, under
`HistoriesAreSane`: setters and registrars are different threads, and in HIP a command
is not complete when it starts, all callbacks are for its end, and one thread sets the
status.  `CallbacksRun` needs more than where each thread is (`Place`): an entry that
was exchanged is in one thread's hands or called (`Once`); nobody calls an entry before
the status it is registered for is reached (`Reached`); in OpenCL an entry whose status
was reached will be found by its registrar or by the setter that reached it (`Found`);
in HIP the setter comes after the registrations and leaves its walk with every entry
called (`Alone`).

### The host queues

For any queues, clients, streams and number of commands.  `NoneAssumption` says
that the null pointer is neither a thread nor a command.

`InvOrder` is about one history per queue: what was appended is, in this order, what
the worker has settled, its batch, the command in its hands, and its FIFO
(`QueueInv`); a command is in one history, once, behind those it waits for in the
same queue (`OrderInv`); what the worker skips in a wait list is in front of it in the
history, so has settled by the time the command does (`WorkerInv`); a command that is
not appended is in the hands of the one client that made it, and a marker of
`notifyCmdQueue()` in those of the thread that set `notified_` (`CommandInv`,
`HandInv`).  A step that changes no list is `Calm`, and one lemma carries all of
`InvOrder` over it; the eight `Loud` ones have a lemma each.  The refinement follows
step by step.

`FinishCompletes` adds what a client waits for: the commands of `my[t].due` are done
or stand, in the history of the queue, no later than the command that `finish()`
awaits (`DueOf`).  With OpenCL that command is a marker appended after them.  With HIP
it is the last command, and that it covers what the client has enqueued holds only when
the critical section of the FIFO and the one of the last command follow each other
in the same order for all commands (`LastInv`); two threads that append to one
stream break it, as the run `hostqueue_finish` shows.  `OneClientEach`, no two
clients share a stream, is the hypothesis under which the code keeps its promise.

`PendingIsActive` and `WorkerIsWoken` use only that a thread between the critical
sections of `append()` keeps its command (`HolderKept`).

`NothingAppendedAfter` has an invariant of its own, `InvClosed`.  A queue is shut from
the moment a client is in its `terminate()` (`Shut`), and a thread reaches it when it
appends to it or waits for an event of it that is not done, which may have it send a
marker (`Reaches`).  Nobody but that client reaches a shut queue (`ReachOf`), one client
ends it, once (`CloserOf`), and no command that is not done waits for an event of it
that is not (`WaitsOf`): a worker that takes a command of another queue would follow
its wait list into the shut one.  Where the application drops queues whose events
are awaited (`EarlyRelease`), the threads that wait do reach the shut queue, with a
marker of `notifyCmdQueue()`, and only commands of the application count as
reaching.  So the theorem has no hypothesis, and its statement leaves such a marker:
section 5 says when it comes.

### Direct dispatch

For any queues, clients, streams they share, operations, batch size and number of
commands.  `DirectDispatchAssumption` says that a client's streams are queues, that the
handler is no client, that the null pointer is neither a thread, a queue nor a command,
and that the bounds are numbers.

Most of `IInv` compares places in the rings: `Upto(d, c)` says that the packet of `d`
has run or stands before the one of `c` in one ring, so that it will have run when `c`
has.  No step undoes it (`Steady`).

*Order.*  When a packet is sent, every event of its wait list has run or has a signal
that comes no earlier than it (`Covered`); each such signal becomes a dependency, so
the events run first (`After`).  That there is a signal is the work of
`notifyCmdQueue()`: an event without one gets a marker behind it, in the same ring, and
the flag `notified_` is set under `notify_lock_` before the marker is sent and the
pointer to it afterwards (`Pairing`).  Who finds the flag set and the lock free
therefore finds the marker sent, or the event run where the marker was one that waits
on the CPU.

*Completion.*  `updateCommandsState()` walks a list that ends where `next_` is null.
The list of a marker holds only packets up to the marker (`ArmedInv`), so that all of
them have run when its signal falls (`WalkInv`).  This needs that the open batch of a
queue is such a list, which nobody but the thread with `execution()` extends, and that
it is reset before that lock is left (`BatchInv`): a batch that a marker closed never
grows.

*finish().*  The last command of a queue comes no earlier than anything in its ring,
except inside the critical section that has made a command the last but has not sent it
(`LastInv`).  So what a call waits for comes no later than the command in its hands
(`DueOf`), and the three ways to wait, for a signal, for the status that a handler sets,
and for the GPU under `execution()`, all end after it has run.  A queue without a last
command has an empty ring as long as it is open, for the last command is cleared only
where it has run and is still the last; the application calls nothing on a queue that
it destroys (`OpenInv`).

*Batches.*  `Batch()` is a recursive function, and to use its equation is to know that a
list ends.  `BatchIsWalk` shows from the second line of `Apart` that it is the least set
that `next_` does not leave (`Walk`), about which facts follow without induction.
`Apart` then speaks of lists and of places: the open batch of a queue, the batch of a
marker whose handler has not run, the list a thread walks.  No two commands have the
same next one, no submitted command leads to the head of a list, lists do not meet, and
each submitted command is in one.  Five lemmas say how the lists change: one begins or
grows at its end (`FormSubmissionBatch()`), moves from one place to another (a marker is
sent, its handler is called, a thread walks the open batch itself), and loses its first
command in two steps (`updateCommandsState()`).  A list that grows while a thread walks
it would be in two places: between the two `execution()` is held (`Resetting`).

The invariants do not mention the reference counts: that nothing is deleted while it is
in use (`Lifetimes`) is model-checked.

### The virtual device

For any number of devices, rings and their size, lists of signals, chunks of arguments
and commands, and for devices that share a ring as well as for those that do not.
`VirtualGPUAssumption` gives the bounds: there are at least as many signals as the lists
may grow to hold and the commands may take; the devices are finitely many and the
pool, which owns signals like a device, is none of them.  `NoneAssumption`: the null
pointer is neither a device, a command, a signal nor a packet.

*Types.*  `Basic` adds to them what a call has yet to do.  `todo` is always the rest of
a plan of one of the calls (`Planned`), a plan ends in what stores the packet or the
copy, and a call that has something to do is a call of a command (`InCall`).  A sequence
that is built step by step is here a set closed under `Cons` (`StepSeqs`).  That
`ActiveSignal()` finds a signal to create is a count: every signal in use stands in a
list, at one place, or belongs to a command, and there are not that many places and
commands (`NewSignal`).

*The ring.*  `RingPart` relates the indices of one ring to its slots.  The indices that
were reserved and not yet stored are those in the hands of the callers, no two of them
the same (`OwnIndex`); the stored ones lie in their slots, `i % RingSize`, and a caller
stores index `i` only when the ring is read past `i - RingSize + 1`.  So the slot of `i`
can hold nothing but what was stored for an index that is a multiple of `RingSize`
away, and all of those are read.

*The signals.*  A signal is used over and over, so `SignalsFresh` asks where every
reference to one may be, and `AirInv` (`AirProofs`) is about all that is in the air: the
packets in the rings, those with an index that no one has stored yet, the packets in the
hands of the callers, and the copies.  Each has a place, and every step is described by
what it does to the places: the packet of one device moves from one to another
(`Moves`), or the GPU empties one (`Finishes`).  The parts of the invariant:

* `SignalInv`: what is in the air means the last use of its signals; the signal that it
  lowers is busy and is lowered by nothing else.  This gives the theorem.
* `ListInv`, `CmdInv`, `CallInv`: no signal is twice in the lists, a command is in one
  place, and what a caller has in its hands is what its phase of the call makes it be.
  A phase (`Phase`) is the rest of the plan that it is in, told by its first steps.
* `WaitInv`: why a signal that somebody waits for is not taken.  `ActiveSignal()` takes
  the signal after the current one, or puts a new one there, and looks only at the signal
  and at the one that follows it.  A packet in a ring waits for a signal of the device's
  own list only if the next signal in the list falls behind it, in the same ring, or is
  yet to be taken (`OwnWait`); a packet that waits for another queue's signal is part of a
  command that is not done, which holds the event of the signal (`ExtWait`).
* `OrderInv`: the signals of one list fall in the order of the list (`FallInv`), so that
  one that has fallen has none before it that has not, and no one waits for it any more.
  What comes next for a device is behind the fall of its current signal (`ReadyOf`), and
  what runs for a quiet device is in front of the fall of one of its signals (`CoverOf`).
* `ChunkInv`, `KindInv`: the signals of chunks are guarded by one barrier, and a kernel
  in a ring waits for nothing.

`SignalProofs` has a lemma for each step of a call.  Those that arm no signal and move at
most their own packet are `Calm` and share one lemma.  Taking the next signal
(`Attaches`) is where a use could be forgotten: nobody lowers or awaits the signal
(`Unseen`), because the one after it has fallen too.

*The order of a stream.*  `StreamOrder` says of what the GPU may begin that all it has to
come after has ended.  That speaks of unfinished commands in places that may be far apart:
the other ring, an engine, the hands of another thread.  One place needs another
(`Needs`) if it is behind it in the ring or waits for the signal the other one lowers, and
places may need each other along a chain (`Leads`, and `First` for one with a link).  A
chain is said without recursion: it leads to whatever is in each set of places that has
its start and is closed under `Needs`.  What needs something cannot begin, so the theorem
follows from `StreamInv`:

* `InOrder`: from each unfinished command that one in a ring or an engine has to come
  after, the earlier ones of its stream and those of its wait list, a chain leads to it.
* `OldOf`, `WaitsOf`: the same for what a device is about to do (`After`).  The next packet
  of a device is after a place if a chain leads from it to the ring in front of that packet, or to
  the packet in hand; a copy, and whatever follows when the engine changes, is after it if a
  chain leads from it to the fall of the current signal.  The signals of the wait list count as soon
  as they are resolved; before that they are those of its events.
* `Placed`, `Heard`, `Past`: an unfinished command is in a call or in the air; the signal of
  an event is lowered by the command of the event and nothing else; and a command waits
  for earlier ones.

A step that moves one packet carries all chains along (`MovesLeads`).  Three steps do not:
what the GPU finishes needed nothing, so no chain goes through it (`FinishStream`); a new
signal is linked to the one before (`AttachStream`); and when a copy fails its signal is
lowered before its time.  Nobody waits for that one (`CopyUnawaited`), and what came before
it came before the signal the device falls back to, for which the copy was to wait
(`CopyFailsStream`).

### The pool of commands

For any threads, sizes and number of slots; `PoolAssumption` says that the sizes are
positive and that the null pointer is neither a chunk nor a thread.  `SlotsAreSafe`
speaks of the time before a thread was overtaken by the ring, and so does its
invariant, `PoolInv`.  The two counters of a chunk are what they are named for:
`busy` is the number of its slots whose object was handed out (`Gone`), and `free`
the number of slots that are left plus the objects in use (`Counts`).  A counter that
reaches zero therefore means that all slots were handed out and all objects came
back, once.  The ring shows the last `ActiveSize` chunks, but for those that are used
up (`Ring`), and nobody is so far behind as to look for an earlier one (`Taken`).  So
a chunk that is overwritten in the ring has handed out all its slots, and the
deletion in `Alloc()` of a chunk with stale slots never takes place: every chunk is
deleted by the one thread that counted it to zero (`Alive`, `NothingStale`).

### The pool of device memory

For any streams, blocks and bound on the work, with or without opportunistic reuse;
`MemoryAssumption` says that blocks are numbers, in the order of the heap.
`ReuseIsSafe` is about steps, and `MemInv` is what the three ways to accept a free
block rest on.  The event of the block comes after all its uses, so a retired event
means that the uses are complete (`Covered`, `Timed`), and whoever waits for the event
waits for the uses (`Followed`, of every clock that a unit or a stream holds).  A
stream the block is safe for waits for the event or is excused (`Entitled`): the one
that allocated the block is, when another frees it, and so is one that is made safe
while what it is told to wait for does not follow the free.  A block in use is safe
for its stream alone (`Owned`).  All this is kept as the GPU goes on: the order
between clocks is up to what is complete (`Before`), and completing a unit, which
other units then no longer wait for, preserves it (`ClocksSettle`).  A stream that is
destroyed may still be among the safe ones, and a new stream has its address: it
waits for nothing, and this is right because the last unit of a stream waits for all
the stream has seen (`Latest`), so that a drained stream has seen complete work only.
The bounds on clocks and waits, parts of `TypeOK` and `Next`, are model-checked only.

### Model-checked only

* Liveness, which is out of the prover's reach: `Progress`, `EveryElementDelivered`,
  `CallsReturn`.  Absence of deadlock in `DirectDispatch` and `VirtualGPU`
  (`NoDeadlock`, `NeverStuck`) speaks of enabled steps.
* What rests on reference counts.  `Release` follows a recursive function along a
  list of releases and the wait lists of what they free, and what it computes for
  every input needs induction along those lists.  This concerns `Lifetimes`
  (but for its conjunct `NoAppendAfterTerminate`, which is proved), the type of the
  counts in `HostQueue.TypeOK`, and `NoMissedSignal`: `signal()` is skipped for an
  event with one reference, and that a sleeper's reference is a second one is a fact
  about the sum of all references.  `DirectDispatch` counts in the same way
  (`Lifetimes`, and `refs` in `TypeOK`).
* `ArgsIntact` of `VirtualGPU` and `LaunchFollowsGraph` of `GraphLaunch`: see section 7.

## 5. Findings

Each has a run that ends in a counterexample.

1. **`finish()` may return while a command is queued**
   (`rocclr/platform/commandqueue.cpp:269`, run `hostqueue_finish`).  The FIFO and
   the last-command pointer are updated in separate critical sections, so with two
   threads on one stream they can disagree on which command is last.
2. **A fill's pattern may be overwritten before it is read**
   (`rocclr/device/rocm/rocblit.cpp:2011`, run `virtualgpu_fill`).
   `fillBuffer1D()` takes room for the pattern, and the launch then takes room for
   the arguments.  If the second overflows the chunk, the barrier that guards the
   chunk of the pattern is dispatched before the kernel that reads it.
3. **A node of a graph does not wait for the node it depends on**
   (`hipamd/src/hip_graph_internal.cpp:564`, run `graph_fan`).  From the fifth edge of
   a node on, a node with one dependency is launched without a wait, on whatever
   stream it is.  Usually an earlier edge has led to that stream and its node waits;
   when the first edge leads to the second, nothing does, and the sixth edge's node
   runs before the first node, and before what the application did earlier on the
   launch stream.

What follows a constant or a setup makes reproducible, without a run of its own:

* *A spurious CAS failure puts the thread on deck to sleep*
  (`rocclr/thread/monitor.cpp:328`).  `tryLock()` tries `compare_exchange_weak` once;
  the thread on deck takes a failure for "Somebody beat us to it" (131-132), but
  nobody did and nobody will post.  `SpuriousCAS = TRUE` in `Monitor_wait.cfg`
  violates `NoLostWakeup`.  x86 does not fail spuriously.
* *`dequeue()` frees a node another thread may still read*
  (`rocclr/utils/concurrent.hpp:148`).  The tags protect the CASes against reuse,
  nothing protects the read of `next_`.  A setup of two producers with `recycle` TRUE
  violates `NoReclaimedAccess`; with one producer it holds (`PairIsSafe`).
* *A marker appended to a terminated queue* (`rocclr/platform/command.cpp:285`).
  `notifyCmdQueue()` uses the queue of an unfinished event without a reference to
  it; OpenCL lets the application drop the queue and keep the event.
  `EarlyRelease` is `TRUE` in `HostQueue_cl.cfg`, and the third conjunct of
  `Lifetimes` says that it is only this marker, by a waiter for the queue's event; the
  marker then stays in the queue, which `NoLeak` excuses.  Without its conclusion the
  conjunct is violated.
* *A thread overtaken by the whole ring of chunks* (`rocclr/platform/object.hpp:253`).
  It finds the slot of a newer chunk, and the test `free_ - busy_ == 0` of a stale
  pointer is no use to it.  `SlotsAreSafe` without its hypothesis is violated.
* *A memory pool hands a block to a stream that does not follow its last use*
  (`hipamd/src/hip_mempool_impl.hpp:53`, `74`).  "A safe stream doesn't require TS
  validation", but a stream is safe without following the free: (1) when it allocated
  the block and another stream freed it, as `FreeMemory()` keeps it among the safe
  ones; (2) when it waits for an event of a safe stream that was recorded before:
  record e on s1, use p on s1, free p on s1, let s2 wait for e, allocate on s2; (3)
  between the `AddSafeStream()` of `hipStreamWaitEvent()` and its marker, for an
  allocation by another thread on the waiting stream.  `ReuseIsSafe` names the streams to
  which this can happen, `excused`; without the disjunct about them each of the three
  violates it.
* *A child graph on another stream than the launch stream's*
  (`hipamd/src/hip_graph_internal.cpp:611`, `523`).  `roots_` leaves stream 0 out (221),
  so what a child graph has on stream 0 does not wait for what the child graph node
  depends on; and a child graph node has no commands, so neither a node on another
  stream nor the end of the launch waits for it.  `Graphs <- OnSecondStream` in
  `GraphLaunch_fan.cfg`, with two streams, violates `LaunchFollowsGraph`.

Seen while reading, without a model: HIP's `terminate()` without direct dispatch
leaves the last-command pointer at its own marker, whose reference is never
dropped (`Lifetimes` excuses the last command of a queue for this); with direct
dispatch it retains the last command and, when the batch is open, overwrites the
local with a marker without releasing it (`commandqueue.cpp:67-85`); a marker of
`notifyCmdQueue()` makes a HIP queue active again although it has no last command
(`commandqueue.cpp:291-295`), which is harmless; an error of a queued command jumps
over the callbacks registered for CL_SUBMITTED and CL_RUNNING
(`commandqueue.cpp:239-242`); `Heap::RemoveStream()` erases the stream from copies of
its entries (`hip_mempool_impl.cpp:149-153`), harmless as long as a stream is drained
before it goes;
`IPCEvent::enqueueStreamWaitCommand()` releases its command before it waits for it
(`hip_event_ipc.cpp:116-121`); `elapsedTime()` takes the locks of two events in the
order of its arguments (`hip_event.cpp:112`); `clone()` of a graph copies the root
nodes of the original (`hip_graph_internal.cpp:298`), which `ScheduleNodes()` clears
before they are used; launching a graph without nodes writes to the first entry of an
empty list of streams (`hip_graph_internal.cpp:478-480`), and the loop that skips
streams with the launch stream's queue has only an assertion against running past the
last (483-488).

## 6. What is not modelled

* `HostQueue`: profiling times, the wait bits of a command, `waitCommand_`, the
  constructor's handshake, and the packets themselves.
* `Monitor`: the variant on `std::mutex`, and the Windows branch of `Semaphore`.
* `DirectDispatch`: `lock_` of an event, profiling, device-wide API calls.
* `VirtualGPU`: signals that block for an API callback, the cooperative queue
  (`retainExternalSignals_`), `fence_dirty_` and the scopes of cache flushes, blocking
  dispatch without direct dispatch, any-order launch, barrier value packets, the
  staging of `ManagedBuffer`, `MemoryDependency`.
* `SysmemPool`: `free_chunk_num_`, a statistic, and the destructor.
* `MemPool`: the search for a given address, `maxSize`, attributes other than the
  opportunistic one, access from other devices, sharing between processes, the pools
  of graphs, `FreeAsyncCommand`.  `AMD_DIRECT_DISPATCH` is on, as the shrinking of the
  free heap needs.
* `elapsedTime()` and the raw pointers of `getActiveQueues()`.
* `GraphLaunch`: captured AQL packets, `UpdateStreams()` (a stream of the model is a
  stream of its own), changes to an instantiated graph, `clone()`, disabled nodes,
  memory nodes, a command that cannot be created, user objects, and repeated launches,
  which start from the same `launch_id_`; the node classes, one for each API call, are
  data.
* Stream capture: one thread builds a graph under its caller's rules.
* Compilers, loaders, images, memory objects, argument checks of the API, and the
  PAL backend: sequential processing of data or code behind libraries that are not
  in the repository.

## 7. Plan

What remains, in order of importance.

1. Proofs.  `ArgsIntact` of `VirtualGPU`;
   `EdgesAreKept` of `GraphLaunch` for graphs whose nodes have at most as many edges
   as there are streams.
2. `Streams`: raw pointers of active queues; `HipEvent`: the lock order of
   `elapsedTime()`.
3. Refinement between `VirtualGPU` and the GPU of `DirectDispatch`.
