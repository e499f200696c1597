# Prosperismo: TLA+ models of the emulated kernel and GPU

Prosperismo runs programs of a games console on a PC. A guest program's threads
are host threads; the system calls they make are C++ functions of the emulator,
which keep the state a console's kernel would keep. The console's GPU and its
video output are threads of the emulator that interpret command buffers, record
commands for the host's GPU and show pictures. This directory holds TLA+ models
of the parts on which everything else rests: the kernel's synchronisation
objects, and the hand-overs between guest threads, the GPU thread, the host GPU
and the display. With them come the TLC configurations that check the models on
small instances, and TLAPS proofs of the main safety properties of the kernel
objects, the stream buffers and the command scheduler for instances of any size.

Paths below are relative to the repository's `src/` directory of C++ code unless
they start with another directory.

## 1. Inventory

| Component | State it keeps | Operations | Modelled |
|---|---|---|---|
| Kernel semaphores, `kernel/semaphore.cpp` | count, waiting list with records on the waiters' stacks, status, cancel count | create, delete, wait, poll, signal, cancel | `KernelSema` |
| POSIX semaphores, `kernel/semaphore.cpp` | registry by guest address, count, waiters, copy in guest memory | init, destroy, wait, trywait, timedwait, post | `PosixSem` |
| Event flags, `kernel/eventFlag.cpp` | 64 bits, status, number of waiters, registry with names and reference counts | create, open, close, delete, wait, poll, set, clear, cancel | `KernelEventFlag` |
| Mutexes and condition variables, `kernel/pthread.cpp` | owner and depth; registered waiters, sequence numbers | lock, trylock, timedlock, unlock; wait, timedwait, signal, signalto, broadcast | `PthreadSync` |
| Reader/writer locks, `kernel/pthread.cpp` | writer, read holds by thread, waiting writers | rdlock, wrlock, timed and try forms, unlock, init, destroy | `PthreadRwlock` |
| Event queues, `kernel/eventQueue.cpp` | registry of handles, list of events with their pending triggers, closed flag | create, delete, add, trigger and delete events, wait | `EventQueue` |
| Threads, thread-specific data, once, static objects, `kernel/pthread.cpp` | thread table, keys, states of statically initialised objects | create, join, detach, exit, cancel, once | plan |
| Guest signals, `libs/libKernel.cpp` | pending signals of each thread | raise, dispatch inside waits | no |
| Producers of events, `graphics/host_gpu/renderer/{renderContext,sync}.cpp`, `graphics/presentation/videoOut.cpp` | lists of the queues registered for end-of-pipe, flip, vblank and mode events | add, delete, trigger | plan |
| Video output and flip queue, `graphics/presentation/videoOut.cpp` | ports by generation, three lists of flip requests, status counters, pool of prepared frames | open, close, submit, prepare, complete, flip, wait, vblank | `FlipQueue`, partly |
| Page tracking, `graphics/host_gpu/{pageManager.cpp,memoryTracker.h,regionManager.h}` | watchers per page, CPU and GPU dirty bits | watch, invalidate, upload, download | plan |
| GPU time line, `graphics/host_gpu/renderer/{masterSemaphore,commandScheduler}.cpp` | ticks, deferred and priority operations, stop token | submit, finish, wait, defer, drain, shut down | `CommandScheduler`, partly |
| Stream buffers, `graphics/host_gpu/renderer/cache/streamBuffer.cpp` | offset in a ring, watches of this lap and the last | map, commit, wait | `StreamBuffer` |
| Guest memory, `kernel/memory.cpp` | direct and flexible memory, ranges, protections | allocate, map, protect, release | no |
| Guest command processor, `graphics/guest_gpu/graphicsRun.cpp` | queues of submissions, commands, stacks of cursors into buffers | submit, send command, done, shut down; packets that draw, write, wait and call | `GpuThread`, partly |
| Render caches, pipelines | Vulkan objects | create, look up, evict | no |
| Shader recompiler | none between calls | translate | no |
| Files, loader, system libraries, host layer, launcher | host objects | wrappers of host services | no |

How the parts interact. A guest thread calls a kernel object directly; each
object is guarded by a host mutex of its own and sleeps on a host condition
variable. Sleeps without a limit are cut into polls of 10 ms at most, at the end
of which the thread may dispatch a guest signal (`common/threads.cpp`,
`SIGNAL_APC_POLL_MICROS`). The emulator's own threads (graphics, video output,
asynchronous file reads) reach the guest by triggering events in event queues,
which call back into the component that registered the event when one is
triggered, delivered or deleted. Condition variables call into mutexes. The
registries of objects have locks of their own, taken before and released before
the object's lock.

The GPU thread (`GpuState`) takes command buffers that guest threads submit,
and commands that other threads have it run for them. It records work with the
command scheduler, which submits it to the host GPU under a tick; data for that
work lies in stream buffers, whose memory is used again when the tick has
passed. The scheduler's priority thread waits for ticks and runs what was
deferred until then: completed flips, interrupts, downloads. The present thread
shows completed flips once per vertical blank. `GpuTimeline` is the part that
`CommandScheduler` and `StreamBuffer` share; `GpuThread` and `FlipQueue` model
the same thread at two places, the second only what it does for flips.

What is hard to get right:

* an object is deleted while threads sleep on it, with their records in its list;
* a deadline passes at the moment another thread grants what was waited for;
* a wakeup goes to one thread, and that thread turns out not to need it;
* wakeups are sent after the mutex was released, so the state may have changed;
* a lookup of a handle and the use of what it found are two critical sections;
* counters (waiters, readers, cancelled waits, pending flips) must be kept on
  every way out of a call;
* a port is closed while another thread is half way through preparing, showing
  or completing one of its flips;
* memory is used again while the GPU may still read it;
* an interpreter is suspended inside nested buffers and has to go on exactly
  where it was;
* threads wait for one another in a circle through the GPU's queues.

`PROJECT.json` lists the main hazards at their lines with the properties that
cover them.

## 2. Modules

In all of them an action is one critical section of the object's host mutex,
with everything the code does in it. A thread's `pc` says where it is between
two critical sections. Sleeping and waking are told apart from having the mutex
again: "asleep" threads can be notified, "awake" ones have been, or have woken by
themselves, and have yet to look. Time is not counted: a limit is "none", "zero"
or "some time", and a call with a limit may find that it has passed whenever the
code looks.

**`KernelSema`**. `count`, `queue` and `waiter` are `m_count`,
`m_waiting_threads` and the `WaitingThread` records; `status` adds "None" for no
object. A wait is `Take` (enough units), `Enqueue` (joins the list at `InsertPos`,
by arrival or by priority) followed by `Resume` or `TimeOut`, or `Refuse`.
`WakePass` is the pass of `WakeWaiters` over the list: a waiter that asks for too
much is skipped, not waited for. `left[i]` is the count after the i-th waiter.
`Cancel` sets or resets the count and marks the waiters that are not ready yet.
Deletion is two actions, because the destructor releases the mutex and spins
until the list is empty. Negative signals are part of the model, since
`KernelSignalSema` does not check the sign.

**`PosixSem`**. `guest` is the copy of count and `has_waiters` that `SyncGuest`
writes to guest memory. `Wake` is the end of a sleep, by a notification or by
itself. `Wait` decides in the order of the code: units first, then the time.

**`KernelEventFlag`**. Bits are a set of bit numbers. `req` is what a thread asked
for (pattern, and/or, what to clear). `Cancel` and the destructor change the
status, wake everybody and spin until nobody waits: two actions each. A deletion
may come while a Cancel spins, and then spins itself until the Cancel has ended. `due` is a
history variable: the code that a thread found waiting by `Cancel` or by the
destructor ought to return. `refs` and `registered` model handles and the name.

**`PthreadSync`**. One mutex and one condition variable used with it.
`notify_one` and `notify_all` come after the release of `m`, so they are actions
of their own (`UnlockNotify`, `CondNotify`). `CondWait` registers the thread and
releases the mutex while it keeps `cond->m` (`condHeld`) until it sleeps. The
sequence numbers are only compared with a value captured when the wait began;
`moved` says whether they differ. `type` is the kind of mutex, recursive (2) or
not, chosen at the start: an owner that locks a plain mutex again is refused, or
sleeps until its limit and may swallow a wakeup. `held` is a history variable: how often each
thread has been told that it has the mutex, less how often that it has given it
back. A condition wait leaves it alone, while `count` goes through zero, other
owners and a fresh lock on the way, so the two agree only if the depth is restored.

**`PthreadMonitor`** is what a guest may rely on, the abstract specification of
`PthreadSync`: giving up the mutex and starting to wait is one step, a signal
frees one waiter, a broadcast all, and a freed waiter comes back as the owner as
deep as it was. `ImplementsMonitor` maps `owner` and `count` to its mutex, and
reads a waiter's phase off `pc`, `moved` and the result decided.

**`PthreadRwlock`**. `readers[t]` is the count in the list of readers,
`call[t].registered` the local variable `writer_wait_registered`. The loop of
`RwlockLockCooperative` is one look per iteration: `Refused`, `EnterWrite`,
`EnterRead`, `TimeOut` or `Sleep`. `PthreadRwlockDestroy` is two actions, the look
at the holders under `m` (`Destroy`) and the deletion without it (`Delete`); calls
may come in between. `depth` and `writing` are histories of what the returns of the
calls told each thread, kept apart from the counters that decide who is let in.

**`EventQueue`**. `Pin` is the lookup, the method comes in a later step. `fifo`
joins the event's own trigger and `pending_events`; the data of a trigger is its
number. `Batch` and `Taken` describe one `GetTriggeredEvents` over the list, with
arrays shorter than what is ready. Level events fill the rest of the array, as
the loop in the code does. The trigger and reset callbacks of end-of-pipe, AMPR
and video-out events behave alike and are the kind "queued". `plain` is a history
variable: no level event or timer was ever added to the queue.

**`GpuTimeline`**. `tick` is the number the commands being recorded will signal,
`gpu` what the device has signalled.

**`CommandScheduler`**. The owner (the GPU thread) records, submits, waits and
shuts down, the runner is `m_priority_thread`, others only defer or call
`Shutdown` meanwhile. Critical sections of `m_operation_mutex` are actions, but the
runner keeps the mutex between the test of its predicate and its sleep ("block"),
since `request_stop` and the `notify_all` after it take no mutex. Sleeping on the
one condition variable is `sleepers`; waits may end by themselves
(`SpuriousWake`). Each operation deferred is an entry of `log`, with the tick it
was deferred at; callbacks may defer in turn.

**`StreamBuffer`**. `current` and `previous` are the watches of this lap and of the last,
`call` the local variables of a `Map` under way. `Commit` sets the watch of a range
for the tick being recorded; the commands that use it are recorded later
(`RecordUse`), in the tick of that moment, and other Maps and submissions may come
in between, as with `ObtainBuffer`, `UploadTransient` and `ObtainBufferForImage`
of the buffer cache. Not in the code are `watched`, `used` and `committed`: per unit
of the ring the tick of its last Commit and the last tick whose commands use it,
and the ranges whose commands are still to be recorded. A range mapped and not committed is
given up, as `ObtainBuffer` of the buffer cache does when the guest's memory
cannot be read.

**`FlipQueue`**. `requests`, `cpu` and `cancelled` are the three lists of the
queue; flips are shown from the front of the first, which is a sequence, and the
other two are only searched by number, so they are sets. A flip of the processor is reserved in `cpu`, moves to `requests` when the
GPU thread prepares it, gets a frame, is completed, and is shown by the present
thread; a flip of a command buffer is reserved in `requests` at once and is
completed at the end of the pipe. `Close` keeps unfinished requests aside in
`cancelled` for the `Complete` that is still to come. `failed` names the `EXIT` that
was reached: those of `Internal` are checks only a broken queue would fail, those
of `OfGuest` are met by a guest that, say, closes a port with packets under way.

**`FlipService`** is the abstract specification of the open port: a flip is
reserved within the capacity, takes a place in one queue, and is shown from the
front of it, at most once and never after the port was closed.

**`GpuThread`**. A submission is a record that carries its stack of cursors, as
`Pm4Execution` does; `run.base` is the depth at which the outer loop of
`ProcessPm4` works, the cursors above it belong to calls under way in the C++
stack. A packet that waits suspends all of them: `SuspendPm4` marks the callers,
and the next slice passes their packets over (`DeferredAdvance`). The buffers
and programs are constants; four kinds of packets stand for all. Two histories
serve the properties. `trace` holds the packets that took effect, per queue, and
`accepted` the programs submitted, each with what is due by its end: all that was
due before it and its own text. `Text` unfolds a buffer through its calls,
without regard to the interpreter.

Modules named `...Proofs` extend a component with its theorems (`GpuProofs` three of
the GPU's side, the command scheduler, the stream buffer and the GPU thread, whose
names therefore differ); modules named `MC...` give the constants small values.
Operators whose comment says "Seeded defect" are
variants of a definition that contain a plausible mistake; no specification
uses them. They are there to show that the properties notice it.

## 3. Runs

| Run | Instance | What it shows |
|---|---|---|
| `sema` | 3 threads; 0 to 2 units asked, signals of -1, 1, 2, cancels that reset, set or are refused; both queueing orders, 2 priorities | `NoLostWakeup`: no pending waiter could be served from the count. `UnitsConserved`: each unit is in the count, promised to a waiter, or was reported taken. `CancelTally`: the number Cancel reports is the number of waits that come back cancelled. `NoPriorityInversion`: a grant never passes over a more urgent waiter that asks for no more. `DeletionEnds`: the destructor's spin ends |
| `posix_sem` | 4 threads, maximum 2 | `UnitsAreCovered`: while somebody sleeps, each unit has a thread on its way. `GuestCopyExact`. `UnitIsTaken` |
| `event_flag` | 3 threads, 2 bits, 2 references | `NoLostWakeup`; `InterruptionReported`: whoever waited when a cancel or deletion began is told so; `SpinsEnd`: the spin of Cancel and both spins of the destructor end if arrivals stop |
| `pthread_sync` | 3 threads, both kinds of mutex, depth 2 | `HoldersAgree`: outside a condition wait the owner is who was told so, as deep as its calls say. `NoForgottenWaiter`, `FreeMutexIsNoticed`, `SignalIsReported`, and the refinement `ImplementsMonitor` |
| `rwlock` | 3 threads, 2 read holds each | `Exclusion`: who was told it may write is alone until it has given the lock back. `HolderNeverSleeps`, `WriterNotOvertaken`, `FreeLockIsTaken` |
| `event_queue` | 3 threads, a user event of any kind and a timer, arrays of 1 and 2, 2 triggers | `DeliveredInOrder`; `TriggersAreCovered`: one notification per trigger is enough in a plain queue; `ReadyIsDelivered` |
| `command_scheduler` | owner, runner and one other thread, 2 command buffers, 3 ticks, 2 operations | `RunsAfterItsWork`: callbacks run after their commands and in order. `WaitCoversEarlier`: a wait stands for every operation up to its tick. `ClosedLeavesNothing`. `PriorityOperationRuns` |
| `command_scheduler_stop` | owner and runner | violated: `ShutdownFinishes`, see below |
| `stream_buffer` | ring of 3 units, sizes 1, 2 and 4 (too large), alignments 1 and 2, 4 ticks, 2 ranges not yet used, upload and download | `MappedRangeIsFree`: no range is handed out that is still in use, save by commands recorded in a later tick than their range's Commit. `MapReturnsEventually` |
| `flip_queue` | one guest thread that submits, one that opens and closes, capacity 2, one frame, flip rate 0 or 1, 3 flips | `QueueStaysConsistent`, `StatusExact`, `FramesAccounted`, the refinement `ImplementsFlipService`, `WorkDrains` |
| `flip_queue_reopen` | the same with one flip | violated: `PortReopens`, see below |
| `gpu_thread` | 2 guest threads, 2 queues, a graphics program that waits three buffers deep for a compute program that waits for the guest, a flip; 3 submissions, 2 calls | `ExecutedInOrder`: packets take effect once and in order. `DoneCovers`: when Done returns, all submitted before is finished. `CommandAnswered`: a command is answered even if every queue waits. `WorkEnds` |

Each passing run takes two minutes at most on two cores.

Two runs show that the code does not do what it says:

* *Lost stop of the priority thread.* `CommandScheduler::Shutdown` requests the
  stop and notifies (`commandScheduler.cpp:132`) without the mutex under which the
  priority thread tests its predicate. If both fall between that test and the
  sleep, the thread sleeps on, and the join of it never returns. The comment at
  lines 117-118 promises that the owning thread "will finish shutdown".
* *A rate left on a closed port.* `VideoOutSetFlipRate` (`videoOut.cpp:1229`) sets
  the rate without asking whether the port is closing. If a Close comes between
  its lookup of the port and its lock, the port is left closed with a rate, and
  the next Open ends the emulator at its assertion that there is none (line 635).

*Bounds.* Three threads are the fewest that show the races of interest: one
sleeps, one is on its way, one acts; a waiter, a canceller and a newcomer; two
writers and a reader. The count of units is bounded from below by `CountFloor`,
the recursion depth by `CountMax` (which stands for `UINT32_MAX`, so the limit is
met), the semaphore's value by `ValueMax` (for `POSIX_SEM_VALUE_MAX`), holds of
the lock for reading by `HoldMax`, references by `MaxRefs`, and triggers of an
event by `SentMax`. Two units are enough to satisfy one waiter and not another,
two bits to tell "all" from "any", depth 2 to tell a restored depth from a fresh
one, two triggers to have a short batch leave one behind. On the GPU's side
`TickMax` bounds the ticks submitted, `OpMax` the operations deferred, `ReqMax` the
flips, `GenMax` the Opens and Closes (3: open, closed, open again), `SubMax` the
submissions and `CallMax` the commands and calls of Done. Two operations are one
in work and one queued; four ticks are two laps of the ring with a commit in
each; `UnrecordedMax` bounds the ranges committed whose commands are to be
recorded, and two of them leave room for a Map in between; three flips fill the queue of two and leave one to wait for a slot; a pool
of one frame makes every frame contended. The buffers of `gpu_thread` nest three
deep so that a suspension has callers both inside the pass and below its base.
Blank flips (`Special`) are in the model but not in the instance: they skip the
registration check and nothing else.
`pthread_sync` uses symmetry over the threads; its properties are all safety.
For every safety property of a passing run the proofs remove the bounds: the
numbers of threads, bits, units, ticks, events, operations, flips, frames and
submissions, the buffers and their nesting are parameters of the theorems.

*Deadlock.* TLC checks for it where the system cannot stop: kernel objects whose
sleeps end by themselves, and the stream buffer. It is switched off for the
kernel semaphore, where everybody may wait without limit while nobody is left to
signal (a fault of the guest), for the scheduler, which ends when it is closed,
for the flip queue, which ends at an `EXIT`, and for the GPU thread, which ends at
Shutdown. There the liveness properties say what must not be stuck.

*Fairness.* Assumed of a thread inside a call only: a sleep ends (each is cut by
the 10 ms poll or has a limit), a thread that is out of its sleep gets the host
mutex and looks, a thread that has a notification to send sends it, and a
destructor's or Cancel's spin looks again. Weak fairness is enough where the
step stays possible. Strong fairness is stated in one place, for a waiter that
competes for `cond->m`, which other waits keep across a release of the mutex; a
host mutex that does not starve a thread justifies it. On the GPU's side the
threads of the emulator run, the present thread's rounds go on, the device
finishes what it is given, and the GPU thread's naps of 100 microseconds end.
No fairness is assumed of a spurious wake-up, of the guest, or of a packet to
arrive: no lock is ever released, no semaphore signalled, no label written unless
the guest chooses to. `WorkEnds` is stated for programs that do not wait for one
another in a circle and whose labels are written or promised. `WorkDrains` names
two waits the code can be caught in (the present thread short of a frame, the GPU
thread behind its own packet) and excepts them.

## 4. Proofs

All are for any constants that satisfy the named assumptions (`SemaAssumption`,
`PosixSemAssumption`, `EventFlagAssumption`, `RwlockAssumption`,
`SyncAssumption`, `EventQueueAssumption`, `StreamAssumption`,
`SchedulerAssumption`, `FlipAssumption`, `GpuThreadAssumption`): sets of integers
or bits as arguments, a
maximum that is not zero, a null thread that is not a thread, sets of threads or
events that are finite where their members are counted, and buffers whose calls
end: some ranking goes down with every call. The interpreter of the code would
not return from a buffer that called itself. The kind of
mutex and the order of a semaphore's list are variables, so the proofs cover each.
Every module follows the same argument: an inductive invariant `IInv`, which TLC
checked on the component's instance before it was proved, lemmas that each group
of actions preserves it, `Invariance` by PTL, and the properties from it.

**`KernelSemaProofs`**: `TypeCorrect`, `NoWakeupIsLost`, `DestructorWaits`,
`QueueInOrder`, `UrgentFirst`, `CancelsAddUp`, `NoUnitIsLost`. `IInv` adds to the
types that the list holds each waiting thread once and no other (`QueueOK`), that
one thread deletes, and only a deleted object (`LifeOK`), and `NoLostWakeup` in
terms of threads (`WakeOK`). `QueueOK` is needed because wakeups are decided along
the list and promised to threads. A pass of `WakeWaiters` is covered by
`WakePassShrinks` and `WakePassFacts`: the count never grows along the pass, so a
waiter that was skipped asks for more than is left at the end.
Three results rest on `IInv` and one more invariant each. `UrgentFirst`: the list
is sorted by urgency (`Sorted`), hence a more urgent waiter stands further ahead,
and if the pass skipped it, what was left then, and so later, was too little for
it (`PassOrder`). `CancelsAddUp`: the released waiters are a finite set, from which
one leaves at a time and to which a cancel adds the pending ones, disjoint from
it. `NoUnitIsLost`: `Promises` lists what each place of the list has been granted;
`Total` of it changes by one entry when a record comes or goes (`TotalInsert`), and
by what the count loses when a pass grants (`TotalGains`). `Total` is a recursive
function; that it is the running sum of its argument is shown there
without induction over data, from a least counterexample.

**`PosixSemProofs`**: `TypeCorrect`, `NoUnitIsStranded`, `GuestSeesTheTruth`. `IInv`
is the types, `waiters` as the number of threads in the loop (`WaitersOK`), an idle
address (`LifeOK`), the copy as `SyncGuest` of the state (`GuestOK`), and
`UnitsAreCovered`. A waiter goes back to sleep only with no unit left, one that takes
a unit takes itself off the count of the woken with it, and a post adds one to
both while somebody sleeps.

**`KernelEventFlagProofs`**: `TypeCorrect`, `NoWakeupIsLost`,
`InterruptionIsReported`. `LifeOK` relates the status to the threads that may be
in Cancel, in Close or in the destructor; `DueOK` says that an interrupted waiter
has not looked yet and will find the status of its interruption. Without it the
second theorem fails on states in which a Cancel ends with a waiter still inside.

**`PthreadRwlockProofs`**: `TypeCorrect`, `CountersExact`, `MutualExclusion`,
`NoSelfDeadlock`, `WritersFirst`. `MutualExclusion` is about what threads were told,
so `ToldOK` ties the histories to the lock: a thread has been told of as many
locks as its read holds and its writing add up to. The read holds are the set `Holds`, so that
`reader_count` is its cardinality; taking and releasing the lock adds or removes
one element. `CallsOK` says what a thread inside a call may be registered as; it
makes the count of waiting writers inductive.

**`PthreadSyncProofs`**: `TypeCorrect`, `Ownership`, `WaitersRegistered`,
`FreeMutexNoticed`, `SignalsReported`, and `Refinement`, that `PthreadSync`
implements `PthreadMonitor`. `IInv` says who owns the mutex and how deep
(`MutexOK`), what a thread has in hand at each place (`CallOK`), and that the
registered threads are those in a wait that nobody freed (`QueueOK`). The
refinement needs `CallOK`: a thread comes back with the depth it gave up
because it carries a depth above zero all the way.

**`EventQueueProofs`**: `TriggersArriveInOrder`, `WakeupsCoverTriggers`. The first
rests on what is known of each event by itself (`Good`): its waiting triggers are
those after the last one delivered, without a gap, and of a coalescing event the
newest. A batch takes them from the front, and whether an event is in the list at
all does not matter. The second compares three sets, so the list matters too
(`Shape`): it holds each event once (`ListOK`), nothing is left of an event that was
deleted or of a queue that was closed (`GoneOK`), a plain queue has held none but
user events (`PlainOK`), and a waiter's array has room (`CallOK`). The triggers that
wait are a finite set of pairs, which a batch makes smaller unless the array
comes back full or the queue is empty (`PlainBatch`), and a trigger makes larger by
one, with one thread woken for it unless nobody sleeps (`NotifyCovers`). That an
array which is not full leaves nothing behind rests on the room being monotone
along the list (`NonIncreasing`). The bounds of the counters play no part, so
`TypeOK` is not among the theorems; `QueueInv` states the types without them.

**`GpuProofs`**, of the stream buffer: `StreamTypeCorrect`,
`MappedRangesAreFree`. The property speaks
of commands that use the range handed out, the code only of watches, so `StreamInv`
says what the watches know of every unit of the ring: a unit below the offset whose
last Commit's tick is not over is covered by a watch of this lap (`LapOK`), one
above it by a watch of the lap before that is
still to be waited for and that no earlier watch hides (`AheadOK`), and the same
for the local copies of a `Map` under way (`CallOK`). "Covered" (`Covers`) asks that
some watch waits for the unit's tick or a later one and that all before it end at
or below the unit, since a wait stops at the first watch beyond its range. The
wrap turns one half of the invariant into the other. So the ticks of the watches of
a range handed out are over (`MappedOK`). Commands recorded in the tick of their
watch are then over with it, and a range committed in the tick being recorded is
watched for that tick (`UsesOK`), which the GPU has not reached (`TicksOK`), so it is
not handed out.

**`GpuProofs`**, of the command scheduler: `TypeCorrect`, `OperationsRunAfterTheirWork`,
`ClosingLeavesNothing`, and the action property `WaitsCoverEarlier`. `IInv` orders the
clocks (`ClockOK`), keeps both queues sorted and complete (`OrdinaryOK`,
`PriorityOK`: an operation is queued, in a thread's hands, or done), says who has
what in hand where (`PlaceOK`), and what each phase of the shutdown has achieved
(`PhaseOK`). That a wait may look at the front of a queue only is sound because the
queue is sorted by number and the ticks grow with the numbers. `PhaseOK` is what
makes closing safe: once the state is not open nothing joins a queue, and the last
submission covers all that is pending.

**`GpuProofs`**, of the GPU thread: `GpuTypeCorrect`, `PacketsRunInOrder`, and the
action property `DoneCoversAll`. `GpuInv` gives for each queue how many of its
submissions are finished and how much of the next one has been executed
(`HistoryOK`): what took effect is what was due by the last finished one, and then a
text that depends on where the next one stands (`Works`). In the loop, that is the
text executed by a stack of cursors (`Executed`): from the outermost cursor
inwards, the text of each buffer up to the cursor. It needs every cursor but the
last to stand at the call of the next one's buffer (`StackOK`), and to know which
of those calls the C++ stack will pass over when they return and which are passed
over by `DeferredAdvance` (`UnderWay`); a submission put back has them all marked
(`Suspended`). Each iteration of the loop keeps the equation: a packet that takes
effect adds itself, a call adds a cursor with nothing executed, a return moves the
text of the callee into the caller's. What Done covers follows from two parts
more: a thread has one command under way, of the kind it waits for (`CommandsOK`),
and while a thread has passed `WaitForIdle` in Done nothing is queued or in work
(`DonesOK`), since Done keeps the submission lock. That `Text`, a recursive
function, unfolds as it is written is proved from `CallsEnd`: places weigh what the
rank of the buffer and the position in it give (`TextWeight`), the recursion has a
solution up to every weight, and a least counterexample shows that it has one only
(`TextUnfolds`).

**`FlipQueueProofs`**: `TypeCorrect`, `QueueNeverInconsistent`,
`StatusAlwaysExact`, `FramesAlwaysAccounted`, and `FlipQueueImplementsService`,
the refinement of `FlipService`. None of these is inductive by itself: the checks
of the queue fail only if a request is not where, or not in the state, a thread
expects it a section later, and `Close` may have moved it in between. `IInv`
therefore follows every flip by its number. It is in one list (`IdsOK`), in a state
its list allows, with a frame if it is ready (`StatesOK`). Whoever is to work on
it next is the only one who is: a call that has yet to hand it over or the list of
preparations (`JobsOK`, still reserved), the GPU thread (`PacketOK`, as far as the
preparation has got), or the end of the pipe (`EopOK`, recorded). `IsReserved`,
`IsRecording` and `IsRecorded` name these stages without regard to the list the
flip is in, except that one still queued needs its frame before it is completed;
this is what lets `Cancel` move it at any time. `PresentOK` says that the front
stays what `Flip` read while `processing` holds; `Cancel` waits for exactly that.
`PortOK` says that one `Close` runs at a time and leaves no flip of the port behind,
so those queued are of the current generation while the port is open. The count
of frames changes by one element of one list at a time (`HeldBy` of a set with one
more, one fewer or one replaced). In the refinement `Close` maps to the abstract
`Close`, since the lists count only while the port is open; a flip that is shown
belongs to the open port by `PresentOK`, and `Tail` of the numbers in the queue
are the numbers of its `Tail`.

`TypeOK` is proved for every component but the event queue; the runs do not list
it, since what they check is stronger.

*Only model-checked*: everything about liveness, which TLAPS cannot treat under
fairness: `DeletionEnds`, `UnitIsTaken`, `SpinsEnd`, `FreeLockIsTaken`,
`ReadyIsDelivered`, `PriorityOperationRuns`, `MapReturnsEventually`, `WorkDrains`,
`WorkEnds`, `CommandAnswered`, and the two violations.

## 5. What is left out

* Guest signal handlers that run inside waits. They may make any call,
  including a second wait on the same object by the same thread.
* Misuse of handles: semaphores, POSIX semaphores and event flags are raw
  pointers in the code, and a call that starts when the object has been freed
  reads freed memory. The models let calls start only while the object exists;
  those already waiting when it is deleted, and those that arrive while the
  destructor spins, are in. Event queues keep their objects alive for their
  callers, and deletions race everything there.
* Set, Clear and Cancel of an event flag under deletion end the emulator, so the
  guest does not start them then. A Cancel under way may meet a deletion.
* `PthreadRwlockDestroy` gives `m` up between its look at the holders and the
  deletion. A thread that is let in there has a lock that is gone: the model has
  this, and no property forbids it. A thread still inside a call at the moment of
  the deletion would use freed memory; the model leaves that case out.
* A range of a stream buffer whose commands are recorded in a later tick than its
  Commit (a wait in between moved the tick, as the comment at
  `commandScheduler.cpp:228` describes) is not protected by its watch.
  The model has these uses; `MappedRangeIsFree` excepts them, and does not hold
  without the exception: the ring comes around after the tick of the watch, and the
  range is handed out while the later tick still uses it.
* Values only read or written for the caller: the time left of a wait, names,
  the fields of an event but its trigger. The conversion of absolute times.
* Overflow of the semaphore's `int` sums, undefined in C++; assumed away.
* Creation of pthread objects from static initialisers, attributes, destruction
  of mutexes and condition variables.
* Of the video output: the second port, several groups of buffers, event
  registrations, `WaitVblank`, output modes, the pause of the guest.
* Of the command processor: register state, what a draw does, predication, the
  constant engine (`agc.cpp` never submits a buffer for it), and the conditional
  branch, which behaves like a call.
* Calls after `GpuState::Shutdown` has begun, which end the emulator.
* What a guest does against the contract of the video output is in the model as
  the `EXIT` it meets (a flip packet after Close, buffers unregistered under a
  flip), and no property forbids it.
* An operation that a callback defers while the scheduler drains is run at once,
  before its tick; `RunsAfterItsWork` excepts it.

*Not modelled at all.* Page tracking, guest memory, threads and guest signals
are described in the plan or in `PROJECT.json`. The render caches and pipelines
are bound to Vulkan objects; the shader recompiler is a compiler whose inputs are
too large to enumerate; files, loader, libraries, platform layer and launcher are
sequential code around host services. Most of the repository's lines are in
these, so the map covers a small share of them.

Where the models show limits of the code that no document denies, properties are
stated for what does hold: threads that keep arriving can hold a Cancel of an
event flag up (`SpinsEnd` asks that they stop); a level event hides the events
behind it and a short array may be filled by an earlier event again and again
(`ReadyIsDelivered` asks that the wait end or the event be delivered); with
level events or timers a sleeper may stay asleep beside a triggered event until
its sleep ends by itself (`TriggersAreCovered` is stated for queues that never held one); a writer that
gives up does not tell the readers it held back (`FreeLockIsTaken` rests on the
poll); Done keeps the submission lock while it waits, so a packet must not wait
for what another thread has still to submit; a full flip queue that holds only
processor flips ends the emulator in `WaitForSubmitSlot`.

## 6. Plan

1. `EopEvents`: the registrations of the renderer and of the video output,
   composed with `EventQueue`. Of interest: `TriggerEopEvent` works on a copy of
   the list and drops registrations whose trigger failed, which races a
   deletion and a new addition of the same event; delete callbacks under the
   queue's lock. Property: a registration and its event live and die together,
   except inside named windows.
2. `PthreadThreads`: create, join, detach and exit, keys and once; destruction of
   mutexes and condition variables, static objects created on first use.
3. `PageTracking`: watchers and dirty bits; property: a page that the GPU's copy of
   memory relies on is protected, and no write of either side is lost.
