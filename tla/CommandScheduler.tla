--------------------------- MODULE CommandScheduler ---------------------------
(***************************************************************************)
(* CommandScheduler: submissions on the GPU timeline, the operations that  *)
(* are deferred until the GPU has reached a tick, and shutdown.            *)
(*                                                                         *)
(* The owner records, submits, waits and shuts down: the GPU thread of the *)
(* emulator, and the main thread once that one has been joined.  The       *)
(* runner is m_priority_thread.  Others are threads that only defer an     *)
(* ordinary operation or call Shutdown while the owner is shutting down.   *)
(* The model starts after the first Begin, so Active() and m_recording     *)
(* hold between calls.                                                     *)
(*                                                                         *)
(* Every critical section of m_operation_mutex is one action.  The runner  *)
(* alone keeps the mutex over two: between the test of its predicate and   *)
(* its sleep, because request_stop and the notify after it take no mutex.  *)
(* Operations are numbered in the order in which they are deferred, and    *)
(* m_operation_available is the set of threads asleep on it.               *)
(***************************************************************************)
EXTENDS GpuTimeline, Sequences

CONSTANTS
  Owner, Runner, Others,   \* threads
  BufferCount,             \* command buffers used in turn
  TickMax,                 \* bound: ticks the owner submits before shutdown
  OpMax                    \* bound: operations deferred

ASSUME SchedulerAssumption ==
  /\ Owner # Runner /\ {Owner, Runner} \cap Others = {}
  /\ BufferCount \in Nat \ {0}
  /\ TickMax \in Nat /\ OpMax \in Nat

VARIABLES
  known,      \* m_gpu_tick, the last value of the GPU's counter that was read
  log,        \* per operation: how it was deferred and its tick
  begun, done,\* operations whose callback has started, has returned
  pending,    \* m_pending_operations
  prio,       \* m_priority_operations
  active,     \* the operation behind m_priority_active, or 0
  opState,    \* m_operation_state
  stop,       \* the runner's stop token
  pc,         \* where each thread is
  running,    \* the operation in whose callback the owner or runner is
  sleepers,   \* threads asleep on m_operation_available
  cur,        \* m_current
  execTick,   \* per command buffer: the tick of its last submission
  need,       \* tick the owner waits for in the middle of a call
  goal,       \* what the owner's call does after PopPendingOperations
  waitTick    \* argument of WaitPriorityOperations

ops    == <<log, begun, done, pending, prio, active, running>>
record == <<cur, execTick, need, goal, waitTick>>
clock  == <<timeline, known>>
vars   == <<clock, ops, opState, stop, pc, sleepers, record>>

Threads == {Owner, Runner} \union Others

OwnerPcs  == {"idle", "notify", "gpu", "pop", "callback", "drain", "await",
              "final", "stop", "wake", "join", "close", "announce", "closed"}
RunnerPcs == {"loop", "look", "block", "gpu", "callback", "clear", "tell", "exit"}
OtherPcs  == {"free", "deferring", "shutting"}
Goals     == {"return", "drain", "await", "shutdown"}

OpIds == 1..Len(log)

TypeOK ==
  /\ TimelineType /\ known \in Nat
  /\ log \in Seq([kind : {"ordinary", "priority", "direct"}, tick : Nat])
  /\ begun \subseteq OpIds /\ done \subseteq begun
  /\ pending \in Seq(OpIds) /\ prio \in Seq(OpIds)
  /\ active \in OpIds \union {0}
  /\ opState \in {"Open", "Draining", "Closed"}
  /\ stop \in BOOLEAN
  /\ pc[Owner] \in OwnerPcs /\ pc[Runner] \in RunnerPcs
  /\ \A u \in Others : pc[u] \in OtherPcs
  /\ running[Owner] \in OpIds \union {0} /\ running[Runner] \in OpIds \union {0}
  /\ sleepers \subseteq Threads
  /\ cur \in 0..(BufferCount - 1)
  /\ execTick \in [0..(BufferCount - 1) -> Nat]
  /\ need \in Nat /\ waitTick \in Nat /\ goal \in Goals

Init ==
  /\ TimelineInit /\ known = 0
  /\ log = <<>> /\ begun = {} /\ done = {}
  /\ pending = <<>> /\ prio = <<>> /\ active = 0
  /\ running = [t \in {Owner, Runner} |-> 0]
  /\ opState = "Open" /\ stop = FALSE
  /\ pc = [t \in Threads |-> IF t = Owner THEN "idle"
                             ELSE IF t = Runner THEN "loop" ELSE "free"]
  /\ sleepers = {}
  /\ cur = 0 /\ execTick = [b \in 0..(BufferCount - 1) |-> 0]
  /\ need = 0 /\ goal = "return" /\ waitTick = 0

-----------------------------------------------------------------------------
MutexFree == pc[Runner] # "block"

Go(t, where) == pc' = [pc EXCEPT ![t] = where]

\* t is awake and can have the mutex.
Locks(t) == t \notin sleepers /\ MutexFree

NotifyAll == sleepers' = {}

NotifyOne ==
  \/ sleepers = {} /\ sleepers' = {}
  \/ \E t \in sleepers : sleepers' = sleepers \ {t}

\* The operation the next deferral creates.
NewOp == Len(log) + 1

-----------------------------------------------------------------------------
(* Reading the timeline.                                                   *)

IsFree(t) == known >= t

\* Refresh: the counter is read and m_gpu_tick moves up to it, never down.
Refresh == known' = IF known < gpu THEN gpu ELSE known

\* MasterSemaphore::Wait(t) returns when the device has signalled t; it
\* refreshes unless the host knew already.
WaitReturns(t) ==
  /\ gpu >= t
  /\ IF IsFree(t) THEN UNCHANGED known ELSE Refresh

-----------------------------------------------------------------------------
(* Deferring.                                                              *)

\* DeferOperation while the scheduler is open.
PushOrdinary ==
  /\ Len(log) < OpMax
  /\ log' = Append(log, [kind |-> "ordinary", tick |-> tick])
  /\ pending' = Append(pending, NewOp)
  /\ UNCHANGED <<begun, done, prio, active, running>>

\* The callback is run on the spot, by a callback that defers during the
\* drain or by a thread that has waited for its end.
RunDirectly ==
  /\ Len(log) < OpMax
  /\ log' = Append(log, [kind |-> "direct", tick |-> tick])
  /\ begun' = begun \union {NewOp} /\ done' = done \union {NewOp}
  /\ UNCHANGED <<pending, prio, active, running>>

OwnerDefers ==
  /\ pc[Owner] = "idle" /\ Locks(Owner) /\ opState = "Open"
  /\ PushOrdinary
  /\ UNCHANGED <<clock, opState, stop, pc, sleepers, record>>

\* DeferPriorityOperation: the push, then the notify without the mutex.
DeferPriorityOperation ==
  /\ pc[Owner] = "idle" /\ Locks(Owner) /\ opState = "Open" /\ Len(log) < OpMax
  /\ log' = Append(log, [kind |-> "priority", tick |-> tick])
  /\ prio' = Append(prio, NewOp)
  /\ Go(Owner, "notify")
  /\ UNCHANGED <<clock, begun, done, pending, active, running, opState, stop,
                 sleepers, record>>

\* Seeded defect: nobody is told of the new operation.
NotifyNobody ==
  /\ pc[Owner] = "notify"
  /\ Go(Owner, "idle")
  /\ UNCHANGED <<clock, ops, opState, stop, sleepers, record>>

NotifyPriority ==
  /\ pc[Owner] = "notify"
  /\ NotifyOne
  /\ Go(Owner, "idle")
  /\ UNCHANGED <<clock, ops, opState, stop, record>>

\* A callback defers: queued while open, run at once during a drain.
CallbackDefers(t) ==
  /\ pc[t] = "callback" /\ MutexFree
  /\ IF opState = "Open" THEN PushOrdinary ELSE RunDirectly
  /\ UNCHANGED <<clock, opState, stop, pc, sleepers, record>>

\* Another thread defers; if the scheduler is not open it waits for Closed.
OtherDefers(u) ==
  /\ pc[u] = "free" /\ MutexFree
  /\ IF opState = "Open"
     THEN PushOrdinary /\ UNCHANGED pc
     ELSE Go(u, "deferring") /\ UNCHANGED ops
  /\ UNCHANGED <<clock, opState, stop, sleepers, record>>

OtherShutsDown(u) ==
  /\ pc[u] = "free" /\ MutexFree /\ opState = "Draining"
  /\ Go(u, "shutting")
  /\ UNCHANGED <<clock, ops, opState, stop, sleepers, record>>

\* The wait for Closed, of DeferOperation and of a second Shutdown.
OtherLooks(u) ==
  /\ pc[u] \in {"deferring", "shutting"} /\ Locks(u)
  /\ IF opState # "Closed"
     THEN sleepers' = sleepers \union {u} /\ UNCHANGED <<pc, ops>>
     ELSE /\ IF pc[u] = "deferring" THEN RunDirectly ELSE UNCHANGED ops
          /\ Go(u, "free")
          /\ UNCHANGED sleepers
  /\ UNCHANGED <<clock, opState, stop, record>>

-----------------------------------------------------------------------------
(* The owner submits and waits.                                            *)

\* SubmitCurrent, then a wait until the GPU has passed the tick n.
Submit(b, n, g, w) ==
  /\ NextTick
  /\ execTick' = [execTick EXCEPT ![cur] = tick]
  /\ cur' = b
  /\ need' = n /\ goal' = g /\ waitTick' = w
  /\ Go(Owner, "gpu")
  /\ UNCHANGED <<known, ops, opState, stop, sleepers>>

\* Flush: BeginNext waits for the fence of the buffer that is next in turn.
Flush ==
  /\ pc[Owner] = "idle" /\ opState = "Open" /\ tick < TickMax
  /\ LET b == (cur + 1) % BufferCount IN
       Submit(b, IF b = cur THEN tick ELSE execTick[b], "return", 0)

\* Finish and FinishCurrent, alone or before DrainPriorityOperations or
\* WaitPriorityOperations.
Finish(g) ==
  /\ pc[Owner] = "idle" /\ opState = "Open" /\ tick < TickMax
  /\ Submit(cur, tick, g, tick)

\* Wait for an earlier tick, alone or before WaitPriorityOperations of it;
\* Wait for the current tick is FinishCurrent.
Wait(t, g) ==
  /\ pc[Owner] = "idle" /\ opState = "Open" /\ t < tick
  /\ need' = t /\ goal' = g /\ waitTick' = t
  /\ Go(Owner, "gpu")
  /\ UNCHANGED <<clock, ops, opState, stop, sleepers, cur, execTick>>

\* The GPU has passed the tick; PopPendingOperations starts with a Refresh.
GpuReached ==
  /\ pc[Owner] = "gpu"
  /\ gpu >= need /\ Refresh
  /\ Go(Owner, "pop")
  /\ UNCHANGED <<tick, gpu, ops, opState, stop, sleepers, record>>

\* Seeded defect: an operation is due one tick early.
DueEarly(o) == IsFree(log[o].tick - 1)

Due(o) == IsFree(log[o].tick)

\* PopPendingOperations takes the next operation that is due, or ends.
PopOperation ==
  /\ pc[Owner] = "pop" /\ MutexFree
  /\ pending # <<>> /\ Due(Head(pending))
  /\ pending' = Tail(pending)
  /\ running' = [running EXCEPT ![Owner] = Head(pending)]
  /\ begun' = begun \union {Head(pending)}
  /\ Go(Owner, "callback")
  /\ UNCHANGED <<clock, log, done, prio, active, opState, stop, sleepers, record>>

AfterPop == CASE goal = "return" -> "idle"
              [] goal = "await"  -> "await"
              [] goal \in {"drain", "shutdown"} -> "drain"

PopEnds ==
  /\ pc[Owner] = "pop" /\ MutexFree
  /\ ~(pending # <<>> /\ Due(Head(pending)))
  /\ Go(Owner, AfterPop)
  /\ UNCHANGED <<clock, ops, opState, stop, sleepers, record>>

\* The callback of RunOperation returns.
CallbackReturns(t) ==
  /\ pc[t] = "callback"
  /\ done' = done \union {running[t]}
  /\ running' = [running EXCEPT ![t] = 0]
  /\ Go(t, IF t = Owner THEN "pop" ELSE "clear")
  /\ UNCHANGED <<clock, log, begun, pending, prio, active, opState, stop, sleepers,
                 record>>

\* Seeded defect: the operation the runner is in does not count.
NoneQueued(t) == prio # <<>> => log[Head(prio)].tick > t

\* No priority operation up to tick t is queued or running.
NoneBefore(t) ==
  /\ active # 0 => log[active].tick > t
  /\ prio # <<>> => log[Head(prio)].tick > t

\* WaitPriorityOperations looks at the running and at the first operation.
WaitPriorityOperations ==
  /\ pc[Owner] = "await" /\ Locks(Owner)
  /\ IF NoneBefore(waitTick)
     THEN Go(Owner, "idle") /\ UNCHANGED sleepers
     ELSE sleepers' = sleepers \union {Owner} /\ UNCHANGED pc
  /\ UNCHANGED <<clock, ops, opState, stop, record>>

DrainPriorityOperations ==
  /\ pc[Owner] = "drain" /\ Locks(Owner)
  /\ IF prio = <<>> /\ active = 0
     THEN Go(Owner, IF goal = "shutdown" THEN "stop" ELSE "idle") /\ UNCHANGED sleepers
     ELSE sleepers' = sleepers \union {Owner} /\ UNCHANGED pc
  /\ UNCHANGED <<clock, ops, opState, stop, record>>

-----------------------------------------------------------------------------
(* PriorityOperationsThread.                                               *)

RunnerLoop ==
  /\ pc[Runner] = "loop"
  /\ Go(Runner, IF stop THEN "exit" ELSE "look")
  /\ UNCHANGED <<clock, ops, opState, stop, sleepers, record>>

\* The predicate under the mutex: leave, take the front operation, or go to
\* sleep, which keeps the mutex for one more step.
RunnerLooks ==
  /\ pc[Runner] = "look" /\ Runner \notin sleepers
  /\ \/ stop /\ Go(Runner, "exit") /\ UNCHANGED <<prio, active>>
     \/ /\ ~stop /\ prio # <<>>
        /\ active' = Head(prio) /\ prio' = Tail(prio)
        /\ Go(Runner, "gpu")
     \/ ~stop /\ prio = <<>> /\ Go(Runner, "block") /\ UNCHANGED <<prio, active>>
  /\ UNCHANGED <<clock, log, begun, done, pending, running, opState, stop, sleepers,
                 record>>

RunnerSleeps ==
  /\ pc[Runner] = "block"
  /\ sleepers' = sleepers \union {Runner}
  /\ Go(Runner, "look")
  /\ UNCHANGED <<clock, ops, opState, stop, record>>

\* m_master.Wait of the operation's tick, then its callback unless stopping.
RunnerStarts ==
  /\ pc[Runner] = "gpu" /\ WaitReturns(log[active].tick)
  /\ IF stop
     THEN Go(Runner, "clear") /\ UNCHANGED <<begun, running>>
     ELSE /\ begun' = begun \union {active}
          /\ running' = [running EXCEPT ![Runner] = active]
          /\ Go(Runner, "callback")
  /\ UNCHANGED <<tick, gpu, log, done, pending, prio, active, opState, stop, sleepers,
                 record>>

RunnerClears ==
  /\ pc[Runner] = "clear"
  /\ active' = 0
  /\ Go(Runner, "tell")
  /\ UNCHANGED <<clock, log, begun, done, pending, prio, running, opState, stop,
                 sleepers, record>>

RunnerTells ==
  /\ pc[Runner] = "tell"
  /\ NotifyAll
  /\ Go(Runner, "loop")
  /\ UNCHANGED <<clock, ops, opState, stop, record>>

-----------------------------------------------------------------------------
(* Shutdown by the owner.                                                  *)

Shutdown ==
  /\ pc[Owner] = "idle" /\ MutexFree /\ opState = "Open"
  /\ opState' = "Draining"
  /\ Go(Owner, "final")
  /\ UNCHANGED <<clock, ops, stop, sleepers, record>>

\* Seeded defect: shutdown does not finish the recording first.
ShutdownSkips ==
  /\ pc[Owner] = "final"
  /\ goal' = "shutdown"
  /\ Go(Owner, "drain")
  /\ UNCHANGED <<clock, ops, opState, stop, sleepers, cur, execTick, need, waitTick>>

ShutdownFinish == pc[Owner] = "final" /\ Submit(cur, tick, "shutdown", 0)

RequestStop ==
  /\ pc[Owner] = "stop"
  /\ stop' = TRUE
  /\ Go(Owner, "wake")
  /\ UNCHANGED <<clock, ops, opState, sleepers, record>>

WakeRunner ==
  /\ pc[Owner] = "wake"
  /\ NotifyAll
  /\ Go(Owner, "join")
  /\ UNCHANGED <<clock, ops, opState, stop, record>>

Join ==
  /\ pc[Owner] = "join" /\ pc[Runner] = "exit"
  /\ Go(Owner, "close")
  /\ UNCHANGED <<clock, ops, opState, stop, sleepers, record>>

\* The queues are asserted empty and the state becomes Closed.
CloseState ==
  /\ pc[Owner] = "close"
  /\ opState' = "Closed"
  /\ Go(Owner, "announce")
  /\ UNCHANGED <<clock, ops, stop, sleepers, record>>

Announce ==
  /\ pc[Owner] = "announce"
  /\ NotifyAll
  /\ Go(Owner, "closed")
  /\ UNCHANGED <<clock, ops, opState, stop, record>>

-----------------------------------------------------------------------------
Device == GpuSignals /\ UNCHANGED <<known, ops, opState, stop, pc, sleepers, record>>

\* A condition variable may wake a thread nobody notified.
SpuriousWake(t) ==
  /\ t \in sleepers
  /\ sleepers' = sleepers \ {t}
  /\ UNCHANGED <<clock, ops, opState, stop, pc, record>>

\* Steps of a call that has begun.
OwnerContinues ==
  \/ NotifyPriority \/ GpuReached \/ PopOperation \/ PopEnds \/ CallbackReturns(Owner)
  \/ WaitPriorityOperations \/ DrainPriorityOperations
  \/ ShutdownFinish \/ RequestStop \/ WakeRunner \/ Join \/ CloseState \/ Announce

OwnerCalls ==
  \/ OwnerDefers \/ DeferPriorityOperation \/ Flush \/ Shutdown
  \/ \E g \in {"return", "drain", "await"} : Finish(g)
  \/ \E t \in 1..TickMax, g \in {"return", "await"} : Wait(t, g)

RunnerSteps ==
  \/ RunnerLoop \/ RunnerLooks \/ RunnerSleeps \/ RunnerStarts
  \/ CallbackReturns(Runner) \/ RunnerClears \/ RunnerTells

Next ==
  \/ OwnerCalls \/ OwnerContinues \/ RunnerSteps \/ Device
  \/ \E t \in {Owner, Runner} : CallbackDefers(t)
  \/ \E u \in Others : OtherDefers(u) \/ OtherShutsDown(u) \/ OtherLooks(u)
  \/ \E t \in Threads : SpuriousWake(t)

\* Every thread that can go on does, and the GPU finishes what it is given.
Fairness ==
  /\ WF_vars(OwnerContinues)
  /\ WF_vars(RunnerSteps)
  /\ WF_vars(Device)
  /\ \A u \in Others : WF_vars(OtherLooks(u))

Spec == Init /\ [][Next]_vars /\ Fairness

-----------------------------------------------------------------------------
\* The callback of a deferred operation starts only when the GPU has finished
\* the commands recorded before the deferral, and operations of one queue run
\* one after the other in the order in which they were deferred
\* (PopPendingOperations, PriorityOperationsThread).
RunsAfterItsWork ==
  /\ \A o \in begun : log[o].kind # "direct" => log[o].tick <= gpu
  /\ \A o, p \in OpIds :
       (o < p /\ log[o].kind = log[p].kind /\ log[o].kind # "direct" /\ p \in begun)
         => o \in done

\* When DrainPriorityOperations or WaitPriorityOperations(tick) returns, the
\* callbacks of all priority operations it stands for have returned, although
\* the second looks at the front of the queue only.
WaitCoversEarlier ==
  [][/\ (pc[Owner] = "await" /\ pc'[Owner] = "idle") =>
          \A o \in OpIds : (log[o].kind = "priority" /\ log[o].tick <= waitTick) => o \in done
     /\ (pc[Owner] = "drain" /\ pc'[Owner] # "drain") =>
          \A o \in OpIds : log[o].kind = "priority" => o \in done]_vars

\* When the scheduler closes, every operation anybody deferred has been run:
\* the EXIT_IF of Shutdown is not reached, and the runner, which drops an
\* operation it took if it is told to stop, has dropped none.
ClosedLeavesNothing ==
  pc[Owner] \in {"close", "announce", "closed"} =>
    pending = <<>> /\ prio = <<>> /\ active = 0 /\ done = OpIds

\* A priority operation whose commands have been submitted is run in the end,
\* whatever the owner waits for (DeferPriorityOperation notifies one thread of
\* a condition variable that several kinds of waiters share).
PriorityOperationRuns ==
  \A o \in 1..OpMax :
    (o \in OpIds /\ log[o].kind = "priority" /\ log[o].tick < tick)
      ~> (o \in done)

\* A shutdown that has begun comes to its end (Shutdown: "The owning thread
\* will finish shutdown").
ShutdownFinishes == (opState = "Draining") ~> (opState = "Closed")
=============================================================================
