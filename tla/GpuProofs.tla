------------------------------ MODULE GpuProofs ------------------------------
(***************************************************************************)
(* Proofs about the components on the way to the GPU.  Two follow it by    *)
(* its timeline: the command scheduler, for any number of other threads,   *)
(* of command buffers, of ticks and of operations, and the stream buffer,  *)
(* for a ring of any size and any sizes and alignments asked of Map.  The  *)
(* third is the guest's command processor, for any number of threads and   *)
(* queues and any programs whose calls end.                                *)
(***************************************************************************)
EXTENDS CommandScheduler, StreamBuffer, GpuThread, TLAPS, WellFoundedInduction,
        FiniteSetTheorems, SequenceTheorems

-----------------------------------------------------------------------------
(* The command scheduler                                                   *)

\* Operations are numbered from 1, so the front of a sorted queue is the
\* oldest operation in it.
Sorted(q) == \A i, j \in 1..Len(q) : i < j => q[i] < q[j]

Queued(q, o) == \E i \in 1..Len(q) : q[i] = o

\* TypeOK with the domains of the functions.
TypesOK ==
  /\ TypeOK
  /\ pc \in [Threads -> OwnerPcs \union RunnerPcs \union OtherPcs]
  /\ running \in [{Owner, Runner} -> OpIds \union {0}]

\* The host never knows more than the GPU has signalled, nor the GPU signals
\* what is not submitted, and later operations have later ticks.
ClockOK ==
  /\ gpu < tick /\ known <= gpu
  /\ \A o \in OpIds : log[o].tick <= tick
  /\ \A o, p \in OpIds : o < p => log[o].tick <= log[p].tick

\* m_pending_operations holds the ordinary operations that have not begun.
OrdinaryOK ==
  /\ Sorted(pending)
  /\ \A i \in 1..Len(pending) :
       log[pending[i]].kind = "ordinary" /\ pending[i] \notin begun
  /\ \A o \in OpIds : log[o].kind = "ordinary" =>
       \/ Queued(pending, o)
       \/ o \in begun /\ (o \in done \/ o = running[Owner])
  /\ running[Owner] # 0 => running[Owner] \in begun

\* The priority operations not returned are the runner's and those behind it
\* in m_priority_operations; an operation run directly has returned.
PriorityOK ==
  /\ Sorted(prio)
  /\ \A i \in 1..Len(prio) :
       /\ log[prio[i]].kind = "priority" /\ prio[i] \notin begun
       /\ active < prio[i]
  /\ active # 0 => log[active].kind = "priority"
  /\ \A o \in OpIds : log[o].kind = "priority" =>
       o \in done \/ o = active \/ Queued(prio, o)
  /\ \A o \in OpIds : log[o].kind = "direct" => o \in done

\* Where the threads are and which operation they have in hand.
PlaceOK ==
  /\ pc[Owner] = "callback" <=> running[Owner] # 0
  /\ active # 0 <=> pc[Runner] \in {"gpu", "callback", "clear"}
  /\ pc[Runner] = "callback" => running[Runner] = active /\ active \in begun
  /\ pc[Runner] = "clear" => active \in done

Stopped == {"wake", "join", "close", "announce", "closed"}

\* What each phase of Shutdown has achieved: nothing is deferred to a queue
\* once the state is not Open, the last submission covers what is pending, and
\* the runner is stopped when it has nothing left.
PhaseOK ==
  /\ stop => pc[Owner] \in Stopped
  /\ opState = "Open" =>
       /\ goal # "shutdown"
       /\ pc[Owner] \in {"idle", "notify", "gpu", "pop", "callback", "drain", "await"}
  /\ opState # "Open" /\ pc[Owner] # "final" =>
       /\ goal = "shutdown"
       /\ pc[Owner] \in {"gpu", "pop", "callback", "drain", "stop"} \union Stopped
       /\ \A i \in 1..Len(pending) : log[pending[i]].tick <= need
       /\ pc[Owner] \in {"pop", "callback"} => known >= need
       /\ pc[Owner] \in {"drain", "stop"} \union Stopped => pending = <<>>
       /\ pc[Owner] \in {"stop"} \union Stopped => prio = <<>> /\ active = 0

\* The inductive invariant.
IInv ==
  /\ TypesOK /\ ClockOK /\ OrdinaryOK /\ PriorityOK /\ PlaceOK /\ PhaseOK
  /\ RunsAfterItsWork

-----------------------------------------------------------------------------
(* Facts used throughout                                                   *)

\* The threads are what they are named.
LEMMA ThreadFacts ==
  /\ Owner \in Threads /\ Runner \in Threads /\ Others \subseteq Threads
  /\ Owner # Runner /\ \A u \in Others : u # Owner /\ u # Runner
BY SchedulerAssumption DEF Threads

\* The types in the form the arithmetic needs.
LEMMA OpFacts ==
  ASSUME TypesOK
  PROVE  /\ tick \in Nat /\ gpu \in Nat /\ known \in Nat /\ need \in Nat
         /\ waitTick \in Nat /\ Len(log) \in Nat /\ OpIds = 1..Len(log)
         /\ \A o \in OpIds : o \in Nat /\ o # 0 /\ log[o].tick \in Nat
              /\ log[o].kind \in {"ordinary", "priority", "direct"}
         /\ begun \subseteq OpIds /\ done \subseteq begun
         /\ Len(pending) \in Nat /\ \A i \in 1..Len(pending) : pending[i] \in OpIds
         /\ Len(prio) \in Nat /\ \A i \in 1..Len(prio) : prio[i] \in OpIds
         /\ active \in OpIds \union {0}
         /\ running[Owner] \in OpIds \union {0} /\ running[Runner] \in OpIds \union {0}
<1> DEFINE Op == [kind : {"ordinary", "priority", "direct"}, tick : Nat]
<1>0. log \in Seq(Op)
  BY DEF TypesOK, TypeOK
<1> HIDE DEF Op
<1>1. \A o \in 1..Len(log) : log[o] \in Op
  BY <1>0
<1>2. \A o \in OpIds : log[o].tick \in Nat
                       /\ log[o].kind \in {"ordinary", "priority", "direct"}
  BY <1>1 DEF OpIds, Op
<1>3. Len(log) \in Nat /\ \A o \in OpIds : o \in Nat /\ o # 0
  BY DEF TypesOK, TypeOK, OpIds
<1>4. /\ Len(pending) \in Nat /\ \A i \in 1..Len(pending) : pending[i] \in OpIds
      /\ Len(prio) \in Nat /\ \A i \in 1..Len(prio) : prio[i] \in OpIds
  BY DEF TypesOK, TypeOK
<1> QED BY <1>2, <1>3, <1>4 DEF TypesOK, TypeOK, TimelineType, OpIds

\* A queue of operations is one after another operation is deferred, too.
LEMMA QueueGrows ==
  ASSUME NEW n \in Nat, NEW q \in Seq(1..n)
  PROVE  q \in Seq(1..(n + 1)) /\ Append(q, n + 1) \in Seq(1..(n + 1))
<1>1. \A i \in 1..Len(q) : q[i] \in 1..(n + 1)
  OBVIOUS
<1>2. q \in Seq(1..(n + 1))
  BY <1>1
<1> QED BY <1>2

\* A deferred operation goes behind all others.
LEMMA AppendSorted ==
  ASSUME NEW n \in Nat, NEW q \in Seq(1..n), Sorted(q)
  PROVE  /\ Sorted(Append(q, n + 1))
         /\ \A o : Queued(Append(q, n + 1), o) <=> Queued(q, o) \/ o = n + 1
<1> DEFINE r == Append(q, n + 1)
<1>1. /\ Len(q) \in Nat /\ Len(r) = Len(q) + 1 /\ r[Len(q) + 1] = n + 1
      /\ \A i \in 1..Len(q) : r[i] = q[i] /\ q[i] \in 1..n
  OBVIOUS
<1> HIDE DEF r
<1>2. Sorted(r)
  <2>1. SUFFICES ASSUME NEW i \in 1..Len(r), NEW j \in 1..Len(r), i < j
                 PROVE  r[i] < r[j]
    BY DEF Sorted
  <2>2. i \in 1..Len(q) /\ (j \in 1..Len(q) \/ j = Len(q) + 1)
    BY <1>1, <2>1
  <2>3. CASE j \in 1..Len(q)
    BY <1>1, <2>1, <2>2, <2>3 DEF Sorted
  <2>4. CASE j = Len(q) + 1
    BY <1>1, <2>2, <2>4
  <2> QED BY <2>2, <2>3, <2>4
<1>3. ASSUME NEW o PROVE Queued(r, o) <=> Queued(q, o) \/ o = n + 1
  <2>1. ASSUME NEW i \in 1..Len(r), r[i] = o PROVE Queued(q, o) \/ o = n + 1
    <3>1. i \in 1..Len(q) \/ i = Len(q) + 1
      BY <1>1
    <3> QED BY <1>1, <2>1, <3>1 DEF Queued
  <2>2. ASSUME NEW i \in 1..Len(q), q[i] = o PROVE Queued(r, o)
    <3>1. i \in 1..Len(r) /\ r[i] = o
      BY <1>1, <2>2
    <3> QED BY <3>1 DEF Queued
  <2>3. Queued(r, n + 1)
    <3>1. Len(q) + 1 \in 1..Len(r)
      BY <1>1
    <3> QED BY <1>1, <3>1 DEF Queued
  <2> QED BY <2>1, <2>2, <2>3 DEF Queued
<1> QED BY <1>2, <1>3 DEF r

\* Taking the front of a sorted queue leaves what is younger.
LEMMA TailSorted ==
  ASSUME NEW n \in Nat, NEW q \in Seq(1..n), Sorted(q), q # <<>>
  PROVE  /\ Tail(q) \in Seq(1..n) /\ Sorted(Tail(q)) /\ Head(q) \in 1..n
         /\ Len(Tail(q)) \in Nat
         /\ \A o : Queued(q, o) => o = Head(q) \/ Queued(Tail(q), o)
         /\ \A i \in 1..Len(Tail(q)) : /\ Head(q) < Tail(q)[i]
                                       /\ \E j \in 1..Len(q) : Tail(q)[i] = q[j]
<1> DEFINE r == Tail(q)
<1>1. /\ Len(q) \in Nat /\ Len(q) >= 1 /\ r \in Seq(1..n) /\ Len(r) = Len(q) - 1
      /\ Head(q) = q[1] /\ \A i \in 1..Len(r) : r[i] = q[i + 1]
      /\ \A i \in 1..Len(q) : q[i] \in 1..n
  OBVIOUS
<1> HIDE DEF r
<1>2. \A i \in 1..Len(r) : i + 1 \in 1..Len(q) /\ 1 < i + 1
  BY <1>1
<1>3. Sorted(r)
  <2>1. SUFFICES ASSUME NEW i \in 1..Len(r), NEW j \in 1..Len(r), i < j
                 PROVE  r[i] < r[j]
    BY DEF Sorted
  <2>2. i + 1 \in 1..Len(q) /\ j + 1 \in 1..Len(q) /\ i + 1 < j + 1
    BY <1>1, <2>1
  <2>3. q[i + 1] < q[j + 1]
    BY <2>2 DEF Sorted
  <2> QED BY <1>1, <2>3
<1>4. ASSUME NEW o, Queued(q, o) PROVE o = Head(q) \/ Queued(r, o)
  <2>1. PICK i \in 1..Len(q) : q[i] = o
    BY <1>4 DEF Queued
  <2>2. CASE i = 1
    BY <1>1, <2>1, <2>2
  <2>3. CASE i # 1
    <3>1. i - 1 \in 1..Len(r) /\ r[i - 1] = o
      BY SMTT(30), <1>1, <2>1, <2>3
    <3> QED BY <3>1 DEF Queued
  <2> QED BY <2>2, <2>3
<1>5. \A i \in 1..Len(r) : Head(q) < r[i] /\ \E j \in 1..Len(q) : r[i] = q[j]
  <2>1. 1 \in 1..Len(q)
    BY <1>1
  <2> QED BY <1>1, <1>2, <2>1 DEF Sorted
<1>6. Len(r) \in Nat /\ Head(q) \in 1..n
  BY <1>1
<1> QED BY <1>1, <1>3, <1>4, <1>5, <1>6 DEF r

\* The front of a sorted queue is its least element.
LEMMA HeadLeast ==
  ASSUME NEW n \in Nat, NEW q \in Seq(1..n), Sorted(q), NEW o, Queued(q, o)
  PROVE  q # <<>> /\ Head(q) \in 1..n /\ Head(q) <= o
<1>1. PICK i \in 1..Len(q) : q[i] = o
  BY DEF Queued
<1>2. Len(q) \in Nat /\ Len(q) >= 1 /\ 1 \in 1..Len(q) /\ q[1] \in 1..n /\ q[i] \in 1..n
  BY <1>1
<1>3. Head(q) = q[1]
  BY <1>2
<1>4. q[1] <= q[i]
  BY <1>1, <1>2 DEF Sorted
<1>5. q # <<>>
  BY <1>2
<1> QED BY <1>1, <1>2, <1>3, <1>4, <1>5

-----------------------------------------------------------------------------
(* Steps that leave the operations alone                                   *)

LEMMA InitInv == Init => IInv
<1> SUFFICES ASSUME Init PROVE IInv
  OBVIOUS
<1> USE DEF Init, TimelineInit
<1>1. /\ Len(log) = 0 /\ OpIds = {} /\ Len(pending) = 0 /\ Len(prio) = 0
      /\ log \in Seq([kind : {"ordinary", "priority", "direct"}, tick : Nat])
      /\ pending \in Seq(OpIds) /\ prio \in Seq(OpIds)
  BY DEF OpIds
<1>2. /\ pc \in [Threads -> OwnerPcs \union RunnerPcs \union OtherPcs]
      /\ pc[Owner] = "idle" /\ pc[Runner] = "loop" /\ \A u \in Others : pc[u] = "free"
  BY ThreadFacts DEF OwnerPcs, RunnerPcs, OtherPcs
<1>3. /\ running \in [{Owner, Runner} -> OpIds \union {0}]
      /\ running[Owner] = 0 /\ running[Runner] = 0
  OBVIOUS
<1>4. TypesOK
  <2>1. cur \in 0..(BufferCount - 1) /\ execTick \in [0..(BufferCount - 1) -> Nat]
    BY SchedulerAssumption
  <2>2. stop \in BOOLEAN /\ sleepers \subseteq Threads
    OBVIOUS
  <2> QED BY <1>1, <1>2, <1>3, <2>1, <2>2
          DEF TypesOK, TypeOK, TimelineType, OwnerPcs, RunnerPcs, OtherPcs, Goals
<1>5. ClockOK /\ OrdinaryOK /\ PriorityOK
  BY <1>1, <1>3 DEF ClockOK, OrdinaryOK, PriorityOK, Sorted
<1>6. PlaceOK /\ PhaseOK /\ RunsAfterItsWork
  BY <1>1, <1>2, <1>3 DEF PlaceOK, PhaseOK, RunsAfterItsWork
<1> QED BY <1>4, <1>5, <1>6 DEF IInv

\* Time goes on: what the queues promise stays true.
LEMMA TimePasses ==
  ASSUME IInv, UNCHANGED ops,
         tick' \in Nat, gpu' \in Nat, known' \in Nat,
         gpu' < tick', known' <= gpu', gpu' >= gpu, tick' >= tick
  PROVE  /\ ClockOK' /\ OrdinaryOK' /\ PriorityOK' /\ RunsAfterItsWork'
         /\ OpIds' = OpIds /\ log' = log /\ begun' = begun /\ done' = done
         /\ pending' = pending /\ prio' = prio /\ active' = active /\ running' = running
<1> USE DEF IInv
<1>1. /\ OpIds' = OpIds /\ log' = log /\ begun' = begun /\ done' = done
      /\ pending' = pending /\ prio' = prio /\ active' = active /\ running' = running
  BY DEF ops, OpIds
<1>2. /\ \A o \in OpIds : log[o].tick \in Nat
      /\ tick \in Nat /\ gpu \in Nat /\ begun \subseteq OpIds
  BY OpFacts
<1>3. ClockOK'
  BY <1>1, <1>2 DEF ClockOK
<1>4. OrdinaryOK' /\ PriorityOK'
  BY <1>1 DEF OrdinaryOK, PriorityOK
<1>5. RunsAfterItsWork'
  BY <1>1, <1>2 DEF RunsAfterItsWork
<1> QED BY <1>1, <1>3, <1>4, <1>5

\* The types of what the owner's calls keep in between.
RecordType ==
  /\ cur \in 0..(BufferCount - 1)
  /\ execTick \in [0..(BufferCount - 1) -> Nat]
  /\ need \in Nat /\ waitTick \in Nat /\ goal \in Goals

\* A step of the owner that is neither the start nor the end of a callback.
LEMMA OwnerControl ==
  ASSUME IInv, UNCHANGED ops,
         tick' \in Nat, gpu' \in Nat, known' \in Nat,
         gpu' < tick', known' <= gpu', gpu' >= gpu, tick' >= tick,
         NEW w \in OwnerPcs \ {"callback"}, pc[Owner] # "callback", Go(Owner, w),
         opState' \in {"Open", "Draining", "Closed"}, stop' \in BOOLEAN,
         sleepers' \subseteq Threads, RecordType', PhaseOK'
  PROVE  IInv'
<1>1. /\ ClockOK' /\ OrdinaryOK' /\ PriorityOK' /\ RunsAfterItsWork'
      /\ OpIds' = OpIds /\ log' = log /\ begun' = begun /\ done' = done
      /\ pending' = pending /\ prio' = prio /\ active' = active /\ running' = running
  BY TimePasses
<1>2. /\ pc \in [Threads -> OwnerPcs \union RunnerPcs \union OtherPcs]
      /\ pc' = [pc EXCEPT ![Owner] = w]
  BY DEF IInv, TypesOK, Go
<1>3. /\ pc' \in [Threads -> OwnerPcs \union RunnerPcs \union OtherPcs]
      /\ pc'[Owner] = w /\ \A t \in Threads : t # Owner => pc'[t] = pc[t]
  BY <1>2, ThreadFacts
<1>4. pc'[Runner] = pc[Runner] /\ \A u \in Others : pc'[u] = pc[u]
  BY <1>3, ThreadFacts
<1>5. TypesOK'
  <2>1. tick' # 0
    OBVIOUS
  <2>2. TypesOK /\ TypeOK
    BY DEF IInv, TypesOK
  <2> QED BY <1>1, <1>3, <1>4, <2>1, <2>2 DEF TypesOK, TypeOK, TimelineType, RecordType
<1>6. PlaceOK'
  BY <1>1, <1>3, <1>4 DEF IInv, PlaceOK
<1> QED BY <1>1, <1>5, <1>6 DEF IInv

\* A step of the runner without an operation in hand.
LEMMA RunnerControl ==
  ASSUME IInv, UNCHANGED <<clock, ops, opState, stop, record>>,
         NEW w \in {"loop", "look", "block", "tell", "exit"},
         pc[Runner] \notin {"gpu", "callback", "clear"}, Go(Runner, w),
         sleepers' \subseteq Threads
  PROVE  IInv'
<1>0. /\ tick' = tick /\ gpu' = gpu /\ known' = known
      /\ opState' = opState /\ stop' = stop
      /\ cur' = cur /\ execTick' = execTick /\ need' = need /\ goal' = goal
      /\ waitTick' = waitTick /\ tick \in Nat /\ gpu \in Nat /\ known \in Nat
      /\ gpu < tick /\ known <= gpu
  BY OpFacts DEF clock, timeline, record, IInv, ClockOK
<1>1. /\ ClockOK' /\ OrdinaryOK' /\ PriorityOK' /\ RunsAfterItsWork'
      /\ OpIds' = OpIds /\ log' = log /\ begun' = begun /\ done' = done
      /\ pending' = pending /\ prio' = prio /\ active' = active /\ running' = running
  BY <1>0, TimePasses
<1>2. /\ pc \in [Threads -> OwnerPcs \union RunnerPcs \union OtherPcs]
      /\ pc' = [pc EXCEPT ![Runner] = w] /\ w \in RunnerPcs
  BY DEF IInv, TypesOK, Go, RunnerPcs
<1>3. /\ pc' \in [Threads -> OwnerPcs \union RunnerPcs \union OtherPcs]
      /\ pc'[Runner] = w /\ \A t \in Threads : t # Runner => pc'[t] = pc[t]
  BY <1>2, ThreadFacts
<1>4. pc'[Owner] = pc[Owner] /\ \A u \in Others : pc'[u] = pc[u]
  BY <1>3, ThreadFacts
<1>5. TypesOK'
  <2>2. TypesOK /\ TypeOK
    BY DEF IInv, TypesOK
  <2> QED BY <1>0, <1>1, <1>2, <1>3, <1>4, <2>2 DEF TypesOK, TypeOK, TimelineType
<1>6. PlaceOK'
  BY <1>1, <1>3, <1>4 DEF IInv, PlaceOK
<1>7. PhaseOK'
  BY <1>0, <1>1, <1>4 DEF IInv, PhaseOK
<1> QED BY <1>1, <1>5, <1>6, <1>7 DEF IInv

\* The device, a wakeup, or a step of another thread that runs nothing.
LEMMA OtherControl ==
  ASSUME IInv, UNCHANGED <<tick, known, ops, opState, stop, record>>,
         gpu' \in Nat, gpu' < tick, gpu' >= gpu,
         \/ pc' = pc
         \/ \E u \in Others, w \in OtherPcs : Go(u, w),
         sleepers' \subseteq Threads
  PROVE  IInv'
<1>0. /\ tick' = tick /\ known' = known
      /\ opState' = opState /\ stop' = stop
      /\ cur' = cur /\ execTick' = execTick /\ need' = need /\ goal' = goal
      /\ waitTick' = waitTick /\ tick \in Nat /\ gpu \in Nat /\ known \in Nat
      /\ known <= gpu
  BY OpFacts DEF record, IInv, ClockOK
<1>k. known <= gpu'
  BY <1>0
<1>1. /\ ClockOK' /\ OrdinaryOK' /\ PriorityOK' /\ RunsAfterItsWork'
      /\ OpIds' = OpIds /\ log' = log /\ begun' = begun /\ done' = done
      /\ pending' = pending /\ prio' = prio /\ active' = active /\ running' = running
  BY <1>0, <1>k, TimePasses
<1>2. pc \in [Threads -> OwnerPcs \union RunnerPcs \union OtherPcs]
      /\ \A u \in Others : pc[u] \in OtherPcs
  BY DEF IInv, TypesOK, TypeOK
<1>3. /\ pc' \in [Threads -> OwnerPcs \union RunnerPcs \union OtherPcs]
      /\ pc'[Owner] = pc[Owner] /\ pc'[Runner] = pc[Runner]
      /\ \A u \in Others : pc'[u] \in OtherPcs
  <2>1. ASSUME NEW u \in Others, NEW w \in OtherPcs, Go(u, w)
        PROVE  /\ pc' \in [Threads -> OwnerPcs \union RunnerPcs \union OtherPcs]
               /\ pc'[Owner] = pc[Owner] /\ pc'[Runner] = pc[Runner]
               /\ \A v \in Others : pc'[v] \in OtherPcs
    <3>1. pc' = [pc EXCEPT ![u] = w] /\ u \in Threads
      BY <2>1, ThreadFacts DEF Go
    <3>2. /\ pc' \in [Threads -> OwnerPcs \union RunnerPcs \union OtherPcs]
          /\ pc'[u] = w /\ \A t \in Threads : t # u => pc'[t] = pc[t]
      BY <1>2, <3>1
    <3> QED BY <1>2, <3>2, ThreadFacts
  <2> QED BY <1>2, <2>1
<1>5. TypesOK'
  <2>2. TypesOK /\ TypeOK
    BY DEF IInv, TypesOK
  <2> QED BY <1>0, <1>1, <1>2, <1>3, <2>2 DEF TypesOK, TypeOK, TimelineType
<1>6. PlaceOK'
  BY <1>1, <1>3 DEF IInv, PlaceOK
<1>7. PhaseOK'
  BY <1>0, <1>1, <1>3 DEF IInv, PhaseOK
<1> QED BY <1>1, <1>5, <1>6, <1>7 DEF IInv

-----------------------------------------------------------------------------
(* Deferring                                                               *)

\* The log with one more operation, of the tick being recorded.
LEMMA LogGrows ==
  ASSUME IInv, NEW k \in {"ordinary", "priority", "direct"},
         log' = Append(log, [kind |-> k, tick |-> tick]),
         UNCHANGED clock
  PROVE  /\ log' \in Seq([kind : {"ordinary", "priority", "direct"}, tick : Nat])
         /\ OpIds' = OpIds \union {NewOp} /\ NewOp \notin OpIds
         /\ NewOp \in Nat /\ NewOp # 0
         /\ \A o \in OpIds : log'[o] = log[o] /\ o < NewOp
         /\ log'[NewOp].kind = k /\ log'[NewOp].tick = tick
         /\ OpIds = 1..Len(log) /\ OpIds' = 1..(Len(log) + 1) /\ Len(log) \in Nat
         /\ ClockOK'
<1> USE DEF IInv
<1> DEFINE Op == [kind : {"ordinary", "priority", "direct"}, tick : Nat]
           e  == [kind |-> k, tick |-> tick]
<1>1. log \in Seq(Op)
  BY DEF TypesOK, TypeOK
<1>2. e \in Op /\ e.kind = k /\ e.tick = tick
  BY OpFacts
<1>3. log' = Append(log, e)
  OBVIOUS
<1> HIDE DEF Op, e
<1>4. /\ log' \in Seq(Op) /\ Len(log) \in Nat /\ Len(log') = Len(log) + 1
      /\ \A o \in 1..Len(log) : log'[o] = log[o]
      /\ log'[Len(log) + 1] = e
  BY <1>1, <1>2, <1>3
<1>5. /\ OpIds = 1..Len(log) /\ OpIds' = 1..(Len(log) + 1) /\ NewOp = Len(log) + 1
  BY <1>4 DEF OpIds, NewOp
<1>6. /\ OpIds' = OpIds \union {NewOp} /\ NewOp \notin OpIds
      /\ \A o \in OpIds : log'[o] = log[o] /\ o < NewOp
      /\ log'[NewOp] = e /\ NewOp \in Nat /\ NewOp # 0
  BY <1>4, <1>5
<1>7. /\ \A o \in OpIds : log[o].tick \in Nat /\ o \in Nat
      /\ tick \in Nat /\ tick' = tick /\ gpu' = gpu /\ known' = known
  BY OpFacts DEF clock, timeline
<1>8. ClockOK'
  <2>0. \A o \in OpIds : log'[o].tick <= tick
    BY <1>6 DEF ClockOK
  <2>1. \A o \in OpIds' : log'[o].tick <= tick'
    <3>0. log'[NewOp].tick = tick
      BY <1>2, <1>6
    <3>t. tick <= tick
      BY <1>7
    <3>1. log'[NewOp].tick <= tick
      BY <3>0, <3>t, Zenon
    <3> QED BY <1>6, <1>7, <2>0, <3>1
  <2>2. ASSUME NEW o \in OpIds', NEW p \in OpIds', o < p
        PROVE  log'[o].tick <= log'[p].tick
    <3>1. CASE p \in OpIds
      <4>1. o \in OpIds
        BY <1>6, <1>7, <2>2, <3>1
      <4> QED BY <1>6, <2>2, <3>1, <4>1 DEF ClockOK
    <3>2. CASE p = NewOp
      <4>1. log'[p].tick = tick
        BY <1>2, <1>6, <3>2
      <4> QED BY <1>7, <2>1, <4>1
    <3> QED BY <1>6, <3>1, <3>2
  <2> QED BY <1>7, <2>1, <2>2 DEF ClockOK
<1> QED BY <1>2, <1>4, <1>5, <1>6, <1>8 DEF Op

\* The numbers of operations that were there before.
LEMMA OldOps ==
  ASSUME IInv
  PROVE  /\ \A i \in 1..Len(pending) : pending[i] \in OpIds
         /\ \A i \in 1..Len(prio) : prio[i] \in OpIds
         /\ begun \subseteq OpIds /\ done \subseteq begun
         /\ active \in OpIds \union {0}
         /\ running[Owner] \in OpIds \union {0} /\ running[Runner] \in OpIds \union {0}
         /\ pending \in Seq(OpIds) /\ prio \in Seq(OpIds)
         /\ running \in [{Owner, Runner} -> OpIds \union {0}]
BY OpFacts DEF IInv, TypesOK, TypeOK

\* Whatever is deferred, operations are run in order and after their work.
LEMMA OrderKept ==
  ASSUME IInv, NEW k \in {"ordinary", "priority", "direct"},
         log' = Append(log, [kind |-> k, tick |-> tick]), UNCHANGED clock,
         begun \subseteq begun', done \subseteq done',
         begun' \subseteq begun \union {NewOp}, NewOp \in begun' => k = "direct"
  PROVE  RunsAfterItsWork'
<1> USE DEF IInv
<1>1. /\ OpIds' = OpIds \union {NewOp} /\ NewOp \notin OpIds
      /\ \A o \in OpIds : log'[o] = log[o] /\ o < NewOp
      /\ log'[NewOp].kind = k /\ NewOp \in Nat
  BY LogGrows
<1>2. begun \subseteq OpIds /\ gpu' = gpu /\ \A o \in OpIds : o \in Nat
  BY OpFacts DEF clock, timeline
<1>3. \A o \in begun' : log'[o].kind # "direct" => log'[o].tick <= gpu'
  BY <1>1, <1>2 DEF RunsAfterItsWork
<1>4. ASSUME NEW o \in OpIds', NEW p \in OpIds', o < p, log'[o].kind = log'[p].kind,
             log'[o].kind # "direct", p \in begun'
      PROVE  o \in done'
  <2>1. p # NewOp
    BY <1>1, <1>4
  <2>2. p \in begun /\ p \in OpIds /\ o \in OpIds
    BY <1>1, <1>2, <1>4, <2>1
  <2>3. o \in done
    BY <1>1, <1>4, <2>2 DEF RunsAfterItsWork
  <2> QED BY <2>3
<1> QED BY <1>3, <1>4 DEF RunsAfterItsWork

\* DeferOperation while the scheduler is open.
LEMMA PushStep ==
  ASSUME IInv, PushOrdinary, opState = "Open",
         UNCHANGED <<clock, opState, stop, pc, sleepers, record>>
  PROVE  IInv'
<1> USE DEF IInv
<1>0. /\ log' = Append(log, [kind |-> "ordinary", tick |-> tick])
      /\ pending' = Append(pending, NewOp)
      /\ begun' = begun /\ done' = done /\ prio' = prio /\ active' = active
      /\ running' = running
  BY DEF PushOrdinary
<1>c. /\ tick' = tick /\ gpu' = gpu /\ known' = known
      /\ opState' = opState /\ stop' = stop /\ pc' = pc /\ sleepers' = sleepers
      /\ cur' = cur /\ execTick' = execTick /\ need' = need /\ goal' = goal
      /\ waitTick' = waitTick
  BY DEF clock, timeline, record
<1>1. /\ log' \in Seq([kind : {"ordinary", "priority", "direct"}, tick : Nat])
      /\ OpIds' = OpIds \union {NewOp} /\ NewOp \notin OpIds
      /\ NewOp \in Nat /\ NewOp # 0
      /\ \A o \in OpIds : log'[o] = log[o] /\ o < NewOp
      /\ log'[NewOp].kind = "ordinary"
      /\ OpIds = 1..Len(log) /\ OpIds' = 1..(Len(log) + 1) /\ Len(log) \in Nat
      /\ ClockOK'
  BY <1>0, LogGrows
<1>2. /\ \A i \in 1..Len(pending) : pending[i] \in OpIds
      /\ \A i \in 1..Len(prio) : prio[i] \in OpIds
      /\ begun \subseteq OpIds /\ done \subseteq begun /\ active \in OpIds \union {0}
      /\ running[Owner] \in OpIds \union {0} /\ running[Runner] \in OpIds \union {0}
      /\ pending \in Seq(OpIds) /\ prio \in Seq(OpIds)
      /\ running \in [{Owner, Runner} -> OpIds \union {0}]
  BY OldOps
<1>3. /\ pending' \in Seq(OpIds') /\ prio' \in Seq(OpIds')
  BY <1>0, <1>1, <1>2, QueueGrows DEF NewOp
<1>4. /\ Sorted(pending')
      /\ \A o : Queued(pending', o) <=> Queued(pending, o) \/ o = NewOp
  BY <1>0, <1>1, <1>2, AppendSorted DEF NewOp, OrdinaryOK
<1>5. TypesOK'
  <2>1. running' \in [{Owner, Runner} -> OpIds' \union {0}]
        /\ running'[Owner] \in OpIds' \union {0} /\ running'[Runner] \in OpIds' \union {0}
    BY <1>0, <1>1, <1>2
  <2>2. begun' \subseteq OpIds' /\ done' \subseteq begun' /\ active' \in OpIds' \union {0}
    BY <1>0, <1>1, <1>2
  <2> QED BY <1>1, <1>3, <1>c, <2>1, <2>2 DEF TypesOK, TypeOK, TimelineType
<1>6. OrdinaryOK'
  <2>1. ASSUME NEW i \in 1..Len(pending')
        PROVE  log'[pending'[i]].kind = "ordinary" /\ pending'[i] \notin begun'
    <3>1. Queued(pending', pending'[i])
      BY DEF Queued
    <3>2. Queued(pending, pending'[i]) \/ pending'[i] = NewOp
      BY <1>4, <3>1
    <3>3. CASE pending'[i] = NewOp
      BY <1>0, <1>1, <1>2, <3>3
    <3>4. CASE Queued(pending, pending'[i])
      <4>1. PICK j \in 1..Len(pending) : pending[j] = pending'[i]
        BY <3>4 DEF Queued
      <4>2. /\ pending[j] \in OpIds /\ pending[j] \notin begun
            /\ log[pending[j]].kind = "ordinary"
        BY <1>2 DEF OrdinaryOK
      <4>3. log'[pending[j]] = log[pending[j]]
        BY <1>1, <4>2
      <4> QED BY <1>0, <4>1, <4>2, <4>3
    <3> QED BY <3>2, <3>3, <3>4
  <2>2. ASSUME NEW o \in OpIds', log'[o].kind = "ordinary"
        PROVE  \/ Queued(pending', o)
               \/ o \in begun' /\ (o \in done' \/ o = running'[Owner])
    BY <1>0, <1>1, <1>4, <2>2 DEF OrdinaryOK
  <2> QED BY <1>0, <1>4, <2>1, <2>2 DEF OrdinaryOK
<1>7. PriorityOK'
  <2>1. \A o \in OpIds' : log'[o].kind # "ordinary" => o \in OpIds /\ log'[o] = log[o]
    BY <1>1
  <2>2. \A i \in 1..Len(prio) : log'[prio[i]] = log[prio[i]]
    BY <1>1, <1>2
  <2>3. active # 0 => log'[active] = log[active]
    BY <1>1, <1>2
  <2> QED BY <1>0, <2>1, <2>2, <2>3 DEF PriorityOK
<1>8. PlaceOK' /\ PhaseOK'
  BY <1>0, <1>c DEF PlaceOK, PhaseOK
<1>9. RunsAfterItsWork'
  BY <1>0, <1>1, <1>2, OrderKept
<1> QED BY <1>1, <1>5, <1>6, <1>7, <1>8, <1>9

\* An operation that is run on the spot.
LEMMA DirectStep ==
  ASSUME IInv, RunDirectly,
         UNCHANGED <<clock, opState, stop, sleepers, record>>,
         \/ pc' = pc
         \/ \E u \in Others : Go(u, "free")
  PROVE  IInv'
<1> USE DEF IInv
<1>0. /\ log' = Append(log, [kind |-> "direct", tick |-> tick])
      /\ begun' = begun \union {NewOp} /\ done' = done \union {NewOp}
      /\ pending' = pending /\ prio' = prio /\ active' = active /\ running' = running
  BY DEF RunDirectly
<1>c. /\ tick' = tick /\ gpu' = gpu /\ known' = known
      /\ opState' = opState /\ stop' = stop /\ sleepers' = sleepers
      /\ cur' = cur /\ execTick' = execTick /\ need' = need /\ goal' = goal
      /\ waitTick' = waitTick
  BY DEF clock, timeline, record
<1>1. /\ log' \in Seq([kind : {"ordinary", "priority", "direct"}, tick : Nat])
      /\ OpIds' = OpIds \union {NewOp} /\ NewOp \notin OpIds
      /\ NewOp \in Nat /\ NewOp # 0
      /\ \A o \in OpIds : log'[o] = log[o] /\ o < NewOp
      /\ log'[NewOp].kind = "direct"
      /\ OpIds = 1..Len(log) /\ OpIds' = 1..(Len(log) + 1) /\ Len(log) \in Nat
      /\ ClockOK'
  BY <1>0, LogGrows
<1>2. /\ \A i \in 1..Len(pending) : pending[i] \in OpIds
      /\ \A i \in 1..Len(prio) : prio[i] \in OpIds
      /\ begun \subseteq OpIds /\ done \subseteq begun /\ active \in OpIds \union {0}
      /\ running[Owner] \in OpIds \union {0} /\ running[Runner] \in OpIds \union {0}
      /\ pending \in Seq(OpIds) /\ prio \in Seq(OpIds)
      /\ running \in [{Owner, Runner} -> OpIds \union {0}]
  BY OldOps
<1>3. /\ pending' \in Seq(OpIds') /\ prio' \in Seq(OpIds')
  BY <1>0, <1>1, <1>2, QueueGrows DEF NewOp
<1>p. /\ pc' \in [Threads -> OwnerPcs \union RunnerPcs \union OtherPcs]
      /\ pc'[Owner] = pc[Owner] /\ pc'[Runner] = pc[Runner]
      /\ \A v \in Others : pc'[v] \in OtherPcs
  <2>0. pc \in [Threads -> OwnerPcs \union RunnerPcs \union OtherPcs]
        /\ \A u \in Others : pc[u] \in OtherPcs
    BY DEF TypesOK, TypeOK
  <2>1. CASE pc' = pc
    BY <2>0, <2>1
  <2>2. ASSUME NEW u \in Others, Go(u, "free")
        PROVE  /\ pc' \in [Threads -> OwnerPcs \union RunnerPcs \union OtherPcs]
               /\ pc'[Owner] = pc[Owner] /\ pc'[Runner] = pc[Runner]
               /\ \A v \in Others : pc'[v] \in OtherPcs
    <3>1. pc' = [pc EXCEPT ![u] = "free"] /\ u \in Threads /\ "free" \in OtherPcs
      BY <2>2, ThreadFacts DEF Go, OtherPcs
    <3>2. /\ pc' \in [Threads -> OwnerPcs \union RunnerPcs \union OtherPcs]
          /\ pc'[u] = "free" /\ \A t \in Threads : t # u => pc'[t] = pc[t]
      BY <2>0, <3>1
    <3> QED BY <2>0, <3>1, <3>2, ThreadFacts
  <2> QED BY <2>1, <2>2
<1>5. TypesOK'
  <2>1. running' \in [{Owner, Runner} -> OpIds' \union {0}]
        /\ running'[Owner] \in OpIds' \union {0} /\ running'[Runner] \in OpIds' \union {0}
    BY <1>0, <1>1, <1>2
  <2>2. begun' \subseteq OpIds' /\ done' \subseteq begun' /\ active' \in OpIds' \union {0}
    BY <1>0, <1>1, <1>2
  <2> QED BY <1>1, <1>3, <1>c, <1>p, <2>1, <2>2 DEF TypesOK, TypeOK, TimelineType
<1>o. \A o \in OpIds' : log'[o].kind # "direct" => o \in OpIds /\ log'[o] = log[o]
  BY <1>1
<1>6. OrdinaryOK'
  <2>1. \A i \in 1..Len(pending) : log'[pending[i]] = log[pending[i]] /\ pending[i] # NewOp
    BY <1>1, <1>2
  <2> QED BY <1>0, <1>o, <2>1 DEF OrdinaryOK
<1>7. PriorityOK'
  <2>2. \A i \in 1..Len(prio) : log'[prio[i]] = log[prio[i]] /\ prio[i] # NewOp
    BY <1>1, <1>2
  <2>3. active # 0 => log'[active] = log[active]
    BY <1>1, <1>2
  <2>4. ASSUME NEW o \in OpIds', log'[o].kind = "direct" PROVE o \in done'
    BY <1>0, <1>1, <2>4 DEF PriorityOK
  <2> QED BY <1>0, <1>o, <2>2, <2>3, <2>4 DEF PriorityOK
<1>8. PlaceOK' /\ PhaseOK'
  <2>1. PlaceOK'
    BY <1>0, <1>p DEF PlaceOK
  <2>2. \A i \in 1..Len(pending) : log'[pending[i]] = log[pending[i]]
    BY <1>1, <1>2
  <2>3. pending' = pending /\ prio' = prio /\ active' = active
    BY <1>0
  <2>4. PhaseOK'
    BY <1>c, <1>p, <2>2, <2>3 DEF PhaseOK
  <2> QED BY <2>1, <2>4
<1>9. RunsAfterItsWork'
  BY <1>0, OrderKept
<1> QED BY <1>1, <1>5, <1>6, <1>7, <1>8, <1>9

\* DeferPriorityOperation: the operation goes behind the others.
LEMMA DeferPriorityStep ==
  ASSUME IInv, DeferPriorityOperation
  PROVE  IInv'
<1> USE DEF IInv
<1>0. /\ log' = Append(log, [kind |-> "priority", tick |-> tick])
      /\ prio' = Append(prio, NewOp)
      /\ begun' = begun /\ done' = done /\ pending' = pending /\ active' = active
      /\ running' = running
      /\ pc[Owner] = "idle" /\ opState = "Open" /\ pc' = [pc EXCEPT ![Owner] = "notify"]
      /\ UNCHANGED clock
  BY DEF DeferPriorityOperation, Go
<1>c. /\ tick' = tick /\ gpu' = gpu /\ known' = known
      /\ opState' = opState /\ stop' = stop /\ sleepers' = sleepers
      /\ cur' = cur /\ execTick' = execTick /\ need' = need /\ goal' = goal
      /\ waitTick' = waitTick
  BY DEF DeferPriorityOperation, clock, timeline, record
<1>1. /\ log' \in Seq([kind : {"ordinary", "priority", "direct"}, tick : Nat])
      /\ OpIds' = OpIds \union {NewOp} /\ NewOp \notin OpIds
      /\ NewOp \in Nat /\ NewOp # 0
      /\ \A o \in OpIds : log'[o] = log[o] /\ o < NewOp
      /\ log'[NewOp].kind = "priority"
      /\ OpIds = 1..Len(log) /\ OpIds' = 1..(Len(log) + 1) /\ Len(log) \in Nat
      /\ ClockOK'
  BY <1>0, LogGrows
<1>2. /\ \A i \in 1..Len(pending) : pending[i] \in OpIds
      /\ \A i \in 1..Len(prio) : prio[i] \in OpIds
      /\ begun \subseteq OpIds /\ done \subseteq begun /\ active \in OpIds \union {0}
      /\ running[Owner] \in OpIds \union {0} /\ running[Runner] \in OpIds \union {0}
      /\ pending \in Seq(OpIds) /\ prio \in Seq(OpIds)
      /\ running \in [{Owner, Runner} -> OpIds \union {0}]
  BY OldOps
<1>3. /\ pending' \in Seq(OpIds') /\ prio' \in Seq(OpIds')
  BY <1>0, <1>1, <1>2, QueueGrows DEF NewOp
<1>4. /\ Sorted(prio')
      /\ \A o : Queued(prio', o) <=> Queued(prio, o) \/ o = NewOp
  BY <1>0, <1>1, <1>2, AppendSorted DEF NewOp, PriorityOK
<1>p. /\ pc' \in [Threads -> OwnerPcs \union RunnerPcs \union OtherPcs]
      /\ pc'[Owner] = "notify" /\ pc'[Runner] = pc[Runner]
      /\ \A v \in Others : pc'[v] = pc[v]
  BY <1>0, ThreadFacts DEF TypesOK, OwnerPcs
<1>5. TypesOK'
  <2>1. running' \in [{Owner, Runner} -> OpIds' \union {0}]
        /\ running'[Owner] \in OpIds' \union {0} /\ running'[Runner] \in OpIds' \union {0}
    BY <1>0, <1>1, <1>2
  <2>2. begun' \subseteq OpIds' /\ done' \subseteq begun' /\ active' \in OpIds' \union {0}
    BY <1>0, <1>1, <1>2
  <2>3. pc'[Owner] \in OwnerPcs
    BY <1>p DEF OwnerPcs
  <2> QED BY <1>1, <1>3, <1>c, <1>p, <2>1, <2>2, <2>3 DEF TypesOK, TypeOK, TimelineType
<1>6. OrdinaryOK'
  <2>1. \A i \in 1..Len(pending) : log'[pending[i]] = log[pending[i]]
    BY <1>1, <1>2
  <2>2. \A o \in OpIds' : log'[o].kind = "ordinary" => o \in OpIds /\ log'[o] = log[o]
    BY <1>1
  <2> QED BY <1>0, <2>1, <2>2 DEF OrdinaryOK
<1>7. PriorityOK'
  <2>1. ASSUME NEW i \in 1..Len(prio')
        PROVE  /\ log'[prio'[i]].kind = "priority" /\ prio'[i] \notin begun'
               /\ active' < prio'[i]
    <3>1. Queued(prio', prio'[i])
      BY DEF Queued
    <3>2. Queued(prio, prio'[i]) \/ prio'[i] = NewOp
      BY <1>4, <3>1
    <3>3. CASE prio'[i] = NewOp
      BY <1>0, <1>1, <1>2, <3>3
    <3>4. CASE Queued(prio, prio'[i])
      <4>1. PICK j \in 1..Len(prio) : prio[j] = prio'[i]
        BY <3>4 DEF Queued
      <4>2. /\ prio[j] \in OpIds /\ prio[j] \notin begun
            /\ log[prio[j]].kind = "priority" /\ active < prio[j]
        BY <1>2 DEF PriorityOK
      <4>3. log'[prio[j]] = log[prio[j]]
        BY <1>1, <4>2
      <4> QED BY <1>0, <4>1, <4>2, <4>3
    <3> QED BY <3>2, <3>3, <3>4
  <2>2. ASSUME NEW o \in OpIds', log'[o].kind = "priority"
        PROVE  o \in done' \/ o = active' \/ Queued(prio', o)
    BY <1>0, <1>1, <1>4, <2>2 DEF PriorityOK
  <2>3. active # 0 => log'[active] = log[active]
    BY <1>1, <1>2
  <2>4. \A o \in OpIds' : log'[o].kind = "direct" => o \in OpIds /\ log'[o] = log[o]
    BY <1>1
  <2> QED BY <1>0, <1>4, <2>1, <2>2, <2>3, <2>4 DEF PriorityOK
<1>8. PlaceOK' /\ PhaseOK'
  BY <1>0, <1>c, <1>p DEF PlaceOK, PhaseOK, Stopped
<1>9. RunsAfterItsWork'
  BY <1>0, <1>1, <1>2, OrderKept
<1> QED BY <1>1, <1>5, <1>6, <1>7, <1>8, <1>9

-----------------------------------------------------------------------------
(* Running the operations                                                  *)

\* PopPendingOperations starts the oldest operation: its tick is known to be
\* reached and every older one has returned.
LEMMA PopStep ==
  ASSUME IInv, PopOperation
  PROVE  IInv'
<1> USE DEF IInv
<1> DEFINE h == Head(pending)
<1>0. /\ pc[Owner] = "pop" /\ pending # <<>> /\ known >= log[h].tick
      /\ pending' = Tail(pending) /\ running' = [running EXCEPT ![Owner] = h]
      /\ begun' = begun \union {h} /\ pc' = [pc EXCEPT ![Owner] = "callback"]
      /\ log' = log /\ done' = done /\ prio' = prio /\ active' = active
      /\ tick' = tick /\ gpu' = gpu /\ known' = known
      /\ opState' = opState /\ stop' = stop /\ sleepers' = sleepers
      /\ cur' = cur /\ execTick' = execTick /\ need' = need /\ goal' = goal
      /\ waitTick' = waitTick /\ OpIds' = OpIds
  BY DEF PopOperation, Due, IsFree, Go, clock, timeline, record, OpIds
<1>1. /\ \A i \in 1..Len(pending) : pending[i] \in OpIds
      /\ begun \subseteq OpIds /\ done \subseteq begun
      /\ pending \in Seq(OpIds) /\ prio \in Seq(OpIds)
      /\ running \in [{Owner, Runner} -> OpIds \union {0}]
  BY OldOps
<1>2. /\ tick \in Nat /\ gpu \in Nat /\ known \in Nat /\ Len(log) \in Nat
      /\ OpIds = 1..Len(log)
      /\ \A o \in OpIds : o \in Nat /\ o # 0 /\ log[o].tick \in Nat
  BY OpFacts
<1>3. /\ pending' \in Seq(OpIds) /\ Sorted(pending') /\ h \in OpIds
      /\ \A o : Queued(pending, o) => o = h \/ Queued(pending', o)
      /\ \A i \in 1..Len(pending') : /\ h < pending'[i]
                                     /\ \E j \in 1..Len(pending) : pending'[i] = pending[j]
  <2>1. Sorted(pending)
    BY DEF OrdinaryOK
  <2> QED BY <1>0, <1>1, <1>2, <2>1, TailSorted
<1>4. log[h].kind = "ordinary" /\ h \notin begun
  <2>1. 1 \in 1..Len(pending) /\ h = pending[1]
    BY <1>0, <1>1
  <2> QED BY <2>1 DEF OrdinaryOK
<1>5. running[Owner] = 0
  BY <1>0 DEF PlaceOK
<1> HIDE DEF h
<1>6. /\ running' \in [{Owner, Runner} -> OpIds \union {0}]
      /\ running'[Owner] = h /\ running'[Runner] = running[Runner]
  BY <1>0, <1>1, <1>3, ThreadFacts
<1>p. /\ pc' \in [Threads -> OwnerPcs \union RunnerPcs \union OtherPcs]
      /\ pc'[Owner] = "callback" /\ pc'[Runner] = pc[Runner]
      /\ \A v \in Others : pc'[v] = pc[v]
  BY <1>0, ThreadFacts DEF TypesOK, OwnerPcs
<1>7. TypesOK'
  <2>1. begun' \subseteq OpIds /\ done' \subseteq begun'
    BY <1>0, <1>1, <1>3
  <2>2. pc'[Owner] \in OwnerPcs
    BY <1>p DEF OwnerPcs
  <2> QED BY <1>0, <1>3, <1>6, <1>p, <2>1, <2>2 DEF TypesOK, TypeOK, TimelineType
<1>8. ClockOK'
  BY <1>0 DEF ClockOK
<1>9. OrdinaryOK'
  <2>1. ASSUME NEW i \in 1..Len(pending')
        PROVE  log[pending'[i]].kind = "ordinary" /\ pending'[i] \notin begun'
    <3>1. PICK j \in 1..Len(pending) : pending'[i] = pending[j]
      BY <1>3
    <3>2. log[pending[j]].kind = "ordinary" /\ pending[j] \notin begun
      BY DEF OrdinaryOK
    <3>3. h < pending'[i] /\ h \in Nat /\ pending[j] \in Nat
      BY <1>1, <1>2, <1>3
    <3>4. pending'[i] # h
      BY <3>1, <3>3
    <3> QED BY <1>0, <3>1, <3>2, <3>4
  <2>2. ASSUME NEW o \in OpIds, log[o].kind = "ordinary"
        PROVE  \/ Queued(pending', o)
               \/ o \in begun' /\ (o \in done' \/ o = running'[Owner])
    <3>1. \/ Queued(pending, o)
          \/ o \in begun /\ (o \in done \/ o = running[Owner])
      BY <2>2 DEF OrdinaryOK
    <3>2. o # 0
      BY <1>2
    <3> QED BY <1>0, <1>3, <1>5, <1>6, <3>1, <3>2
  <2> QED BY <1>0, <1>3, <1>6, <2>1, <2>2 DEF OrdinaryOK
<1>10. PriorityOK'
  <2>1. \A i \in 1..Len(prio) : prio[i] # h
    BY <1>4 DEF PriorityOK
  <2> QED BY <1>0, <2>1 DEF PriorityOK
<1>11. PlaceOK'
  <2>1. h # 0
    BY <1>2, <1>3
  <2> QED BY <1>0, <1>6, <1>p, <2>1 DEF PlaceOK
<1>12. PhaseOK'
  <2>1. ASSUME NEW i \in 1..Len(pending'), \A j \in 1..Len(pending) : log[pending[j]].tick <= need
        PROVE  log[pending'[i]].tick <= need
    BY <1>3, <2>1
  <2> QED BY <1>0, <1>p, <2>1 DEF PhaseOK, Stopped
<1>13. RunsAfterItsWork'
  <2>1. log[h].tick <= gpu
    BY <1>0, <1>2, <1>3 DEF ClockOK
  <2>2. ASSUME NEW o \in OpIds, o < h, log[o].kind = "ordinary" PROVE o \in done
    <3>1. \/ Queued(pending, o)
          \/ o \in begun /\ (o \in done \/ o = running[Owner])
      BY <2>2 DEF OrdinaryOK
    <3>2. Sorted(pending)
      BY DEF OrdinaryOK
    <3>3. ~Queued(pending, o)
      <4>1. Queued(pending, o) => h <= o
        BY <1>1, <1>2, <3>2, HeadLeast DEF h
      <4> QED BY <1>2, <1>3, <2>2, <4>1
    <3>4. o # 0
      BY <1>2
    <3> QED BY <1>5, <3>1, <3>3, <3>4
  <2>3. \A o \in begun' : log[o].kind # "direct" => log[o].tick <= gpu
    BY <1>0, <2>1 DEF RunsAfterItsWork
  <2>4. ASSUME NEW o \in OpIds, NEW p \in OpIds, o < p, log[o].kind = log[p].kind,
               log[o].kind # "direct", p \in begun'
        PROVE  o \in done
    <3>1. CASE p = h
      BY <1>4, <2>2, <2>4, <3>1
    <3>2. CASE p # h
      <4>1. p \in begun
        BY <1>0, <2>4, <3>2
      <4> QED BY <2>4, <4>1 DEF RunsAfterItsWork
    <3> QED BY <3>1, <3>2
  <2> QED BY <1>0, <2>3, <2>4 DEF RunsAfterItsWork
<1> QED BY <1>7, <1>8, <1>9, <1>10, <1>11, <1>12, <1>13

\* A callback returns.
LEMMA ReturnStep ==
  ASSUME IInv, NEW t \in {Owner, Runner}, CallbackReturns(t)
  PROVE  IInv'
<1> USE DEF IInv
<1> DEFINE w == IF t = Owner THEN "pop" ELSE "clear"
<1>0. /\ pc[t] = "callback" /\ done' = done \union {running[t]}
      /\ running' = [running EXCEPT ![t] = 0] /\ pc' = [pc EXCEPT ![t] = w]
      /\ log' = log /\ begun' = begun /\ pending' = pending /\ prio' = prio
      /\ active' = active /\ tick' = tick /\ gpu' = gpu /\ known' = known
      /\ opState' = opState /\ stop' = stop /\ sleepers' = sleepers
      /\ cur' = cur /\ execTick' = execTick /\ need' = need /\ goal' = goal
      /\ waitTick' = waitTick /\ OpIds' = OpIds
  BY DEF CallbackReturns, Go, clock, timeline, record, OpIds
<1>1. /\ begun \subseteq OpIds /\ done \subseteq begun
      /\ running \in [{Owner, Runner} -> OpIds \union {0}]
      /\ \A o \in OpIds : o # 0
  BY OldOps, OpFacts
<1>2. running[t] \in begun
  BY <1>0 DEF PlaceOK, OrdinaryOK
<1>3. /\ running' \in [{Owner, Runner} -> OpIds \union {0}]
      /\ running'[t] = 0
      /\ \A u \in {Owner, Runner} : u # t => running'[u] = running[u]
  BY <1>0, <1>1
<1>4. /\ pc' \in [Threads -> OwnerPcs \union RunnerPcs \union OtherPcs]
      /\ pc'[t] = w /\ \A u \in Threads : u # t => pc'[u] = pc[u]
  <2>1. w \in OwnerPcs \union RunnerPcs \union OtherPcs
    BY DEF OwnerPcs, RunnerPcs
  <2> HIDE DEF w
  <2> QED BY <1>0, <2>1, ThreadFacts DEF TypesOK
<1>5. TypesOK'
  <2>1. pc'[Owner] \in OwnerPcs /\ pc'[Runner] \in RunnerPcs
    BY <1>4, ThreadFacts DEF OwnerPcs, RunnerPcs, TypesOK, TypeOK
  <2>2. \A v \in Others : pc'[v] \in OtherPcs
    BY <1>4, ThreadFacts DEF TypesOK, TypeOK
  <2>3. done' \subseteq begun' /\ begun' \subseteq OpIds
    BY <1>0, <1>1, <1>2
  <2>4. running'[Owner] \in OpIds \union {0} /\ running'[Runner] \in OpIds \union {0}
    BY <1>3
  <2> QED BY <1>0, <1>3, <1>4, <2>1, <2>2, <2>3, <2>4 DEF TypesOK, TypeOK, TimelineType
<1>6. ClockOK'
  BY <1>0 DEF ClockOK
<1>7. RunsAfterItsWork'
  BY <1>0 DEF RunsAfterItsWork
<1>8. OrdinaryOK'
  <2>1. ASSUME NEW o \in OpIds, log[o].kind = "ordinary"
        PROVE  \/ Queued(pending, o)
               \/ o \in begun /\ (o \in done' \/ o = running'[Owner])
    <3>1. \/ Queued(pending, o)
          \/ o \in begun /\ (o \in done \/ o = running[Owner])
      BY <2>1 DEF OrdinaryOK
    <3> QED BY <1>0, <1>3, <3>1
  <2>2. running'[Owner] # 0 => running'[Owner] \in begun
    BY <1>3 DEF OrdinaryOK
  <2> QED BY <1>0, <2>1, <2>2 DEF OrdinaryOK
<1>9. PriorityOK'
  BY <1>0 DEF PriorityOK
<1>10. PlaceOK'
  <2>1. CASE t = Owner
    <3>1. pc'[Owner] = "pop" /\ pc'[Runner] = pc[Runner]
          /\ running'[Owner] = 0 /\ running'[Runner] = running[Runner]
      BY <1>3, <1>4, <2>1, ThreadFacts
    <3> QED BY <1>0, <3>1 DEF PlaceOK
  <2>2. CASE t = Runner
    <3>1. pc'[Runner] = "clear" /\ pc'[Owner] = pc[Owner]
          /\ running'[Owner] = running[Owner]
      BY <1>3, <1>4, <2>2, ThreadFacts
    <3>2. active \in done'
      BY <1>0, <2>2 DEF PlaceOK
    <3> QED BY <1>0, <2>2, <3>1, <3>2 DEF PlaceOK
  <2> QED BY <2>1, <2>2
<1>11. PhaseOK'
  <2>1. CASE t = Owner
    <3>1. pc'[Owner] = "pop" /\ pc[Owner] = "callback"
      BY <1>0, <1>4, <2>1
    <3> QED BY <1>0, <3>1 DEF PhaseOK, Stopped
  <2>2. CASE t = Runner
    <3>1. pc'[Owner] = pc[Owner]
      BY <1>4, <2>2, ThreadFacts
    <3> QED BY <1>0, <3>1 DEF PhaseOK
  <2> QED BY <2>1, <2>2
<1> QED BY <1>5, <1>6, <1>7, <1>8, <1>9, <1>10, <1>11

\* The runner at its predicate: it takes the oldest operation, or nothing.
LEMMA RunnerLooksStep ==
  ASSUME IInv, RunnerLooks
  PROVE  IInv'
<1> USE DEF IInv
<1>0. /\ pc[Runner] = "look" /\ log' = log /\ begun' = begun /\ done' = done
      /\ pending' = pending /\ running' = running
      /\ tick' = tick /\ gpu' = gpu /\ known' = known
      /\ opState' = opState /\ stop' = stop /\ sleepers' = sleepers
      /\ cur' = cur /\ execTick' = execTick /\ need' = need /\ goal' = goal
      /\ waitTick' = waitTick /\ OpIds' = OpIds
  BY DEF RunnerLooks, clock, timeline, record, OpIds
<1>1. CASE \E w \in {"exit", "block"} : Go(Runner, w) /\ UNCHANGED <<prio, active>>
  <2>1. PICK w \in {"exit", "block"} : Go(Runner, w) /\ UNCHANGED <<prio, active>>
    BY <1>1
  <2>2. UNCHANGED <<clock, ops, opState, stop, record>>
    BY <1>0, <2>1 DEF clock, timeline, ops, record
  <2>3. sleepers' \subseteq Threads
    BY <1>0 DEF TypesOK, TypeOK
  <2> QED BY <1>0, <2>1, <2>2, <2>3, RunnerControl
<1>2. CASE /\ ~stop /\ prio # <<>> /\ active' = Head(prio) /\ prio' = Tail(prio)
           /\ Go(Runner, "gpu")
  <2> DEFINE h == Head(prio)
  <2>1. /\ prio \in Seq(OpIds) /\ active = 0 /\ active' = h
        /\ \A i \in 1..Len(prio) : prio[i] \in OpIds
    BY <1>0, <1>2, OldOps DEF PlaceOK
  <2>2. Len(log) \in Nat /\ OpIds = 1..Len(log) /\ \A o \in OpIds : o \in Nat /\ o # 0
    BY OpFacts
  <2>3. /\ prio' \in Seq(OpIds) /\ Sorted(prio') /\ h \in OpIds
        /\ \A o : Queued(prio, o) => o = h \/ Queued(prio', o)
        /\ \A i \in 1..Len(prio') : /\ h < prio'[i]
                                    /\ \E j \in 1..Len(prio) : prio'[i] = prio[j]
    <3>1. Sorted(prio)
      BY DEF PriorityOK
    <3> QED BY <1>2, <2>1, <2>2, <3>1, TailSorted
  <2>4. log[h].kind = "priority"
    <3>1. 1 \in 1..Len(prio) /\ h = prio[1]
      BY <1>2, <2>1
    <3> QED BY <3>1 DEF PriorityOK
  <2> HIDE DEF h
  <2>p. /\ pc' \in [Threads -> OwnerPcs \union RunnerPcs \union OtherPcs]
        /\ pc'[Runner] = "gpu" /\ pc'[Owner] = pc[Owner]
        /\ \A v \in Others : pc'[v] = pc[v]
    BY <1>2, ThreadFacts DEF Go, TypesOK, RunnerPcs
  <2>5. TypesOK'
    <3>1. pc'[Runner] \in RunnerPcs
      BY <2>p DEF RunnerPcs
    <3> QED BY <1>0, <2>1, <2>3, <2>p, <3>1 DEF TypesOK, TypeOK, TimelineType
  <2>6. ClockOK' /\ OrdinaryOK' /\ RunsAfterItsWork'
    BY <1>0 DEF ClockOK, OrdinaryOK, RunsAfterItsWork
  <2>7. PriorityOK'
    <3>1. ASSUME NEW i \in 1..Len(prio')
          PROVE  /\ log[prio'[i]].kind = "priority" /\ prio'[i] \notin begun
                 /\ active' < prio'[i]
      <4>1. PICK j \in 1..Len(prio) : prio'[i] = prio[j]
        BY <2>3
      <4>2. log[prio[j]].kind = "priority" /\ prio[j] \notin begun
        BY DEF PriorityOK
      <4> QED BY <2>1, <2>3, <4>1, <4>2
    <3>2. ASSUME NEW o \in OpIds, log[o].kind = "priority"
          PROVE  o \in done \/ o = active' \/ Queued(prio', o)
      BY <2>1, <2>2, <2>3, <3>2 DEF PriorityOK
    <3> QED BY <1>0, <2>1, <2>3, <2>4, <3>1, <3>2 DEF PriorityOK
  <2>8. PlaceOK'
    BY <1>0, <2>1, <2>2, <2>3, <2>p DEF PlaceOK
  <2>9. PhaseOK'
    BY <1>0, <1>2, <2>p DEF PhaseOK
  <2> QED BY <2>5, <2>6, <2>7, <2>8, <2>9
<1> QED BY <1>1, <1>2 DEF RunnerLooks

\* The GPU has reached the operation the runner holds.  The runner is never
\* told to stop while it holds one, so it starts the callback.
LEMMA RunnerStartsStep ==
  ASSUME IInv, RunnerStarts
  PROVE  IInv'
<1> USE DEF IInv
<1>t. /\ tick \in Nat /\ gpu \in Nat /\ known \in Nat /\ known <= gpu /\ gpu < tick
      /\ \A o \in OpIds : o \in Nat /\ o # 0 /\ log[o].tick \in Nat
      /\ begun \subseteq OpIds /\ done \subseteq begun
      /\ running \in [{Owner, Runner} -> OpIds \union {0}]
  BY OpFacts, OldOps DEF ClockOK
<1>1. /\ active # 0 /\ active \in OpIds /\ log[active].kind = "priority"
      /\ \A i \in 1..Len(prio) : active < prio[i]
  BY OldOps DEF RunnerStarts, PlaceOK, PriorityOK
<1>2. ~stop
  BY <1>1 DEF PhaseOK, Stopped
<1>0. /\ begun' = begun \union {active} /\ running' = [running EXCEPT ![Runner] = active]
      /\ Go(Runner, "callback") /\ gpu >= log[active].tick
      /\ log' = log /\ done' = done /\ pending' = pending /\ prio' = prio
      /\ active' = active /\ tick' = tick /\ gpu' = gpu
      /\ opState' = opState /\ stop' = stop /\ sleepers' = sleepers
      /\ cur' = cur /\ execTick' = execTick /\ need' = need /\ goal' = goal
      /\ waitTick' = waitTick /\ OpIds' = OpIds
  BY <1>2 DEF RunnerStarts, WaitReturns, record, OpIds
<1>k. known' \in Nat /\ known' <= gpu /\ known' >= known
  BY <1>t DEF RunnerStarts, WaitReturns, Refresh
<1>3. /\ running' \in [{Owner, Runner} -> OpIds \union {0}]
      /\ running'[Runner] = active /\ running'[Owner] = running[Owner]
  BY <1>0, <1>1, <1>t, ThreadFacts
<1>p. /\ pc' \in [Threads -> OwnerPcs \union RunnerPcs \union OtherPcs]
      /\ pc'[Runner] = "callback" /\ pc'[Owner] = pc[Owner]
      /\ \A v \in Others : pc'[v] = pc[v]
  BY <1>0, ThreadFacts DEF Go, TypesOK, RunnerPcs
<1>4. TypesOK'
  <2>1. pc'[Runner] \in RunnerPcs
    BY <1>p DEF RunnerPcs
  <2>2. begun' \subseteq OpIds /\ done' \subseteq begun'
    BY <1>0, <1>1, <1>t
  <2> QED BY <1>0, <1>1, <1>3, <1>k, <1>p, <2>1, <2>2 DEF TypesOK, TypeOK, TimelineType
<1>5. ClockOK'
  BY <1>0, <1>k DEF ClockOK
<1>6. OrdinaryOK'
  <2>1. \A i \in 1..Len(pending) : pending[i] # active
    BY <1>1 DEF OrdinaryOK
  <2> QED BY <1>0, <1>3, <2>1 DEF OrdinaryOK
<1>7. PriorityOK'
  <2>1. \A i \in 1..Len(prio) : prio[i] # active
    BY <1>1, <1>t
  <2> QED BY <1>0, <2>1 DEF PriorityOK
<1>8. PlaceOK'
  BY <1>0, <1>1, <1>3, <1>p DEF PlaceOK
<1>9. PhaseOK'
  <2>1. need \in Nat
    BY OpFacts
  <2> QED BY <1>0, <1>k, <1>p, <1>t, <2>1 DEF PhaseOK
<1>10. RunsAfterItsWork'
  <2>1. ASSUME NEW o \in OpIds, o < active, log[o].kind = "priority" PROVE o \in done
    <3>1. o \in done \/ o = active \/ Queued(prio, o)
      BY <2>1 DEF PriorityOK
    <3>2. ~Queued(prio, o)
      BY <1>1, <1>t, <2>1 DEF Queued
    <3> QED BY <1>1, <1>t, <2>1, <3>1, <3>2
  <2>2. \A o \in begun' : log[o].kind # "direct" => log[o].tick <= gpu
    <3>1. log[active].tick <= gpu
      BY <1>0, <1>1, <1>t
    <3> QED BY <1>0, <3>1 DEF RunsAfterItsWork
  <2>3. ASSUME NEW o \in OpIds, NEW p \in OpIds, o < p, log[o].kind = log[p].kind,
               log[o].kind # "direct", p \in begun'
        PROVE  o \in done
    <3>1. CASE p = active
      BY <1>1, <2>1, <2>3, <3>1
    <3>2. CASE p # active
      <4>1. p \in begun
        BY <1>0, <2>3, <3>2
      <4> QED BY <2>3, <4>1 DEF RunsAfterItsWork
    <3> QED BY <3>1, <3>2
  <2> QED BY <1>0, <2>2, <2>3 DEF RunsAfterItsWork
<1> QED BY <1>4, <1>5, <1>6, <1>7, <1>8, <1>9, <1>10

\* m_priority_active is cleared when the callback has returned.
LEMMA RunnerClearsStep ==
  ASSUME IInv, RunnerClears
  PROVE  IInv'
<1> USE DEF IInv
<1>0. /\ pc[Runner] = "clear" /\ active' = 0 /\ Go(Runner, "tell")
      /\ log' = log /\ begun' = begun /\ done' = done /\ pending' = pending
      /\ prio' = prio /\ running' = running
      /\ tick' = tick /\ gpu' = gpu /\ known' = known
      /\ opState' = opState /\ stop' = stop /\ sleepers' = sleepers
      /\ cur' = cur /\ execTick' = execTick /\ need' = need /\ goal' = goal
      /\ waitTick' = waitTick /\ OpIds' = OpIds
  BY DEF RunnerClears, clock, timeline, record, OpIds
<1>1. active \in done /\ \A i \in 1..Len(prio) : prio[i] \in Nat /\ prio[i] # 0
  BY <1>0, OpFacts DEF PlaceOK
<1>p. /\ pc' \in [Threads -> OwnerPcs \union RunnerPcs \union OtherPcs]
      /\ pc'[Runner] = "tell" /\ pc'[Owner] = pc[Owner]
      /\ \A v \in Others : pc'[v] = pc[v]
  BY <1>0, ThreadFacts DEF Go, TypesOK, RunnerPcs
<1>2. TypesOK'
  <2>1. pc'[Runner] \in RunnerPcs
    BY <1>p DEF RunnerPcs
  <2> QED BY <1>0, <1>p, <2>1 DEF TypesOK, TypeOK, TimelineType
<1>3. ClockOK' /\ OrdinaryOK' /\ RunsAfterItsWork'
  BY <1>0 DEF ClockOK, OrdinaryOK, RunsAfterItsWork
<1>4. PriorityOK'
  <2>1. \A i \in 1..Len(prio) : 0 < prio[i]
    BY <1>1
  <2> QED BY <1>0, <1>1, <2>1 DEF PriorityOK
<1>5. PlaceOK' /\ PhaseOK'
  BY <1>0, <1>p DEF PlaceOK, PhaseOK
<1> QED BY <1>2, <1>3, <1>4, <1>5

-----------------------------------------------------------------------------
(* The calls of the owner                                                  *)

\* The types of the record, from the invariant.
LEMMA RecordFacts ==
  ASSUME IInv
  PROVE  /\ RecordType /\ sleepers \subseteq Threads /\ stop \in BOOLEAN
         /\ opState \in {"Open", "Draining", "Closed"}
         /\ tick \in Nat /\ gpu \in Nat /\ known \in Nat /\ gpu < tick /\ known <= gpu
         /\ pc[Owner] \in OwnerPcs
BY DEF IInv, TypesOK, TypeOK, TimelineType, ClockOK, RecordType

\* A submission, and the wait that follows it.
LEMMA SubmitStep ==
  ASSUME IInv, pc[Owner] # "callback", NEW b \in 0..(BufferCount - 1), NEW n \in Nat,
         NEW g \in Goals, NEW x \in Nat, Submit(b, n, g, x),
         \/ opState = "Open" /\ g # "shutdown"
         \/ opState # "Open" /\ g = "shutdown" /\ n = tick /\ pc[Owner] = "final"
  PROVE  IInv'
<1>0. /\ tick' = tick + 1 /\ gpu' = gpu /\ known' = known /\ UNCHANGED ops
      /\ execTick' = [execTick EXCEPT ![cur] = tick] /\ cur' = b
      /\ need' = n /\ goal' = g /\ waitTick' = x /\ Go(Owner, "gpu")
      /\ opState' = opState /\ stop' = stop /\ sleepers' = sleepers
  BY DEF Submit, NextTick
<1>1. /\ RecordType /\ sleepers \subseteq Threads /\ stop \in BOOLEAN
      /\ opState \in {"Open", "Draining", "Closed"}
      /\ tick \in Nat /\ gpu \in Nat /\ known \in Nat /\ gpu < tick /\ known <= gpu
  BY RecordFacts
<1>2. RecordType'
  BY <1>0, <1>1 DEF RecordType
<1>3. pc'[Owner] = "gpu"
  BY <1>0, ThreadFacts DEF Go, IInv, TypesOK
<1>4. /\ pending' = pending /\ log' = log
      /\ \A i \in 1..Len(pending) : log[pending[i]].tick <= tick
  BY <1>0, OpFacts DEF ops, IInv, ClockOK
<1>5. ~stop
  <2>1. opState = "Open" \/ pc[Owner] = "final"
    OBVIOUS
  <2> QED BY <2>1 DEF IInv, PhaseOK, Stopped
<1>6. PhaseOK'
  BY <1>0, <1>3, <1>4, <1>5 DEF PhaseOK, Stopped
<1>7. "gpu" \in OwnerPcs \ {"callback"}
  BY DEF OwnerPcs
<1>8. tick' \in Nat /\ gpu' < tick' /\ tick' >= tick /\ gpu' >= gpu /\ gpu' \in Nat
      /\ known' \in Nat /\ known' <= gpu'
  BY <1>0, <1>1
<1> QED BY <1>0, <1>1, <1>2, <1>6, <1>7, <1>8, OwnerControl

\* A step of the owner that moves it and wakes or enrols sleepers.
LEMMA OwnerMoves ==
  ASSUME IInv, UNCHANGED <<clock, ops, record>>, pc[Owner] # "callback",
         NEW w \in OwnerPcs \ {"callback"}, Go(Owner, w),
         opState' \in {"Open", "Draining", "Closed"}, stop' \in BOOLEAN,
         sleepers' \subseteq Threads, pc'[Owner] = w => PhaseOK'
  PROVE  IInv'
<1>1. /\ tick' = tick /\ gpu' = gpu /\ known' = known
      /\ cur' = cur /\ execTick' = execTick /\ need' = need /\ goal' = goal
      /\ waitTick' = waitTick
  BY DEF clock, timeline, record
<1>2. /\ RecordType /\ tick \in Nat /\ gpu \in Nat /\ known \in Nat
      /\ gpu < tick /\ known <= gpu
  BY RecordFacts
<1>3. RecordType' /\ gpu' >= gpu /\ tick' >= tick
  BY <1>1, <1>2 DEF RecordType
<1>4. pc'[Owner] = w
  BY ThreadFacts DEF Go, IInv, TypesOK
<1> QED BY <1>1, <1>2, <1>3, <1>4, OwnerControl

\* The calls by which the owner submits or waits.
LEMMA CallSteps ==
  ASSUME IInv,
         \/ Flush \/ Shutdown
         \/ \E g \in {"return", "drain", "await"} : Finish(g)
         \/ \E t \in 1..TickMax, g \in {"return", "await"} : Wait(t, g)
  PROVE  IInv'
<1>r. /\ RecordType /\ sleepers \subseteq Threads /\ stop \in BOOLEAN
      /\ opState \in {"Open", "Draining", "Closed"}
      /\ tick \in Nat /\ gpu \in Nat /\ known \in Nat /\ gpu < tick /\ known <= gpu
  BY RecordFacts
<1>b. BufferCount \in Nat \ {0} /\ TickMax \in Nat
  BY SchedulerAssumption
<1>1. CASE Flush
  <2> DEFINE b == (cur + 1) % BufferCount
             n == IF b = cur THEN tick ELSE execTick[b]
  <2>1. cur + 1 \in Nat
    BY <1>b, <1>r DEF RecordType
  <2>2. b \in 0..(BufferCount - 1)
    BY <1>b, <2>1
  <2>3. n \in Nat
    BY <1>r, <2>2 DEF RecordType
  <2>4. pc[Owner] = "idle" /\ opState = "Open" /\ Submit(b, n, "return", 0)
    BY <1>1 DEF Flush
  <2> HIDE DEF b, n
  <2> QED BY <2>2, <2>3, <2>4, SubmitStep DEF Goals
<1>2. CASE Shutdown
  <2>1. /\ pc[Owner] = "idle" /\ opState = "Open" /\ opState' = "Draining"
        /\ Go(Owner, "final") /\ UNCHANGED <<clock, ops, record>>
        /\ stop' = stop /\ sleepers' = sleepers
    BY <1>2 DEF Shutdown
  <2>2. ~stop
    BY <2>1 DEF IInv, PhaseOK, Stopped
  <2>3. pc'[Owner] = "final" => PhaseOK'
    BY <2>1, <2>2 DEF PhaseOK
  <2> QED BY <1>r, <2>1, <2>3, OwnerMoves DEF OwnerPcs
<1>3. ASSUME NEW g \in {"return", "drain", "await"}, Finish(g) PROVE IInv'
  <2>1. pc[Owner] = "idle" /\ opState = "Open" /\ Submit(cur, tick, g, tick)
    BY <1>3 DEF Finish
  <2>2. cur \in 0..(BufferCount - 1) /\ g \in Goals /\ g # "shutdown"
    BY <1>r DEF RecordType, Goals
  <2> QED BY <1>r, <2>1, <2>2, SubmitStep
<1>4. ASSUME NEW t \in 1..TickMax, NEW g \in {"return", "await"}, Wait(t, g) PROVE IInv'
  <2>1. /\ pc[Owner] = "idle" /\ opState = "Open" /\ t \in Nat
        /\ need' = t /\ goal' = g /\ waitTick' = t /\ Go(Owner, "gpu")
        /\ tick' = tick /\ gpu' = gpu /\ known' = known /\ UNCHANGED ops
        /\ opState' = opState /\ stop' = stop /\ sleepers' = sleepers
        /\ cur' = cur /\ execTick' = execTick
    BY <1>4, <1>b DEF Wait, clock, timeline
  <2>2. RecordType'
    BY <1>r, <2>1 DEF RecordType, Goals
  <2>3. pc'[Owner] = "gpu" /\ ~stop
    BY <2>1, ThreadFacts DEF Go, IInv, TypesOK, PhaseOK, Stopped
  <2>4. PhaseOK'
    BY <2>1, <2>3 DEF PhaseOK
  <2>5. gpu' >= gpu /\ tick' >= tick /\ "gpu" \in OwnerPcs \ {"callback"}
    BY <1>r, <2>1 DEF OwnerPcs
  <2> QED BY <1>r, <2>1, <2>2, <2>4, <2>5, OwnerControl
<1> QED BY <1>1, <1>2, <1>3, <1>4

\* The steps by which a call of the owner goes on, callbacks aside.
LEMMA OwnerSteps ==
  ASSUME IInv,
         \/ NotifyPriority \/ GpuReached \/ PopEnds
         \/ WaitPriorityOperations \/ DrainPriorityOperations \/ ShutdownFinish
         \/ RequestStop \/ WakeRunner \/ Join \/ CloseState \/ Announce
  PROVE  IInv'
<1>r. /\ RecordType /\ sleepers \subseteq Threads /\ stop \in BOOLEAN
      /\ opState \in {"Open", "Draining", "Closed"}
      /\ tick \in Nat /\ gpu \in Nat /\ known \in Nat /\ gpu < tick /\ known <= gpu
      /\ pc[Owner] \in OwnerPcs
  BY RecordFacts
<1>w. OwnerPcs \ {"callback"} =
        {"idle", "notify", "gpu", "pop", "drain", "await", "final", "stop", "wake",
         "join", "close", "announce", "closed"}
  BY DEF OwnerPcs
<1>p. PhaseOK /\ pc \in [Threads -> OwnerPcs \union RunnerPcs \union OtherPcs]
      /\ Owner \in Threads
  BY ThreadFacts DEF IInv, TypesOK
<1>o. UNCHANGED ops => log' = log /\ pending' = pending /\ prio' = prio /\ active' = active
  BY DEF ops
<1>c. UNCHANGED <<clock, record>> => known' = known /\ goal' = goal /\ need' = need
  BY DEF clock, record
<1>1. CASE NotifyPriority
  <2>1. /\ pc[Owner] = "notify" /\ Go(Owner, "idle") /\ UNCHANGED <<clock, ops, record>>
        /\ opState' = opState /\ stop' = stop
    BY <1>1 DEF NotifyPriority
  <2>2. sleepers' \subseteq Threads
    BY <1>1, <1>r DEF NotifyPriority, NotifyOne
  <2>3. pc'[Owner] = "idle" => PhaseOK'
    BY <1>c, <1>o, <1>p, <2>1 DEF PhaseOK, Stopped
  <2> QED BY <1>r, <1>w, <2>1, <2>2, <2>3, OwnerMoves
<1>2. CASE GpuReached
  <2>1. /\ pc[Owner] = "gpu" /\ Go(Owner, "pop") /\ UNCHANGED ops /\ gpu >= need
        /\ tick' = tick /\ gpu' = gpu /\ known' = (IF known < gpu THEN gpu ELSE known)
        /\ opState' = opState /\ stop' = stop /\ sleepers' = sleepers
        /\ cur' = cur /\ execTick' = execTick /\ need' = need /\ goal' = goal
        /\ waitTick' = waitTick
    BY <1>2 DEF GpuReached, Refresh, record
  <2>2. known' = gpu
    BY <1>r, <2>1
  <2>3. pc'[Owner] = "pop"
    BY <1>p, <2>1 DEF Go
  <2>4. PhaseOK'
    BY <1>o, <1>p, <2>1, <2>2, <2>3 DEF PhaseOK, Stopped
  <2>5. RecordType' /\ gpu' >= gpu /\ tick' >= tick /\ known' <= gpu'
    BY <1>r, <2>1, <2>2 DEF RecordType
  <2> QED BY <1>r, <1>w, <2>1, <2>2, <2>4, <2>5, OwnerControl
<1>3. CASE PopEnds
  <2>1. /\ pc[Owner] = "pop" /\ Go(Owner, AfterPop) /\ UNCHANGED <<clock, ops, record>>
        /\ ~(pending # <<>> /\ known >= log[Head(pending)].tick)
        /\ opState' = opState /\ stop' = stop /\ sleepers' = sleepers
    BY <1>3 DEF PopEnds, Due, IsFree
  <2>2. /\ AfterPop \in {"idle", "await", "drain"}
        /\ goal = "shutdown" => AfterPop = "drain"
    BY <1>r DEF AfterPop, RecordType, Goals
  <2>3. opState # "Open" => pending = <<>>
    <3>1. SUFFICES ASSUME opState # "Open", pending # <<>> PROVE FALSE
      OBVIOUS
    <3>2. known >= need /\ \A i \in 1..Len(pending) : log[pending[i]].tick <= need
      BY <1>p, <2>1, <3>1 DEF PhaseOK
    <3>3. pending \in Seq(OpIds) /\ need \in Nat
      BY OldOps, <1>r DEF RecordType
    <3>4. 1 \in 1..Len(pending) /\ Head(pending) = pending[1]
      BY <3>1, <3>3
    <3>5. log[pending[1]].tick <= need /\ log[pending[1]].tick \in Nat
      BY <3>2, <3>4, OpFacts DEF IInv
    <3> QED BY <1>r, <2>1, <3>1, <3>2, <3>3, <3>4, <3>5
  <2>4. ~stop
    BY <1>p, <2>1 DEF PhaseOK, Stopped
  <2> HIDE DEF AfterPop
  <2>5. pc'[Owner] = AfterPop => PhaseOK'
    BY <1>c, <1>o, <1>p, <2>1, <2>2, <2>3, <2>4 DEF PhaseOK, Stopped
  <2> QED BY <1>r, <1>w, <2>1, <2>2, <2>5, OwnerMoves
<1>4. CASE WaitPriorityOperations
  <2>1. /\ pc[Owner] = "await" /\ UNCHANGED <<clock, ops, record>>
        /\ opState' = opState /\ stop' = stop
    BY <1>4 DEF WaitPriorityOperations
  <2>2. CASE Go(Owner, "idle") /\ UNCHANGED sleepers
    <3>1. pc'[Owner] = "idle" => PhaseOK'
      BY <1>c, <1>o, <1>p, <2>1 DEF PhaseOK, Stopped
    <3> QED BY <1>r, <1>w, <2>1, <2>2, <3>1, OwnerMoves
  <2>3. CASE sleepers' = sleepers \union {Owner} /\ UNCHANGED pc
    <3>1. Go(Owner, "await") /\ sleepers' \subseteq Threads
      BY <1>p, <1>r, <2>1, <2>3 DEF Go
    <3>2. pc'[Owner] = "await" => PhaseOK'
      BY <1>c, <1>o, <1>p, <2>1, <2>3 DEF PhaseOK
    <3> QED BY <1>r, <1>w, <2>1, <3>1, <3>2, OwnerMoves
  <2> QED BY <1>4, <2>2, <2>3 DEF WaitPriorityOperations
<1>5. CASE DrainPriorityOperations
  <2>1. /\ pc[Owner] = "drain" /\ UNCHANGED <<clock, ops, record>>
        /\ opState' = opState /\ stop' = stop
    BY <1>5 DEF DrainPriorityOperations
  <2>2. CASE prio = <<>> /\ active = 0
    <3> DEFINE w == IF goal = "shutdown" THEN "stop" ELSE "idle"
    <3>1. Go(Owner, w) /\ sleepers' = sleepers
      BY <1>5, <2>2 DEF DrainPriorityOperations
    <3>2. w \in {"stop", "idle"} /\ (w = "stop" <=> goal = "shutdown")
      OBVIOUS
    <3> HIDE DEF w
    <3>3. pc'[Owner] = w => PhaseOK'
      BY <1>c, <1>o, <1>p, <2>1, <2>2, <3>2 DEF PhaseOK, Stopped
    <3> QED BY <1>r, <1>w, <2>1, <3>1, <3>2, <3>3, OwnerMoves
  <2>3. CASE ~(prio = <<>> /\ active = 0)
    <3>0. sleepers' = sleepers \union {Owner} /\ pc' = pc
      BY <1>5, <2>3 DEF DrainPriorityOperations
    <3>1. Go(Owner, "drain") /\ sleepers' \subseteq Threads
      BY <1>p, <1>r, <2>1, <3>0 DEF Go
    <3>2. pc'[Owner] = "drain" => PhaseOK'
      BY <1>c, <1>o, <1>p, <2>1, <3>0 DEF PhaseOK
    <3> QED BY <1>r, <1>w, <2>1, <3>1, <3>2, OwnerMoves
  <2> QED BY <2>2, <2>3
<1>6. CASE ShutdownFinish
  <2>1. pc[Owner] = "final" /\ Submit(cur, tick, "shutdown", 0)
    BY <1>6 DEF ShutdownFinish
  <2>2. opState # "Open" /\ cur \in 0..(BufferCount - 1) /\ "shutdown" \in Goals
    BY <1>p, <1>r, <2>1 DEF PhaseOK, RecordType, Goals
  <2> QED BY <1>r, <2>1, <2>2, SubmitStep
<1>7. CASE RequestStop
  <2>1. /\ pc[Owner] = "stop" /\ Go(Owner, "wake") /\ UNCHANGED <<clock, ops, record>>
        /\ opState' = opState /\ stop' = TRUE /\ sleepers' = sleepers
    BY <1>7 DEF RequestStop
  <2>2. pc'[Owner] = "wake" => PhaseOK'
    BY <1>c, <1>o, <1>p, <2>1 DEF PhaseOK, Stopped
  <2> QED BY <1>r, <1>w, <2>1, <2>2, OwnerMoves
<1>8. CASE WakeRunner
  <2>1. /\ pc[Owner] = "wake" /\ Go(Owner, "join") /\ UNCHANGED <<clock, ops, record>>
        /\ opState' = opState /\ stop' = stop /\ sleepers' \subseteq Threads
    BY <1>8 DEF WakeRunner, NotifyAll
  <2>2. pc'[Owner] = "join" => PhaseOK'
    BY <1>c, <1>o, <1>p, <2>1 DEF PhaseOK, Stopped
  <2> QED BY <1>r, <1>w, <2>1, <2>2, OwnerMoves
<1>9. CASE Join
  <2>1. /\ pc[Owner] = "join" /\ Go(Owner, "close") /\ UNCHANGED <<clock, ops, record>>
        /\ opState' = opState /\ stop' = stop /\ sleepers' = sleepers
    BY <1>9 DEF Join
  <2>2. pc'[Owner] = "close" => PhaseOK'
    BY <1>c, <1>o, <1>p, <2>1 DEF PhaseOK, Stopped
  <2> QED BY <1>r, <1>w, <2>1, <2>2, OwnerMoves
<1>10. CASE CloseState
  <2>1. /\ pc[Owner] = "close" /\ Go(Owner, "announce") /\ UNCHANGED <<clock, ops, record>>
        /\ opState' = "Closed" /\ stop' = stop /\ sleepers' = sleepers
    BY <1>10 DEF CloseState
  <2>2. opState # "Open"
    BY <1>p, <2>1 DEF PhaseOK
  <2>3. pc'[Owner] = "announce" => PhaseOK'
    BY <1>c, <1>o, <1>p, <2>1, <2>2 DEF PhaseOK, Stopped
  <2> QED BY <1>r, <1>w, <2>1, <2>3, OwnerMoves
<1>11. CASE Announce
  <2>1. /\ pc[Owner] = "announce" /\ Go(Owner, "closed") /\ UNCHANGED <<clock, ops, record>>
        /\ opState' = opState /\ stop' = stop /\ sleepers' \subseteq Threads
    BY <1>11 DEF Announce, NotifyAll
  <2>2. pc'[Owner] = "closed" => PhaseOK'
    BY <1>c, <1>o, <1>p, <2>1 DEF PhaseOK, Stopped
  <2> QED BY <1>r, <1>w, <2>1, <2>2, OwnerMoves
<1> QED
  BY <1>1, <1>2, <1>3, <1>4, <1>5, <1>6, <1>7, <1>8, <1>9, <1>10, <1>11

\* Every step preserves the inductive invariant.
LEMMA NextInv == IInv /\ [Next]_vars => IInv'
<1> SUFFICES ASSUME IInv, [Next]_vars PROVE IInv'
  OBVIOUS
<1>r. /\ sleepers \subseteq Threads /\ tick \in Nat /\ gpu \in Nat /\ gpu < tick
  BY RecordFacts
<1>1. CASE UNCHANGED vars
  <2>1. /\ UNCHANGED <<tick, known, ops, opState, stop, record>> /\ gpu' = gpu
        /\ pc' = pc /\ sleepers' = sleepers
    BY <1>1 DEF vars, clock, timeline
  <2> QED BY <1>r, <2>1, OtherControl
<1>2. CASE Device
  BY <1>2, <1>r, OtherControl DEF Device, GpuSignals
<1>3. ASSUME NEW t \in Threads, SpuriousWake(t) PROVE IInv'
  <2>1. /\ UNCHANGED <<tick, known, ops, opState, stop, record>> /\ gpu' = gpu
        /\ pc' = pc /\ sleepers' \subseteq Threads
    BY <1>3, <1>r DEF SpuriousWake, clock, timeline
  <2> QED BY <1>r, <2>1, OtherControl
<1>4. CASE OwnerDefers
  BY <1>4, PushStep DEF OwnerDefers
<1>5. ASSUME NEW t \in {Owner, Runner}, CallbackDefers(t) PROVE IInv'
  BY <1>5, PushStep, DirectStep DEF CallbackDefers
<1>6. ASSUME NEW u \in Others, OtherDefers(u) PROVE IInv'
  <2>1. CASE opState = "Open"
    BY <1>6, <2>1, PushStep DEF OtherDefers
  <2>2. CASE opState # "Open"
    <3>1. /\ UNCHANGED <<tick, known, ops, opState, stop, record>> /\ gpu' = gpu
          /\ Go(u, "deferring") /\ sleepers' \subseteq Threads
      BY <1>6, <1>r, <2>2 DEF OtherDefers, clock, timeline
    <3> QED BY <1>r, <3>1, OtherControl DEF OtherPcs
  <2> QED BY <2>1, <2>2
<1>7. ASSUME NEW u \in Others, OtherShutsDown(u) PROVE IInv'
  <2>1. /\ UNCHANGED <<tick, known, ops, opState, stop, record>> /\ gpu' = gpu
        /\ Go(u, "shutting") /\ sleepers' \subseteq Threads
    BY <1>7, <1>r DEF OtherShutsDown, clock, timeline
  <2> QED BY <1>r, <2>1, OtherControl DEF OtherPcs
<1>8. ASSUME NEW u \in Others, OtherLooks(u) PROVE IInv'
  <2>0. /\ UNCHANGED <<clock, opState, stop, record>>
        /\ UNCHANGED <<tick, known, opState, stop, record>> /\ gpu' = gpu
    BY <1>8 DEF OtherLooks, clock, timeline
  <2>1. CASE opState # "Closed"
    <3>1. UNCHANGED ops /\ pc' = pc /\ sleepers' \subseteq Threads
      BY <1>8, <1>r, <2>1, ThreadFacts DEF OtherLooks
    <3> QED BY <1>r, <2>0, <3>1, OtherControl
  <2>2. CASE opState = "Closed" /\ pc[u] = "deferring"
    <3>1. RunDirectly /\ Go(u, "free") /\ UNCHANGED sleepers
      BY <1>8, <2>2 DEF OtherLooks
    <3> QED BY <2>0, <3>1, DirectStep
  <2>3. CASE opState = "Closed" /\ pc[u] # "deferring"
    <3>1. UNCHANGED ops /\ Go(u, "free") /\ sleepers' \subseteq Threads
      BY <1>8, <1>r, <2>3 DEF OtherLooks
    <3> QED BY <1>r, <2>0, <3>1, OtherControl DEF OtherPcs
  <2> QED BY <2>1, <2>2, <2>3
<1>9. CASE RunnerLoop
  <2>1. /\ UNCHANGED <<clock, ops, opState, stop, record>> /\ sleepers' = sleepers
        /\ pc[Runner] = "loop"
        /\ \E w \in {"exit", "look"} : Go(Runner, w)
    BY <1>9 DEF RunnerLoop
  <2> QED BY <1>r, <2>1, RunnerControl
<1>10. CASE RunnerSleeps
  <2>1. /\ UNCHANGED <<clock, ops, opState, stop, record>> /\ sleepers' \subseteq Threads
        /\ pc[Runner] = "block" /\ Go(Runner, "look")
    BY <1>10, <1>r, ThreadFacts DEF RunnerSleeps
  <2> QED BY <2>1, RunnerControl
<1>11. CASE RunnerTells
  <2>1. /\ UNCHANGED <<clock, ops, opState, stop, record>> /\ sleepers' \subseteq Threads
        /\ pc[Runner] = "tell" /\ Go(Runner, "loop")
    BY <1>11 DEF RunnerTells, NotifyAll
  <2> QED BY <2>1, RunnerControl
<1>12. CASE OwnerCalls
  BY <1>4, <1>12, DeferPriorityStep, CallSteps DEF OwnerCalls
<1>13. CASE OwnerContinues
  BY <1>13, PopStep, ReturnStep, OwnerSteps DEF OwnerContinues
<1>14. CASE RunnerSteps
  BY <1>9, <1>10, <1>11, <1>14, RunnerLooksStep, RunnerStartsStep, ReturnStep,
     RunnerClearsStep
  DEF RunnerSteps
<1> QED
  BY <1>1, <1>2, <1>3, <1>5, <1>6, <1>7, <1>8, <1>12, <1>13, <1>14 DEF Next

-----------------------------------------------------------------------------
(* Results                                                                 *)

\* The inductive invariant holds of every behaviour of the scheduler.
THEOREM Invariance == Spec => []IInv
BY InitInv, NextInv, PTL DEF Spec

\* The variables keep their types.
THEOREM TypeCorrect == Spec => []TypeOK
<1>1. IInv => TypeOK
  BY DEF IInv, TypesOK
<1> QED BY <1>1, Invariance, PTL

\* Callbacks of deferred operations start after the GPU has finished the
\* commands recorded before them, and one queue's run one after the other.
THEOREM OperationsRunAfterTheirWork == Spec => []RunsAfterItsWork
<1>1. IInv => RunsAfterItsWork
  BY DEF IInv
<1> QED BY <1>1, Invariance, PTL

\* Nothing anybody deferred is left behind or dropped when Shutdown closes the
\* scheduler, whoever defers meanwhile.
THEOREM ClosingLeavesNothing == Spec => []ClosedLeavesNothing
<1>1. ASSUME IInv, pc[Owner] \in {"close", "announce", "closed"}
      PROVE  pending = <<>> /\ prio = <<>> /\ active = 0 /\ done = OpIds
  <2> USE DEF IInv
  <2>1. opState # "Open" /\ pc[Owner] # "final"
    BY <1>1 DEF PhaseOK
  <2>2. pending = <<>> /\ prio = <<>> /\ active = 0
    BY <1>1, <2>1 DEF PhaseOK, Stopped
  <2>3. running[Owner] = 0
    BY <1>1 DEF PlaceOK
  <2>4. \A o \in OpIds : o # 0 /\ log[o].kind \in {"ordinary", "priority", "direct"}
    BY <1>1, OpFacts
  <2>5. \A o : ~Queued(pending, o) /\ ~Queued(prio, o)
    BY <2>2 DEF Queued
  <2>6. \A o \in OpIds : o \in done
    BY <1>1, <2>2, <2>3, <2>4, <2>5 DEF OrdinaryOK, PriorityOK
  <2>7. done \subseteq OpIds
    BY <1>1, OldOps
  <2> QED BY <2>2, <2>6, <2>7
<1>2. IInv => ClosedLeavesNothing
  BY <1>1 DEF ClosedLeavesNothing
<1> QED BY <1>2, Invariance, PTL

\* A step in which the owner leaves one of its two waits for the runner.
LEMMA OwnerLeavesWait ==
  ASSUME IInv, [Next]_vars, pc[Owner] \in {"await", "drain"}, pc'[Owner] # pc[Owner]
  PROVE  \/ WaitPriorityOperations /\ NoneBefore(waitTick)
         \/ DrainPriorityOperations /\ prio = <<>> /\ active = 0
<1>p. pc \in [Threads -> OwnerPcs \union RunnerPcs \union OtherPcs]
  BY DEF IInv, TypesOK
<1>1. ASSUME NEW t \in Threads, t # Owner, NEW w, Go(t, w) PROVE FALSE
  BY <1>1, <1>p, ThreadFacts DEF Go
<1>2. ~RunnerSteps
  BY <1>1, ThreadFacts
  DEF RunnerSteps, RunnerLoop, RunnerLooks, RunnerSleeps, RunnerStarts, CallbackReturns,
      RunnerClears, RunnerTells
<1>3. \A u \in Others : ~(OtherDefers(u) \/ OtherShutsDown(u) \/ OtherLooks(u))
  BY <1>1, ThreadFacts DEF OtherDefers, OtherShutsDown, OtherLooks
<1>4. pc' # pc
  OBVIOUS
<1>5. ~OwnerCalls /\ ~Device /\ ~UNCHANGED vars
  BY <1>4 DEF OwnerCalls, OwnerDefers, DeferPriorityOperation, Flush, Shutdown, Finish,
              Wait, Device, vars
<1>6. \A t \in {Owner, Runner} : ~CallbackDefers(t)
  BY <1>4 DEF CallbackDefers
<1>7. \A t \in Threads : ~SpuriousWake(t)
  BY <1>4 DEF SpuriousWake
<1>8. OwnerContinues
  BY <1>2, <1>3, <1>5, <1>6, <1>7 DEF Next
<1>9. WaitPriorityOperations \/ DrainPriorityOperations
  BY <1>8 DEF OwnerContinues, NotifyPriority, GpuReached, PopOperation, PopEnds,
              CallbackReturns, ShutdownFinish, RequestStop, WakeRunner, Join, CloseState,
              Announce
<1> QED BY <1>4, <1>9 DEF WaitPriorityOperations, DrainPriorityOperations

\* Who waits for the runner's operations, all or up to a tick, goes on only
\* when their callbacks have returned.
THEOREM WaitsCoverEarlier == Spec => WaitCoversEarlier
<1> DEFINE A == /\ (pc[Owner] = "await" /\ pc'[Owner] = "idle") =>
                     \A o \in OpIds : (log[o].kind = "priority" /\ log[o].tick <= waitTick)
                                        => o \in done
                /\ (pc[Owner] = "drain" /\ pc'[Owner] # "drain") =>
                     \A o \in OpIds : log[o].kind = "priority" => o \in done
<1>1. ASSUME IInv, [Next]_vars PROVE A
  <2> USE DEF IInv
  <2>f. /\ \A o \in OpIds : o \in Nat /\ o # 0 /\ log[o].tick \in Nat
        /\ Len(log) \in Nat /\ OpIds = 1..Len(log) /\ waitTick \in Nat
        /\ prio \in Seq(OpIds)
    BY <1>1, OpFacts, OldOps
  <2>1. ASSUME pc[Owner] = "await", pc'[Owner] = "idle", NEW o \in OpIds,
               log[o].kind = "priority", log[o].tick <= waitTick
        PROVE  o \in done
    <3>1. NoneBefore(waitTick)
      BY <1>1, <2>1, OwnerLeavesWait DEF DrainPriorityOperations
    <3>2. o \in done \/ o = active \/ Queued(prio, o)
      BY <1>1, <2>1 DEF PriorityOK
    <3>3. o # active
      BY <2>1, <2>f, <3>1 DEF NoneBefore
    <3>4. ASSUME Queued(prio, o) PROVE FALSE
      <4>1. prio # <<>> /\ Head(prio) \in OpIds /\ Head(prio) <= o
        BY <1>1, <2>f, <3>4, HeadLeast DEF PriorityOK
      <4>2. log[Head(prio)].tick <= log[o].tick
        <5>1. CASE Head(prio) = o
          BY <2>f, <5>1
        <5>2. CASE Head(prio) # o
          <6>1. Head(prio) < o
            BY <2>f, <4>1, <5>2
          <6> QED BY <1>1, <4>1, <6>1 DEF ClockOK
        <5> QED BY <5>1, <5>2
      <4>3. log[Head(prio)].tick > waitTick
        BY <3>1, <4>1 DEF NoneBefore
      <4> QED BY <2>1, <2>f, <4>1, <4>2, <4>3
    <3> QED BY <3>2, <3>3, <3>4
  <2>2. ASSUME pc[Owner] = "drain", pc'[Owner] # "drain", NEW o \in OpIds,
               log[o].kind = "priority"
        PROVE  o \in done
    <3>1. prio = <<>> /\ active = 0
      BY <1>1, <2>2, OwnerLeavesWait DEF WaitPriorityOperations
    <3>2. ~Queued(prio, o)
      BY <3>1 DEF Queued
    <3> QED BY <1>1, <2>2, <2>f, <3>1, <3>2 DEF PriorityOK
  <2> QED BY <2>1, <2>2
<1>2. IInv /\ [Next]_vars => [A]_vars
  BY <1>1
<1> QED BY <1>2, Invariance, PTL DEF Spec, WaitCoversEarlier

-----------------------------------------------------------------------------
(* The stream buffer                                                       *)

\* The watches of w after the first c protect unit i against the tick t: one
\* of them waits for t or later, and those before it end at or below i, so
\* that WaitPendingOperations goes past them on its way to a range with i.
Covers(w, c, i, t) ==
  \E k \in (c + 1)..Len(w) : /\ w[k].tick >= t
                             /\ \A j \in (c + 1)..(k - 1) : w[j].upper <= i

\* No tick is ahead of the one being recorded, and the GPU is behind it.
TicksOK ==
  /\ gpu < tick
  /\ \A i \in Units : watched[i] <= tick
  /\ \A k \in 1..Len(current) : current[k].tick <= tick

\* What the watches of this lap say of the units below the offset, and of
\* the whole ring once there is a watch: the last one is of the latest tick.
LapOK ==
  /\ offset > 0 => current # <<>>
  /\ \A k \in 1..Len(current) : current[k].upper <= offset
  /\ current # <<>> => \A i \in Units : watched[i] <= current[Len(current)].tick
  /\ \A i \in Units : i < offset => Finished(watched[i]) \/ Covers(current, 0, i, watched[i])

\* A unit at or above the place at is free, or lies above the bound up to
\* which the watches have been waited for and is protected by one still to come.
Ahead(at, w, cursor, bound) ==
  \A i \in Units : i >= at => \/ Finished(watched[i])
                              \/ bound <= i /\ Covers(w, cursor, i, watched[i])

\* What the watches of the lap before say of the units the lap has not reached.
AheadOK == Ahead(offset, previous, waitCursor, waitBound)

\* The same for the range and the local copies of a Map under way.
CallOK ==
  call.pc # "none" =>
    /\ ~mapped
    /\ call.at + call.size <= Size /\ call.cursor <= Len(Pending)
    /\ IF call.wrap THEN call.at = 0 /\ current # <<>>
       ELSE call.at >= offset /\ (offset = 0 => call.at = 0)
    /\ Ahead(IF call.wrap THEN 0 ELSE offset, Pending, call.cursor, call.bound)
    /\ call.pc = "served" => /\ call.cursor < Len(Pending)
                             /\ Pending[call.cursor + 1].tick <= gpu

\* The range handed out lies in the ring, and the ticks of its watches are over.
MappedOK ==
  mapped => /\ offset + mappedSize <= Size
            /\ \A i \in MappedUnits : Finished(watched[i])

\* A range whose commands are to be recorded is watched for the tick of its
\* Commit, or for a later one.
UsesOK == \A r \in committed : \A i \in Units : i \in UnitsOf(r) => r.tick <= watched[i]

\* The inductive invariant.
StreamInv == StreamTypeOK /\ TicksOK /\ LapOK /\ AheadOK /\ CallOK /\ MappedOK /\ UsesOK

-----------------------------------------------------------------------------
(* Facts about the helpers                                                 *)

\* Rounding up goes up, and leaves the start of the ring where it is.
LEMMA AlignUpFacts ==
  ASSUME NEW v \in Nat, NEW a \in Nat \ {0}
  PROVE  /\ AlignUp(v, a) \in Nat /\ AlignUp(v, a) >= v
         /\ v = 0 => AlignUp(v, a) = 0
<1> DEFINE q == (v + a - 1) \div a
<1>1. q \in Nat /\ q * a <= v + a - 1 /\ v + a - 1 < q * a + a
  OBVIOUS
<1>2. AlignUp(v, a) = q * a
  BY DEF AlignUp
<1>3. v = 0 => q = 0
  OBVIOUS
<1> HIDE DEF q
<1>4. q * a \in Nat
  BY <1>1
<1>5. v = 0 => q * a = 0
  BY <1>3
<1> QED BY <1>1, <1>2, <1>4, <1>5

\* The fields of a watch.
LEMMA WatchFields ==
  ASSUME NEW w \in Seq(Watch), NEW k \in 1..Len(w)
  PROVE  w[k] \in Watch /\ w[k].tick \in Nat /\ w[k].upper \in Nat /\ w[k].upper <= Size
<1>1. w[k] \in Watch
  OBVIOUS
<1> QED BY <1>1, StreamAssumption DEF Watch

\* A tick that is finished stays so.
LEMMA FinishedStays ==
  ASSUME StreamTypeOK, gpu' \in Nat, served' \in Nat, gpu' >= gpu, served' >= served,
         download' = download,
         NEW t \in Nat, Finished(t)
  PROVE  Finished(t)'
BY DEF Finished, StreamTypeOK, TimelineType

\* A list of watches below i with a last one that waits for t protects i.
LEMMA CoversLast ==
  ASSUME NEW w \in Seq(Watch), NEW i \in Nat, NEW t \in Nat, w # <<>>,
         \A j \in 1..(Len(w) - 1) : w[j].upper <= i, t <= w[Len(w)].tick
  PROVE  Covers(w, 0, i, t)
<1>1. Len(w) \in (0 + 1)..Len(w)
  OBVIOUS
<1>2. w[Len(w)].tick \in Nat
  BY <1>1, WatchFields
<1> QED BY <1>1, <1>2 DEF Covers

\* Nothing is protected when all watches have been waited for.
LEMMA CoversEnd ==
  ASSUME NEW w \in Seq(Watch), NEW c \in Nat, NEW i, NEW t, c >= Len(w)
  PROVE  ~Covers(w, c, i, t)
BY DEF Covers

\* Past one watch, a unit is either still protected or the watch was its own.
LEMMA CoversPass ==
  ASSUME NEW w \in Seq(Watch), NEW c \in Nat, c < Len(w),
         NEW i \in Nat, NEW t \in Nat, Covers(w, c, i, t)
  PROVE  \/ t <= w[c + 1].tick
         \/ w[c + 1].upper <= i /\ Covers(w, c + 1, i, t)
<1>1. PICK k \in (c + 1)..Len(w) : /\ w[k].tick >= t
                                   /\ \A j \in (c + 1)..(k - 1) : w[j].upper <= i
  BY DEF Covers
<1>2. k \in 1..Len(w) /\ w[k].tick \in Nat
  BY WatchFields
<1>3. CASE k = c + 1
  BY <1>1, <1>2, <1>3
<1>4. CASE k # c + 1
  <2>1. k \in ((c + 1) + 1)..Len(w) /\ c + 1 \in (c + 1)..(k - 1)
    BY <1>4
  <2>2. \A j \in ((c + 1) + 1)..(k - 1) : j \in (c + 1)..(k - 1)
    OBVIOUS
  <2> QED BY <1>1, <2>1, <2>2 DEF Covers
<1> QED BY <1>3, <1>4

\* Commit's watch at the end of the list, joined with the last one of the
\* same tick or appended, takes no protection away.
LEMMA CoversCommit ==
  ASSUME NEW w \in Seq(Watch), NEW x \in Watch, NEW v \in Seq(Watch),
         \/ v = Append(w, x)
         \/ w # <<>> /\ w[Len(w)].tick = x.tick /\ v = [w EXCEPT ![Len(w)] = x],
         NEW i \in Nat, NEW t \in Nat, Covers(w, 0, i, t)
  PROVE  Covers(v, 0, i, t)
<1>1. PICK k \in (0 + 1)..Len(w) : /\ w[k].tick >= t
                                   /\ \A j \in (0 + 1)..(k - 1) : w[j].upper <= i
  BY DEF Covers
<1>2. k \in 1..Len(v) /\ v[k].tick = w[k].tick
      /\ \A j \in 1..(k - 1) : v[j] = w[j]
  <2>1. CASE v = Append(w, x)
    BY <2>1
  <2>2. CASE w # <<>> /\ w[Len(w)].tick = x.tick /\ v = [w EXCEPT ![Len(w)] = x]
    BY <2>2
  <2> QED BY <2>1, <2>2
<1>3. k \in (0 + 1)..Len(v) /\ v[k].tick >= t
      /\ \A j \in (0 + 1)..(k - 1) : v[j].upper <= i
  BY <1>1, <1>2
<1> QED BY <1>3 DEF Covers

-----------------------------------------------------------------------------
(* The inductive invariant                                                 *)

LEMMA StreamStarts == StreamInit => StreamInv
<1> SUFFICES ASSUME StreamInit PROVE StreamInv
  OBVIOUS
<1> USE DEF StreamInit, TimelineInit
<1>s. Size \in Nat /\ 0 \in 0..Size
  BY StreamAssumption
<1>1. StreamTypeOK
  <2>1. call \in [pc : {"none", "wait", "served"}, wrap : BOOLEAN, at : 0..Size,
                  size : 0..Size, cursor : Nat, bound : 0..Size, mayWait : BOOLEAN]
    BY <1>s DEF NoCall
  <2>2. current \in Seq(Watch) /\ previous \in Seq(Watch) /\ waitCursor \in 0..Len(previous)
    OBVIOUS
  <2>3. watched \in [Units -> Nat] /\ used \in [Units -> Nat] /\ committed \subseteq Use
    OBVIOUS
  <2>4. download \in BOOLEAN /\ mapped \in BOOLEAN
    BY Zenon
  <2> QED BY <1>s, <2>1, <2>2, <2>3, <2>4 DEF StreamTypeOK, TimelineType
<1>2. \A i \in Units : Finished(watched[i])
  BY DEF Finished
<1>3. TicksOK /\ LapOK /\ AheadOK /\ CallOK /\ MappedOK /\ UsesOK
  BY <1>s, <1>2 DEF TicksOK, LapOK, AheadOK, Ahead, CallOK, NoCall, MappedOK, UsesOK
<1> QED BY <1>1, <1>3 DEF StreamInv

\* The steps of the timeline and of the priority thread leave the ring alone.
LEMMA TimeSteps ==
  ASSUME StreamInv, UNCHANGED <<ring, call, mapped, uses, download>>,
         tick' \in Nat \ {0}, gpu' \in Nat, served' \in Nat,
         tick' >= tick, gpu' >= gpu, served' >= served, gpu' < tick'
  PROVE  StreamInv'
<1> USE DEF StreamInv, ring, uses
<1>t. /\ tick \in Nat /\ gpu \in Nat /\ served \in Nat
      /\ \A i \in Units : watched[i] \in Nat
      /\ current \in Seq(Watch) /\ previous \in Seq(Watch)
  BY DEF StreamTypeOK, TimelineType
<1>f. \A t \in Nat : Finished(t) => Finished(t)'
  BY FinishedStays
<1>1. StreamTypeOK'
  BY DEF StreamTypeOK, TimelineType
<1>2. TicksOK'
  <2>1. \A k \in 1..Len(current) : current[k].tick \in Nat
    BY <1>t, WatchFields
  <2> QED BY <1>t, <2>1 DEF TicksOK
<1>3. LapOK'
  BY <1>f, <1>t DEF LapOK
<1>4. \A at, w, c, b : Ahead(at, w, c, b) => Ahead(at, w, c, b)'
  BY <1>f, <1>t DEF Ahead
<1>5. AheadOK'
  BY <1>4 DEF AheadOK
<1>6. CallOK'
  <2>1. SUFFICES ASSUME call.pc # "none" PROVE CallOK'
    BY DEF CallOK
  <2>2. Pending' = Pending
    BY DEF Pending
  <2>3. ASSUME call.pc = "served"
        PROVE  call.cursor < Len(Pending) /\ Pending[call.cursor + 1].tick <= gpu'
    <3>1. call.cursor < Len(Pending) /\ Pending[call.cursor + 1].tick <= gpu
      BY <2>1, <2>3 DEF CallOK
    <3>2. Pending \in Seq(Watch) /\ call.cursor \in Nat
      BY <1>t DEF Pending, StreamTypeOK
    <3>3. Pending[call.cursor + 1].tick \in Nat
      BY <3>1, <3>2, WatchFields
    <3> QED BY <1>t, <3>1, <3>3
  <2>4. Ahead(IF call.wrap THEN 0 ELSE offset, Pending, call.cursor, call.bound)'
    BY <1>4, <2>1 DEF CallOK, Pending
  <2> QED BY <2>1, <2>2, <2>3, <2>4 DEF CallOK
<1>7. MappedOK'
  <2>1. SUFFICES ASSUME mapped PROVE MappedOK'
    BY DEF MappedOK
  <2>2. offset + mappedSize <= Size /\ \A i \in MappedUnits : Finished(watched[i])
    BY <2>1 DEF MappedOK
  <2>3. \A i \in MappedUnits : i \in Units
    BY <2>2, StreamAssumption DEF Units, MappedUnits, StreamTypeOK
  <2>4. MappedUnits' = MappedUnits
    BY DEF MappedUnits
  <2> QED BY <1>f, <1>t, <2>2, <2>3, <2>4 DEF MappedOK
<1>8. UsesOK'
  BY DEF UsesOK
<1> QED BY <1>1, <1>2, <1>3, <1>5, <1>6, <1>7, <1>8

\* Everything Map does not touch keeps its part of the invariant.
LEMMA StreamCallSteps ==
  ASSUME StreamInv, UNCHANGED <<timeline, ring, served, uses, download>>,
         mapped' \in BOOLEAN, mapped' => mapped,
         call' \in [pc : {"none", "wait", "served"}, wrap : BOOLEAN, at : 0..Size,
                    size : 0..Size, cursor : Nat, bound : 0..Size, mayWait : BOOLEAN],
         CallOK'
  PROVE  StreamInv'
<1> USE DEF StreamInv, timeline, ring, uses
<1>1. StreamTypeOK'
  BY DEF StreamTypeOK, TimelineType
<1>2. TicksOK' /\ LapOK'
  BY DEF TicksOK, LapOK, Finished
<1>3. AheadOK'
  BY DEF AheadOK, Ahead, Finished
<1>4. MappedOK' /\ UsesOK'
  BY DEF MappedOK, MappedUnits, UsesOK, Finished
<1> QED BY <1>1, <1>2, <1>3, <1>4

\* A Map that starts: at a wrap the watches of the lap that ends protect the
\* whole ring, otherwise those of the lap before protect what is ahead.
LEMMA MapStep ==
  ASSUME StreamInv, NEW s \in Sizes, NEW a \in Alignments, NEW m \in BOOLEAN, Map(s, a, m)
  PROVE  StreamInv'
<1> USE DEF StreamInv
<1> DEFINE aligned == AlignUp(offset, a)
           wrap    == aligned > Size - s
<1>1. /\ Size \in Nat /\ s \in Nat /\ s <= Size /\ a \in Nat \ {0}
      /\ offset \in Nat /\ offset <= Size
  BY StreamAssumption DEF Map, StreamTypeOK
<1>2. aligned \in Nat /\ aligned >= offset /\ (offset = 0 => aligned = 0)
  BY <1>1, AlignUpFacts
<1>3. /\ call' = [pc |-> "wait", wrap |-> wrap, at |-> IF wrap THEN 0 ELSE aligned,
                  size |-> s, mayWait |-> m,
                  cursor |-> IF wrap THEN 0 ELSE waitCursor,
                  bound |-> IF wrap THEN 0 ELSE waitBound]
      /\ mapped' = FALSE /\ UNCHANGED <<timeline, ring, served, uses, download>>
  BY DEF Map
<1> HIDE DEF aligned
<1>4. /\ current \in Seq(Watch) /\ previous \in Seq(Watch)
      /\ waitCursor \in Nat /\ waitCursor <= Len(previous) /\ waitBound \in 0..Size
      /\ \A i \in Units : watched[i] \in Nat /\ i \in Nat
  BY DEF StreamTypeOK, Units
<1>5. wrap \in BOOLEAN
  OBVIOUS
<1>6. call' \in [pc : {"none", "wait", "served"}, wrap : BOOLEAN, at : 0..Size,
                 size : 0..Size, cursor : Nat, bound : 0..Size, mayWait : BOOLEAN]
  <2>1. (IF wrap THEN 0 ELSE aligned) \in 0..Size
    BY <1>1, <1>2
  <2>2. (IF wrap THEN 0 ELSE waitCursor) \in Nat /\ (IF wrap THEN 0 ELSE waitBound) \in 0..Size
    BY <1>1, <1>4
  <2>3. s \in 0..Size
    BY <1>1
  <2> HIDE DEF wrap
  <2> QED BY <1>3, <1>5, <2>1, <2>2, <2>3
<1>7. CASE wrap
  <2>1. offset > 0
    BY <1>1, <1>2, <1>7
  <2>2. current # <<>>
    BY <2>1 DEF LapOK
  <2>3. ASSUME NEW i \in Units PROVE Finished(watched[i]) \/ Covers(current, 0, i, watched[i])
    <3>1. CASE i < offset
      BY <3>1 DEF LapOK
    <3>2. CASE i >= offset
      <4>1. \A j \in 1..(Len(current) - 1) : current[j].upper <= i
        <5>1. ASSUME NEW j \in 1..(Len(current) - 1) PROVE current[j].upper <= i
          <6>1. j \in 1..Len(current)
            BY <1>4
          <6>2. current[j].upper <= offset /\ current[j].upper \in Nat
            BY <1>4, <6>1, WatchFields DEF LapOK
          <6> QED BY <1>1, <1>4, <3>2, <6>2
        <5> QED BY <5>1
      <4>2. watched[i] <= current[Len(current)].tick
        BY <2>2 DEF LapOK
      <4> QED BY <1>4, <2>2, <4>1, <4>2, CoversLast
    <3> QED BY <1>1, <1>4, <3>1, <3>2
  <2>4. /\ call'.pc = "wait" /\ call'.wrap /\ call'.at = 0 /\ call'.size = s
        /\ call'.cursor = 0 /\ call'.bound = 0
    BY <1>3, <1>7
  <2>5. /\ Pending' = current /\ current' = current /\ offset' = offset /\ watched' = watched
        /\ gpu' = gpu /\ served' = served /\ download' = download
    BY <1>3, <2>4 DEF Pending, ring, timeline, uses
  <2>6. Ahead(0, Pending, 0, 0)'
    BY <1>4, <2>3, <2>5 DEF Ahead, Finished
  <2>7. CallOK'
    BY <1>1, <1>3, <1>4, <2>2, <2>4, <2>5, <2>6 DEF CallOK
  <2> QED BY <1>3, <1>6, <2>7, StreamCallSteps
<1>8. CASE ~wrap
  <2>4. /\ call'.pc = "wait" /\ ~call'.wrap /\ call'.at = aligned /\ call'.size = s
        /\ call'.cursor = waitCursor /\ call'.bound = waitBound
    BY <1>3, <1>8
  <2>5. /\ Pending' = previous /\ offset' = offset /\ watched' = watched
        /\ gpu' = gpu /\ served' = served /\ download' = download
    BY <1>3, <2>4 DEF Pending, ring, timeline, uses
  <2>6. Ahead(offset, Pending, waitCursor, waitBound)'
    BY <1>3, <2>5 DEF AheadOK, Ahead, Finished, ring
  <2>7. aligned + s <= Size
    BY <1>1, <1>2, <1>8
  <2>8. CallOK'
    BY <1>2, <1>3, <1>4, <2>4, <2>5, <2>6, <2>7 DEF CallOK, ring
  <2> QED BY <1>3, <1>6, <2>8, StreamCallSteps
<1> QED BY <1>7, <1>8

\* A Map that gives up leaves nothing behind.
LEMMA MapFailsStep ==
  ASSUME StreamInv, MapFails
  PROVE  StreamInv'
<1>1. NoCall \in [pc : {"none", "wait", "served"}, wrap : BOOLEAN, at : 0..Size,
                  size : 0..Size, cursor : Nat, bound : 0..Size, mayWait : BOOLEAN]
  BY StreamAssumption DEF NoCall
<1>2. CallOK'
  BY DEF MapFails, CallOK, NoCall
<1>3. mapped \in BOOLEAN
  BY DEF StreamInv, StreamTypeOK
<1> QED BY <1>1, <1>2, <1>3, StreamCallSteps DEF MapFails

\* The local cursor goes past a watch whose tick is finished.
LEMMA PassStep ==
  ASSUME StreamInv, call.pc # "none", call.cursor < Len(Pending),
         Finished(Pending[call.cursor + 1].tick), PassWatch,
         UNCHANGED <<timeline, ring, mapped, served, uses, download>>
  PROVE  StreamInv'
<1> USE DEF StreamInv
<1> DEFINE w == Pending
           c == call.cursor
           x == Pending[call.cursor + 1]
<1>1. /\ w \in Seq(Watch) /\ c \in Nat /\ c < Len(w)
      /\ gpu \in Nat /\ served \in Nat /\ mapped \in BOOLEAN
      /\ \A i \in Units : watched[i] \in Nat /\ i \in Nat
  BY SMTT(30) DEF Pending, StreamTypeOK, Units, TimelineType
<1>2. x \in Watch /\ x.tick \in Nat /\ x.upper \in 0..Size
  BY <1>1, WatchFields, StreamAssumption
<1>3. call' = [call EXCEPT !.pc = "wait", !.cursor = c + 1, !.bound = x.upper]
  BY DEF PassWatch
<1>4. call' \in [pc : {"none", "wait", "served"}, wrap : BOOLEAN, at : 0..Size,
                 size : 0..Size, cursor : Nat, bound : 0..Size, mayWait : BOOLEAN]
  <2> DEFINE up   == x.upper
             next == c + 1
  <2>1. up \in 0..Size /\ next \in Nat
    BY <1>1, <1>2
  <2>2. call' = [call EXCEPT !.pc = "wait", !.cursor = next, !.bound = up]
    BY <1>3
  <2> HIDE DEF up, next
  <2> QED BY <2>1, <2>2 DEF StreamTypeOK
<1>5. /\ call'.pc = "wait" /\ call'.cursor = c + 1 /\ call'.bound = x.upper
      /\ call'.wrap = call.wrap /\ call'.at = call.at /\ call'.size = call.size
  BY <1>3 DEF StreamTypeOK
<1>6. Pending' = w /\ current' = current /\ offset' = offset /\ watched' = watched
      /\ mapped' = mapped /\ gpu' = gpu /\ served' = served /\ download' = download
  BY <1>5 DEF Pending, ring, timeline, uses
<1> DEFINE at == IF call.wrap THEN 0 ELSE offset
<1>7. Ahead(at, w, c, call.bound)
  BY DEF CallOK
<1>f. x.tick <= gpu /\ (download => x.tick <= served)
  BY DEF Finished
<1> HIDE DEF w, c, x, at
<1>8. Ahead(at, w, c + 1, x.upper)
  <2>1. SUFFICES ASSUME NEW i \in Units, i >= at, ~Finished(watched[i])
                 PROVE  x.upper <= i /\ Covers(w, c + 1, i, watched[i])
    BY DEF Ahead
  <2>2. Covers(w, c, i, watched[i])
    BY <1>7, <2>1 DEF Ahead
  <2>3. \/ watched[i] <= w[c + 1].tick
        \/ w[c + 1].upper <= i /\ Covers(w, c + 1, i, watched[i])
    BY <1>1, <2>2, CoversPass
  <2>4. ~(watched[i] <= x.tick)
    BY <1>1, <1>2, <1>f, <2>1 DEF Finished
  <2> QED BY <2>3, <2>4 DEF x, w, c
<1>9. Ahead(IF call.wrap THEN 0 ELSE offset, Pending, call.cursor, call.bound)'
  BY <1>5, <1>6, <1>8 DEF Ahead, Finished, at, x, w, c
<1>10. CallOK'
  BY <1>1, <1>5, <1>6, <1>9 DEF CallOK, at, w, c, x
<1> QED BY <1>1, <1>4, <1>6, <1>10, StreamCallSteps

\* A Map that returns: its range is free, and the units it goes past are
\* protected by the watches of this lap.
LEMMA MapReturnsStep ==
  ASSUME StreamInv, MapReturns
  PROVE  StreamInv'
<1> USE DEF StreamInv
<1>t. /\ Size \in Nat /\ offset \in 0..Size
      /\ current \in Seq(Watch) /\ previous \in Seq(Watch) /\ Pending \in Seq(Watch)
      /\ \A i \in Units : watched[i] \in Nat /\ i \in Nat
      /\ call.at \in 0..Size /\ call.size \in 0..Size /\ call.bound \in 0..Size
      /\ call.cursor \in Nat /\ call.wrap \in BOOLEAN
  BY StreamAssumption DEF StreamTypeOK, Units, Pending
<1>0. /\ call.pc = "wait" /\ ~More /\ previous' = Pending
      /\ current' = (IF call.wrap THEN <<>> ELSE current)
      /\ waitCursor' = call.cursor /\ waitBound' = call.bound
      /\ offset' = call.at /\ mappedSize' = call.size
      /\ call' = NoCall /\ mapped' = TRUE
      /\ tick' = tick /\ gpu' = gpu /\ served' = served /\ download' = download
      /\ watched' = watched /\ used' = used /\ committed' = committed
  BY DEF MapReturns, timeline, uses
<1>1. /\ call.at + call.size <= Size /\ call.cursor <= Len(Pending)
      /\ IF call.wrap THEN call.at = 0 /\ current # <<>>
         ELSE call.at >= offset /\ (offset = 0 => call.at = 0)
      /\ Ahead(IF call.wrap THEN 0 ELSE offset, Pending, call.cursor, call.bound)
  BY <1>0 DEF CallOK
<1>2. \A i \in Units : i >= (IF call.wrap THEN 0 ELSE offset) =>
        \/ Finished(watched[i])
        \/ call.bound <= i /\ Covers(Pending, call.cursor, i, watched[i])
  BY <1>1 DEF Ahead
<1>3. \A i \in Units : i >= call.at =>
        \/ Finished(watched[i])
        \/ call.bound <= i /\ Covers(Pending, call.cursor, i, watched[i])
  BY <1>1, <1>2, <1>t
<1>f. \A t : Finished(t)' <=> Finished(t)
  BY <1>0 DEF Finished
<1>4. StreamTypeOK'
  <2>1. NoCall \in [pc : {"none", "wait", "served"}, wrap : BOOLEAN, at : 0..Size,
                    size : 0..Size, cursor : Nat, bound : 0..Size, mayWait : BOOLEAN]
    BY <1>t DEF NoCall
  <2>2. current' \in Seq(Watch) /\ previous' \in Seq(Watch) /\ waitCursor' \in 0..Len(previous')
    BY <1>0, <1>1, <1>t
  <2> QED BY <1>0, <1>t, <2>1, <2>2 DEF StreamTypeOK, TimelineType
<1>5. TicksOK'
  BY <1>0 DEF TicksOK
<1>6. LapOK'
  <2>1. CASE call.wrap
    BY <1>0, <1>1, <1>t, <2>1 DEF LapOK
  <2>2. CASE ~call.wrap
    <3>1. current' = current /\ offset' >= offset /\ (offset' > 0 => offset > 0)
      BY <1>0, <1>1, <1>t, <2>2
    <3>2. \A k \in 1..Len(current) : current[k].upper \in Nat /\ current[k].upper <= offset
      BY <1>t, WatchFields DEF LapOK
    <3>3. ASSUME NEW i \in Units, i < offset', ~Finished(watched[i])
          PROVE  Covers(current, 0, i, watched[i])
      <4>1. CASE i < offset
        BY <3>3, <4>1 DEF LapOK
      <4>2. CASE i >= offset
        <5>1. current # <<>>
          BY <1>0, <1>t, <3>1, <3>3 DEF LapOK
        <5>2. \A j \in 1..(Len(current) - 1) : current[j].upper <= i
          <6>1. offset \in Nat /\ Len(current) \in Nat /\ i \in Nat /\ offset <= i
            BY <1>t, <4>2
          <6>2. ASSUME NEW j \in 1..(Len(current) - 1) PROVE current[j].upper <= i
            <7>1. j \in 1..Len(current)
              BY <6>1
            <7>2. current[j].upper \in Nat /\ current[j].upper <= offset
              BY <3>2, <7>1
            <7> QED BY <6>1, <7>2
          <6> QED BY <6>2
        <5>3. watched[i] <= current[Len(current)].tick
          BY <5>1 DEF LapOK
        <5> QED BY <1>t, <5>1, <5>2, <5>3, CoversLast
      <4> QED BY <1>t, <4>1, <4>2
    <3>4. \A k \in 1..Len(current') : current'[k].upper <= offset'
      BY <1>0, <1>t, <3>1, <3>2
    <3>5. current' # <<>> => \A i \in Units : watched'[i] <= current'[Len(current')].tick
      BY <1>0, <3>1 DEF LapOK
    <3>6. offset' > 0 => current' # <<>>
      BY <3>1 DEF LapOK
    <3> QED BY <1>0, <1>f, <3>1, <3>3, <3>4, <3>5, <3>6 DEF LapOK
  <2> QED BY <2>1, <2>2
<1>7. AheadOK'
  BY <1>0, <1>3, <1>f DEF AheadOK, Ahead
<1>8. CallOK'
  BY <1>0 DEF CallOK, NoCall
<1>9. MappedOK'
  <2>1. ASSUME NEW i \in call.at..(call.at + call.size - 1) PROVE Finished(watched[i])
    <3>1. i \in Units /\ i >= call.at /\ i < call.at + call.size
      BY <1>1, <1>t DEF Units
    <3>2. CASE call.at + call.size <= call.bound
      BY <1>3, <1>t, <3>1, <3>2
    <3>3. CASE ~(call.at + call.size <= call.bound)
      <4>1. call.cursor >= Len(Pending)
        BY <1>0, <1>t, <3>3 DEF More
      <4>2. ~Covers(Pending, call.cursor, i, watched[i])
        BY <1>t, <4>1, CoversEnd
      <4> QED BY <1>3, <3>1, <4>2
    <3> QED BY <3>2, <3>3
  <2>2. MappedUnits' = call.at..(call.at + call.size - 1)
    BY <1>0 DEF MappedUnits
  <2> QED BY <1>0, <1>1, <1>f, <2>1, <2>2 DEF MappedOK
<1>10. UsesOK'
  BY <1>0 DEF UsesOK
<1> QED BY <1>4, <1>5, <1>6, <1>7, <1>8, <1>9, <1>10

\* Commit: the new watch protects the range that is committed and keeps the
\* protection of the units below it.
LEMMA CommitStep ==
  ASSUME StreamInv, Commit
  PROVE  StreamInv'
<1> USE DEF StreamInv
<1> DEFINE end   == offset + mappedSize
           watch == [tick |-> tick, upper |-> end]
           merge == current # <<>> /\ current[Len(current)].tick = tick
<1>t. /\ Size \in Nat /\ offset \in Nat /\ mappedSize \in Nat /\ tick \in Nat
      /\ current \in Seq(Watch) /\ end \in Nat /\ end >= offset
      /\ \A i \in Units : watched[i] \in Nat /\ i \in Nat
  BY StreamAssumption DEF StreamTypeOK, TimelineType, Units
<1>u. MappedUnits = offset..(end - 1)
  BY <1>t DEF MappedUnits
<1>0. /\ call.pc = "none" /\ mapped
      /\ current' = (IF merge THEN [current EXCEPT ![Len(current)] = watch]
                      ELSE Append(current, watch))
      /\ watched' = [i \in Units |-> IF i \in offset..(end - 1) THEN tick ELSE watched[i]]
      /\ committed' = committed \cup {[tick |-> tick, first |-> offset, end |-> end]}
      /\ used' = used
      /\ offset' = end /\ mapped' = FALSE /\ call' = call
      /\ tick' = tick /\ gpu' = gpu /\ served' = served /\ download' = download
      /\ mappedSize' = mappedSize /\ previous' = previous
      /\ waitCursor' = waitCursor /\ waitBound' = waitBound
  <2>1. watched' = [i \in Units |-> IF i \in MappedUnits THEN tick ELSE watched[i]]
    BY DEF Commit
  <2>2. watched' = [i \in Units |-> IF i \in offset..(end - 1) THEN tick ELSE watched[i]]
    BY <1>u, <2>1, Zenon
  <2> QED BY <2>2 DEF Commit, timeline
<1>1. end <= Size
  BY <1>0 DEF MappedOK
<1>2. watch \in Watch /\ watch.tick = tick /\ watch.upper = end
  BY <1>1, <1>t DEF Watch
<1>3. \A k \in 1..Len(current) : /\ current[k] \in Watch /\ current[k].tick \in Nat
                              /\ current[k].upper \in Nat /\ current[k].upper <= offset
                              /\ current[k].tick <= tick
  BY <1>t, WatchFields DEF LapOK, TicksOK
<1> HIDE DEF watch, end
<1>4. /\ current' \in Seq(Watch) /\ current' # <<>> /\ current'[Len(current')] = watch
      /\ \A j \in 1..(Len(current') - 1) : j \in 1..Len(current) /\ current'[j] = current[j]
  <2>1. CASE merge
    BY <1>0, <1>2, <1>t, <2>1
  <2>2. CASE ~merge
    BY SMTT(30), <1>0, <1>2, <1>t, <2>2
  <2> QED BY <2>1, <2>2
<1>5. \A k \in 1..Len(current') : current'[k].tick <= tick /\ current'[k].upper <= end
  <2>1. ASSUME NEW k \in 1..Len(current'), k # Len(current')
        PROVE  k \in 1..(Len(current') - 1)
    BY <1>4, <2>1
  <2>2. ASSUME NEW k \in 1..(Len(current') - 1)
        PROVE  current'[k].tick <= tick /\ current'[k].upper <= end
    <3>1. k \in 1..Len(current) /\ current'[k] = current[k]
      BY <1>4
    <3> QED BY <1>3, <1>t, <3>1
  <2>3. current'[Len(current')].tick <= tick /\ current'[Len(current')].upper <= end
    BY <1>2, <1>4, <1>t
  <2> QED BY <2>1, <2>2, <2>3
<1>6. \A i \in Units : watched'[i] \in Nat /\ watched'[i] <= tick
  BY <1>0, <1>t DEF TicksOK
<1>f. \A t : Finished(t)' <=> Finished(t)
  BY <1>0 DEF Finished
<1>7. StreamTypeOK'
  <2>1. watched' \in [Units -> Nat]
    BY <1>0, <1>t
  <2>2. offset' \in 0..Size
    BY <1>0, <1>1, <1>t
  <2>3. [tick |-> tick, first |-> offset, end |-> end] \in Use
    BY <1>1, <1>t DEF Use
  <2>4. committed' \subseteq Use
    BY <1>0, <2>3 DEF StreamTypeOK
  <2> QED BY <1>0, <1>4, <2>1, <2>2, <2>4 DEF StreamTypeOK, TimelineType
<1>8. TicksOK'
  BY <1>0, <1>5, <1>6 DEF TicksOK
<1>9. LapOK'
  <2>1. ASSUME NEW i \in Units, i < end, ~Finished(watched'[i])
        PROVE  Covers(current', 0, i, watched'[i])
    <3>1. CASE i < offset
      <4>1. watched'[i] = watched[i]
        BY <1>0, <1>t, <3>1
      <4>2. Covers(current, 0, i, watched[i])
        BY <2>1, <3>1, <4>1 DEF LapOK
      <4>3. \/ current' = Append(current, watch)
            \/ /\ current # <<>> /\ current[Len(current)].tick = watch.tick
               /\ current' = [current EXCEPT ![Len(current)] = watch]
        BY <1>0, <1>2
      <4> QED BY <1>2, <1>4, <1>t, <4>1, <4>2, <4>3, CoversCommit
    <3>2. CASE i >= offset
      <4>1. \A j \in 1..(Len(current') - 1) : current'[j].upper <= i
        BY <1>3, <1>4, <1>t, <3>2
      <4>2. watched'[i] <= current'[Len(current')].tick
        BY <1>2, <1>4, <1>6
      <4> QED BY <1>4, <1>6, <1>t, <4>1, <4>2, CoversLast
    <3> QED BY <1>t, <3>1, <3>2
  <2> QED BY <1>0, <1>2, <1>4, <1>5, <1>6, <1>f, <2>1 DEF LapOK
<1>10. AheadOK'
  <2>1. SUFFICES ASSUME NEW i \in Units, i >= end
                 PROVE  \/ Finished(watched'[i])
                        \/ waitBound <= i /\ Covers(previous, waitCursor, i, watched'[i])
    BY <1>0, <1>f DEF AheadOK, Ahead
  <2>2. watched'[i] = watched[i] /\ i >= offset
    BY <1>0, <1>t, <2>1
  <2> QED BY <2>2 DEF AheadOK, Ahead
<1>11. CallOK' /\ MappedOK'
  BY <1>0 DEF CallOK, MappedOK
<1>12. UsesOK'
  <2>1. SUFFICES ASSUME NEW r \in committed', NEW i \in Units, i \in UnitsOf(r)
                 PROVE  r.tick <= watched'[i]
    BY DEF UsesOK, UnitsOf
  <2>2. CASE r \in committed
    <3>1. r.tick <= watched[i]
      BY <2>1, <2>2 DEF UsesOK
    <3>2. r.tick \in Nat
      BY <2>2 DEF StreamTypeOK, Use
    <3>3. watched[i] <= watched'[i]
      BY <1>0, <1>t DEF TicksOK
    <3> QED BY <1>6, <1>t, <3>1, <3>2, <3>3
  <2>3. CASE r = [tick |-> tick, first |-> offset, end |-> end]
    <3>1. i \in offset..(end - 1) /\ r.tick = tick
      BY <2>1, <2>3 DEF UnitsOf
    <3>2. watched'[i] = tick
      BY <1>0, <3>1
    <3> QED BY <1>t, <3>1, <3>2
  <2> QED BY <1>0, <2>1, <2>2, <2>3
<1> QED BY <1>7, <1>8, <1>9, <1>10, <1>11, <1>12

\* Recording the commands of a range leaves the ring and its watches alone.
LEMMA RecordUseStep ==
  ASSUME StreamInv, NEW r \in committed, RecordUse(r)
  PROVE  StreamInv'
<1> USE DEF StreamInv, timeline, ring
<1>0. /\ used' = [i \in Units |-> IF i \in UnitsOf(r) THEN tick ELSE used[i]]
      /\ committed' = committed \ {r}
      /\ UNCHANGED <<tick, gpu, ring, call, mapped, served, download, watched>>
  BY DEF RecordUse
<1>1. StreamTypeOK'
  <2>1. used' \in [Units -> Nat]
    BY <1>0 DEF StreamTypeOK, TimelineType
  <2> QED BY <1>0, <2>1 DEF StreamTypeOK, TimelineType
<1>2. TicksOK' /\ LapOK' /\ AheadOK' /\ CallOK'
  <2>1. Pending' = Pending
    BY <1>0 DEF Pending
  <2> QED BY <1>0, <2>1 DEF TicksOK, LapOK, AheadOK, CallOK, Ahead, Finished
<1>3. MappedOK' /\ UsesOK'
  BY <1>0 DEF MappedOK, MappedUnits, UsesOK, UnitsOf, Finished
<1> QED BY <1>1, <1>2, <1>3

LEMMA StreamSteps == StreamInv /\ [StreamNext]_streamVars => StreamInv'
<1> SUFFICES ASSUME StreamInv, [StreamNext]_streamVars PROVE StreamInv'
  OBVIOUS
<1>t. /\ tick \in Nat \ {0} /\ gpu \in Nat /\ served \in Nat
      /\ call.cursor \in Nat /\ mapped \in BOOLEAN /\ gpu < tick
  BY DEF StreamInv, StreamTypeOK, TimelineType, TicksOK
<1>w. call.cursor < Len(Pending) => Pending[call.cursor + 1].tick \in Nat
  <2>1. Pending \in Seq(Watch)
    BY DEF StreamInv, StreamTypeOK, Pending
  <2> QED BY <1>t, <2>1, WatchFields
<1>1. CASE UNCHANGED streamVars
  BY <1>1, <1>t, TimeSteps DEF streamVars, ring, timeline
<1>2. ASSUME NEW s \in Sizes, MapRefused(s) PROVE StreamInv'
  BY <1>1, <1>2 DEF MapRefused
<1>3. CASE WaitSubmits \/ SubmitElsewhere
  BY <1>3, <1>t, TimeSteps DEF WaitSubmits, SubmitElsewhere, NextTick, ring
<1>4. CASE DeviceSignals
  BY <1>4, <1>t, TimeSteps DEF DeviceSignals, GpuSignals, ring
<1>5. CASE PriorityThread
  BY <1>5, <1>t, TimeSteps DEF PriorityThread, timeline, ring
<1>6. CASE WatchFree
  <2>0. /\ call.pc = "wait" /\ call.cursor < Len(Pending)
        /\ Pending[call.cursor + 1].tick <= gpu
        /\ UNCHANGED <<timeline, ring, mapped, served, uses, download>>
    BY <1>6, <1>t, <1>w DEF WatchFree, More, Passed
  <2>1. CASE download
    <3>1. call' = [call EXCEPT !.pc = "served"]
      BY <1>6, <2>1 DEF WatchFree
    <3>2. call' \in [pc : {"none", "wait", "served"}, wrap : BOOLEAN, at : 0..Size,
                     size : 0..Size, cursor : Nat, bound : 0..Size, mayWait : BOOLEAN]
      BY <3>1 DEF StreamInv, StreamTypeOK
    <3>3. /\ call'.pc = "served" /\ call'.cursor = call.cursor
          /\ call'.bound = call.bound /\ call'.wrap = call.wrap
          /\ call'.at = call.at /\ call'.size = call.size
      BY <3>1 DEF StreamInv, StreamTypeOK
    <3>4. /\ Pending' = Pending /\ gpu' = gpu /\ offset' = offset /\ current' = current
          /\ mapped' = mapped /\ watched' = watched /\ served' = served
          /\ download' = download
      BY <2>0, <3>3 DEF Pending, ring, timeline, uses
    <3>5. Ahead(IF call.wrap THEN 0 ELSE offset, Pending, call.cursor, call.bound)'
      BY <2>0, <3>3, <3>4 DEF StreamInv, CallOK, Ahead, Finished
    <3>6. CallOK'
      BY <2>0, <3>3, <3>4, <3>5 DEF StreamInv, CallOK
    <3> QED BY <1>t, <2>0, <3>2, <3>6, StreamCallSteps
  <2>2. CASE ~download
    BY <1>6, <2>0, <2>2, PassStep DEF WatchFree, Finished
  <2> QED BY <2>1, <2>2
<1>7. CASE WatchServed
  <2>0. /\ call.pc = "served" /\ PassWatch
        /\ served >= Pending[call.cursor + 1].tick
        /\ UNCHANGED <<timeline, ring, mapped, served, uses, download>>
    BY <1>7 DEF WatchServed
  <2>1. call.cursor < Len(Pending) /\ Pending[call.cursor + 1].tick <= gpu
    BY <2>0 DEF StreamInv, CallOK
  <2> QED BY <1>t, <1>w, <2>0, <2>1, PassStep DEF Finished
<1> QED
  BY <1>1, <1>2, <1>3, <1>4, <1>5, <1>6, <1>7, MapStep, MapFailsStep, MapReturnsStep,
     CommitStep, RecordUseStep
  DEF StreamNext

-----------------------------------------------------------------------------
(* Results                                                                 *)

\* The inductive invariant holds of every behaviour of the stream buffer.
THEOREM StreamInvariance == StreamSpec => []StreamInv
BY StreamStarts, StreamSteps, PTL DEF StreamSpec

\* The variables keep their types: offset, cursors and bounds stay inside the
\* ring and inside the lists of watches.
THEOREM StreamTypeCorrect == StreamSpec => []StreamTypeOK
<1>1. StreamInv => StreamTypeOK
  BY DEF StreamInv
<1> QED BY <1>1, StreamInvariance, PTL

\* No range is handed out while the GPU or a download's callback uses it, or
\* commands of the tick being recorded are about to, for any size of the ring,
\* any sizes, alignments, wraps and failed maps, and any number of ranges whose
\* commands are recorded later.  Commands recorded in a later tick than the
\* Commit of their range are excepted: no watch covers them.  The invariant
\* behind it: a range is handed out when the ticks of its watches are over, and
\* commands that are not excepted have at most the tick of their watch.
THEOREM MappedRangesAreFree == StreamSpec => []MappedRangeIsFree
<1>1. StreamInv => MappedRangeIsFree
  <2>1. SUFFICES ASSUME StreamInv, mapped PROVE MappedRangeIsFree
    BY DEF MappedRangeIsFree
  <2>t. /\ tick \in Nat /\ gpu \in Nat /\ served \in Nat /\ gpu < tick
        /\ \A i \in Units : /\ used[i] \in Nat /\ watched[i] \in Nat
                             /\ watched[i] <= tick
    BY <2>1 DEF StreamInv, StreamTypeOK, TimelineType, TicksOK
  <2>2. \A i \in MappedUnits : i \in Units /\ Finished(watched[i])
    BY <2>1, StreamAssumption
    DEF StreamInv, MappedOK, MappedUnits, Units, StreamTypeOK
  <2>3. ASSUME NEW i \in MappedUnits PROVE Finished(used[i]) \/ used[i] > watched[i]
    BY <2>t, <2>2 DEF Finished
  <2>4. ASSUME NEW r \in committed, r.tick = tick, NEW i \in UnitsOf(r) \cap MappedUnits
        PROVE  FALSE
    <3>1. i \in Units /\ watched[i] <= gpu
      BY <2>2, <2>4 DEF Finished
    <3>2. tick <= watched[i]
      BY <2>1, <2>4, <3>1 DEF StreamInv, UsesOK
    <3> QED BY <2>t, <3>1, <3>2
  <2> QED BY <2>1, <2>3, <2>4 DEF MappedRangeIsFree
<1> QED BY <1>1, StreamInvariance, PTL

-----------------------------------------------------------------------------
(* The command processor: packets and their texts                         *)

\* What may take effect.
PacketSet ==
  {FlipPacket(p) : p \in DOMAIN Programs} \cup UNION {ToSet(Buffers[b]) : b \in DOMAIN Buffers}
Texts == Seq(PacketSet)

\* Where the cursor j of a stack stands; one whose call is to be passed over
\* stands behind it, once the callee is gone.
At(stack, j) ==
  LET skip == j = Len(stack) /\ stack[j].deferred
  IN  [buf |-> stack[j].buf, pos |-> stack[j].pos + (IF skip THEN 1 ELSE 0)]

\* The texts up to the places at[1], ..., at[n], joined, are text.
ExecutedAt(n, at, text) ==
  \E sum \in [0..n -> Texts] :
    sum[0] = <<>> /\ sum[n] = text /\ \A j \in 1..n : sum[j] = sum[j - 1] \o Text[at[j]]

-----------------------------------------------------------------------------
(* Texts.  That Text unfolds as it is written is shown from CallsEnd.      *)

\* Every set of naturals with an element has a least one.
LEMMA LeastNat ==
  ASSUME NEW T, T \subseteq Nat, T # {}
  PROVE  \E x \in T : \A y \in T : x <= y
<1>1. PICK x \in T : \A y \in T : ~(<<y, x>> \in OpToRel(<, Nat))
  BY NatLessThanWellFounded, WFMin
<1>2. ASSUME NEW y \in T PROVE ~(y < x)
  <2>1. y < x => <<y, x>> \in OpToRel(<, Nat)
    BY DEF OpToRel
  <2> QED BY <1>1, <2>1
<1> QED BY <1>2

\* A finite family of naturals has a bound.
LEMMA FiniteBound ==
  ASSUME NEW S, IsFiniteSet(S), NEW f, \A x \in S : f[x] \in Nat
  PROVE  \E m \in Nat : \A x \in S : f[x] <= m
<1> DEFINE Bound(A) == \E m \in Nat : \A x \in A : f[x] <= m
           Counts   == {n \in Nat : \E A \in SUBSET S : Cardinality(A) = n /\ ~Bound(A)}
<1> SUFFICES ASSUME ~Bound(S) PROVE FALSE
  OBVIOUS
<1>1. Counts # {}
  <2>1. Cardinality(S) \in Nat
    BY FS_CardinalityType
  <2> HIDE DEF Bound
  <2> QED BY <2>1
<1>2. PICK n \in Counts : \A k \in Counts : n <= k
  <2> HIDE DEF Counts
  <2>1. Counts \subseteq Nat
    BY DEF Counts
  <2> QED BY <1>1, <2>1, LeastNat
<1>3. PICK A \in SUBSET S : Cardinality(A) = n /\ ~Bound(A)
  OBVIOUS
<1>4. A # {}
  <2>1. 0 \in Nat
    OBVIOUS
  <2> QED BY <1>3, <2>1
<1>5. PICK a \in A : TRUE
  BY <1>4
<1>6. IsFiniteSet(A) /\ Cardinality(A \ {a}) = n - 1 /\ n - 1 \in Nat
  <2>1. IsFiniteSet(A)
    BY FS_Subset
  <2>2. Cardinality(A \ {a}) = Cardinality(A) - 1
    BY <2>1, FS_RemoveElement
  <2>3. Cardinality(A \ {a}) \in Nat
    BY <2>1, FS_RemoveElement, FS_CardinalityType
  <2> QED BY <1>3, <2>1, <2>2, <2>3
<1>7. Bound(A \ {a})
  <2> HIDE DEF Bound
  <2>1. n - 1 \notin Counts
    <3> HIDE DEF Counts
    <3>1. n \in Nat
      BY DEF Counts
    <3> QED BY <1>2, <3>1
  <2>2. A \ {a} \in SUBSET S
    OBVIOUS
  <2> QED BY <1>6, <2>1, <2>2
<1>8. PICK m \in Nat : \A x \in A \ {a} : f[x] <= m
  BY <1>7
<1> DEFINE top == IF f[a] <= m THEN m ELSE f[a]
<1>9. f[a] \in Nat /\ top \in Nat /\ m <= top /\ f[a] <= top
  BY <1>5
<1> HIDE DEF top
<1>10. ASSUME NEW x \in A PROVE f[x] <= top
  <2>1. f[x] \in Nat
    OBVIOUS
  <2> QED BY <1>8, <1>9, <2>1
<1> QED BY <1>3, <1>9, <1>10

\* A buffer's packets.
LEMMA BufferFacts ==
  ASSUME NEW b \in DOMAIN Buffers
  PROVE  /\ Len(Buffers[b]) \in Nat /\ DOMAIN Buffers[b] = 1..Len(Buffers[b])
         /\ \A i \in 1..Len(Buffers[b]) :
              Buffers[b][i] \in PacketSet /\ Buffers[b][i].op \in Ops
<1>1. Buffers[b] \in Seq(ToSet(Buffers[b]))
  BY GpuThreadAssumption
<1>2. Len(Buffers[b]) \in Nat /\ DOMAIN Buffers[b] = 1..Len(Buffers[b])
  BY <1>1
<1>3. \A i \in 1..Len(Buffers[b]) : Buffers[b][i].op \in Ops
  BY <1>2, GpuThreadAssumption
<1>4. ASSUME NEW i \in 1..Len(Buffers[b]) PROVE Buffers[b][i] \in PacketSet
  <2>1. Buffers[b][i] \in ToSet(Buffers[b])
    BY <1>2 DEF ToSet
  <2> QED BY <2>1 DEF PacketSet
<1> QED BY <1>2, <1>3, <1>4

\* A place is a buffer and a position in it or at its end.
LEMMA PlaceFacts ==
  /\ \A b \in DOMAIN Buffers : \A i \in 1..(Len(Buffers[b]) + 1) : [buf |-> b, pos |-> i] \in Places
  /\ \A at \in Places : /\ at.buf \in DOMAIN Buffers /\ at.pos \in 1..(Len(Buffers[at.buf]) + 1)
                        /\ at = [buf |-> at.buf, pos |-> at.pos]
BY DEF Places

\* One step of the recursion.
TextStep(f, at) ==
  IF at.pos = 1 THEN <<>>
  ELSE LET last   == [at EXCEPT !.pos = @ - 1]
           packet == Buffers[last.buf][last.pos]
       IN  f[last] \o IF packet.op = "call" THEN f[EndOf(packet.arg)] ELSE <<packet>>

\* What a packet comes to.
PacketText(f, packet) == IF packet.op = "call" THEN f[EndOf(packet.arg)] ELSE <<packet>>

\* One step of the recursion, at a buffer's start and behind a packet.
LEMMA TextStepFacts ==
  ASSUME NEW f
  PROVE  /\ \A b \in DOMAIN Buffers : TextStep(f, [buf |-> b, pos |-> 1]) = <<>>
         /\ \A b \in DOMAIN Buffers : \A i \in 1..Len(Buffers[b]) :
              TextStep(f, [buf |-> b, pos |-> i + 1])
                = f[[buf |-> b, pos |-> i]] \o PacketText(f, Buffers[b][i])
<1>1. \A b \in DOMAIN Buffers : TextStep(f, [buf |-> b, pos |-> 1]) = <<>>
  BY DEF TextStep
<1>2. ASSUME NEW b \in DOMAIN Buffers, NEW i \in 1..Len(Buffers[b])
      PROVE  TextStep(f, [buf |-> b, pos |-> i + 1])
               = f[[buf |-> b, pos |-> i]] \o PacketText(f, Buffers[b][i])
  <2> DEFINE at   == [buf |-> b, pos |-> i + 1]
             last == [at EXCEPT !.pos = @ - 1]
  <2>1. i \in Nat /\ i >= 1 /\ (i + 1) - 1 = i
    BY BufferFacts
  <2>2. at.pos # 1 /\ last = [buf |-> b, pos |-> i]
    BY <2>1
  <2>3. last.buf = b /\ last.pos = i
    BY <2>2
  <2> HIDE DEF at, last
  <2>4. TextStep(f, at) = f[last] \o PacketText(f, Buffers[last.buf][last.pos])
    BY <2>2 DEF TextStep, PacketText, last
  <2> QED BY <2>2, <2>3, <2>4 DEF at
<1> QED BY <1>1, <1>2

\* Calls lead to places.
LEMMA CallFacts ==
  ASSUME NEW b \in DOMAIN Buffers, NEW i \in 1..Len(Buffers[b]), Buffers[b][i].op = "call"
  PROVE  Buffers[b][i].arg \in DOMAIN Buffers /\ EndOf(Buffers[b][i].arg) \in Places
<1>1. i \in DOMAIN Buffers[b]
  BY BufferFacts
<1>2. Buffers[b][i].arg \in DOMAIN Buffers
  BY <1>1, GpuThreadAssumption DEF CallsEnd
<1>3. Len(Buffers[Buffers[b][i].arg]) \in Nat
  BY <1>2, BufferFacts
<1> QED BY <1>2, <1>3, PlaceFacts DEF EndOf

\* The recursion goes down a weight.
LEMMA TextWeight ==
  \E w \in [Places -> Nat], top \in Nat :
    /\ \A at \in Places : w[at] < top
    /\ \A b \in DOMAIN Buffers : \A i \in 1..Len(Buffers[b]) :
         /\ w[[buf |-> b, pos |-> i]] < w[[buf |-> b, pos |-> i + 1]]
         /\ Buffers[b][i].op = "call" =>
              w[EndOf(Buffers[b][i].arg)] < w[[buf |-> b, pos |-> i + 1]]
<1> DEFINE size == Cardinality(DOMAIN Buffers)
<1>1. PICK rank \in [DOMAIN Buffers -> 0..size] :
        \A b \in DOMAIN Buffers : \A i \in DOMAIN Buffers[b] :
          Buffers[b][i].op = "call" =>
            Buffers[b][i].arg \in DOMAIN Buffers /\ rank[Buffers[b][i].arg] < rank[b]
  BY GpuThreadAssumption DEF CallsEnd
<1>2. size \in Nat
  BY GpuThreadAssumption, FS_CardinalityType
<1> HIDE DEF size
<1> DEFINE len == [b \in DOMAIN Buffers |-> Len(Buffers[b])]
<1>3. \E m \in Nat : \A b \in DOMAIN Buffers : len[b] <= m
  <2>1. \A b \in DOMAIN Buffers : len[b] \in Nat
    BY BufferFacts
  <2> HIDE DEF len
  <2> QED BY <2>1, GpuThreadAssumption, FiniteBound
<1>4. PICK m \in Nat : \A b \in DOMAIN Buffers : Len(Buffers[b]) <= m
  BY <1>3
<1> DEFINE k == m + 2
           base == [b \in DOMAIN Buffers |-> rank[b] * k]
           w == [at \in Places |-> base[at.buf] + at.pos]
           top == size * k + k
<1>5. k \in Nat /\ top \in Nat
  <2>1. k \in Nat
    OBVIOUS
  <2>2. size * k \in Nat
    BY <1>2, <2>1
  <2> QED BY <2>1, <2>2
<1>6. \A x, y \in Nat : x < y => x * k + k <= y * k
  <2> TAKE x, y \in Nat
  <2> HAVE x < y
  <2> DEFINE d == y - (x + 1)
  <2>1. d \in Nat /\ y = (x + 1) + d
    OBVIOUS
  <2> HIDE DEF d, k
  <2>2. y * k = x * k + k + d * k
    BY <1>5, <2>1
  <2>3. d * k \in Nat /\ x * k \in Nat
    BY <1>5, <2>1
  <2> QED BY <1>5, <2>2, <2>3
<1>7. \A b \in DOMAIN Buffers : base[b] \in Nat /\ base[b] <= size * k /\ rank[b] \in Nat
  <2> TAKE b \in DOMAIN Buffers
  <2>1. rank[b] \in Nat /\ rank[b] <= size
    BY <1>2
  <2> HIDE DEF k
  <2>2. rank[b] * k \in Nat /\ size * k \in Nat
    BY <1>2, <1>5, <2>1
  <2>3. rank[b] * k <= size * k
    BY <1>2, <1>5, <1>6, <2>1, <2>2
  <2> QED BY <2>1, <2>2, <2>3
<1>8. \A b, c \in DOMAIN Buffers : rank[c] < rank[b] => base[c] + k <= base[b]
  <2> HIDE DEF k
  <2> QED BY <1>6, <1>7
<1> HIDE DEF base
<1>9. \A at \in Places : w[at] \in Nat /\ w[at] < top
  <2> TAKE at \in Places
  <2>1. at.buf \in DOMAIN Buffers /\ at.pos \in 1..(Len(Buffers[at.buf]) + 1)
    BY PlaceFacts
  <2>2. Len(Buffers[at.buf]) \in Nat /\ Len(Buffers[at.buf]) <= m
    BY <1>4, <2>1, BufferFacts
  <2>3. at.pos \in Nat /\ at.pos < k
    BY <2>1, <2>2
  <2>4. base[at.buf] \in Nat /\ base[at.buf] <= size * k
    BY <1>7, <2>1
  <2>5. size * k \in Nat
    BY <1>2, <1>5
  <2> HIDE DEF k
  <2> QED BY <1>5, <2>3, <2>4, <2>5
<1>10. ASSUME NEW b \in DOMAIN Buffers, NEW i \in 1..Len(Buffers[b])
       PROVE  /\ w[[buf |-> b, pos |-> i]] < w[[buf |-> b, pos |-> i + 1]]
              /\ Buffers[b][i].op = "call" =>
                   w[EndOf(Buffers[b][i].arg)] < w[[buf |-> b, pos |-> i + 1]]
  <2>1. Len(Buffers[b]) \in Nat /\ i \in DOMAIN Buffers[b]
    BY BufferFacts
  <2>2. [buf |-> b, pos |-> i] \in Places /\ [buf |-> b, pos |-> i + 1] \in Places
    BY <2>1, PlaceFacts
  <2>3. /\ w[[buf |-> b, pos |-> i]] = base[b] + i
        /\ w[[buf |-> b, pos |-> i + 1]] = base[b] + (i + 1)
    BY <2>2
  <2>4. base[b] \in Nat
    BY <1>7
  <2>5. ASSUME Buffers[b][i].op = "call"
        PROVE  w[EndOf(Buffers[b][i].arg)] < w[[buf |-> b, pos |-> i + 1]]
    <3> DEFINE c == Buffers[b][i].arg
    <3>1. c \in DOMAIN Buffers /\ EndOf(c) \in Places /\ rank[c] < rank[b]
      BY <1>1, <2>1, <2>5, CallFacts
    <3> HIDE DEF c
    <3>2. w[EndOf(c)] = base[c] + (Len(Buffers[c]) + 1)
      BY <3>1 DEF EndOf
    <3>3. base[c] \in Nat /\ base[c] + k <= base[b] /\ Len(Buffers[c]) \in Nat
            /\ Len(Buffers[c]) <= m
      BY <1>4, <1>7, <1>8, <3>1, BufferFacts
    <3>4. w[EndOf(c)] < base[b] + (i + 1)
      <4> HIDE DEF w
      <4> QED BY <2>1, <2>4, <3>2, <3>3
    <3> QED BY <2>3, <3>4 DEF c
  <2>6. base[b] + i < base[b] + (i + 1)
    BY <2>1, <2>4
  <2> QED BY <2>3, <2>5, <2>6
<1>11. w \in [Places -> Nat]
  BY <1>9
<1> HIDE DEF w, top
<1> QED BY <1>5, <1>9, <1>10, <1>11

Executed(stack, text) == ExecutedAt(Len(stack), [j \in 1..Len(stack) |-> At(stack, j)], text)

CallAt(c) == c.pos <= Len(Buffers[c.buf]) /\ Buffers[c.buf][c.pos].op = "call"

\* Every cursor but the last stands at the call of the next one's buffer.
StackOK(p, stack) ==
  /\ stack \in Seq(Cursor)
  /\ stack # <<>> => stack[1].buf = Programs[p].buf
  /\ \A j \in DOMAIN stack :
       /\ stack[j].pos <= Len(Buffers[stack[j].buf]) + 1
       /\ j < Len(stack) \/ stack[j].deferred => CallAt(stack[j])
  /\ \A j \in 1..(Len(stack) - 1) : Buffers[stack[j].buf][stack[j].pos].arg = stack[j + 1].buf

\* All calls are to be passed over.
Suspended(stack) == \A j \in DOMAIN stack : stack[j].deferred <=> j < Len(stack)

\* Those below base are, and those from there on are calls under way.
UnderWay(stack, base) ==
  /\ base \in 0..Len(stack) /\ (stack # <<>> => base >= 1)
  /\ \A j \in DOMAIN stack :
       /\ j < base => stack[j].deferred
       /\ stack[j].deferred => j < base \/ (j = base /\ j = Len(stack))
\* Solutions of the recursion below a weight, and at every place.
Solves(w, n, f) ==
  f \in [Places -> Texts] /\ \A at \in Places : w[at] < n => f[at] = TextStep(f, at)

\* It makes a text of texts.
LEMMA TextStepType ==
  ASSUME NEW f \in [Places -> Texts], NEW at \in Places
  PROVE  TextStep(f, at) \in Texts
<1> DEFINE b == at.buf
<1>1. b \in DOMAIN Buffers /\ at.pos \in 1..(Len(Buffers[b]) + 1)
        /\ at = [buf |-> b, pos |-> at.pos]
  BY PlaceFacts
<1>2. Len(Buffers[b]) \in Nat
  BY <1>1, BufferFacts
<1> HIDE DEF b
<1>3. CASE at.pos = 1
  <2>1. TextStep(f, at) = <<>>
    BY <1>1, <1>3, TextStepFacts
  <2> QED BY <2>1 DEF Texts
<1>4. CASE at.pos # 1
  <2> DEFINE i == at.pos - 1
             packet == Buffers[b][i]
  <2>1. i \in 1..Len(Buffers[b]) /\ at.pos = i + 1
    BY <1>1, <1>2, <1>4
  <2> HIDE DEF i
  <2>2. [buf |-> b, pos |-> i] \in Places
    BY <1>1, <1>2, <2>1, PlaceFacts
  <2>3. packet \in PacketSet
    BY <1>1, <2>1, BufferFacts
  <2>4. PacketText(f, packet) \in Texts
    <3>1. CASE packet.op = "call"
      BY <1>1, <2>1, <3>1, CallFacts DEF PacketText
    <3>2. CASE packet.op # "call"
      BY <2>3, <3>2 DEF PacketText, Texts
    <3> QED BY <3>1, <3>2
  <2> HIDE DEF packet
  <2>5. TextStep(f, at) = f[[buf |-> b, pos |-> i]] \o PacketText(f, packet)
    BY <1>1, <2>1, TextStepFacts DEF packet
  <2>6. f[[buf |-> b, pos |-> i]] \in Texts
    BY <2>2
  <2> QED BY <2>4, <2>5, <2>6, ConcatProperties DEF Texts
<1> QED BY <1>3, <1>4

\* w gives a place more weight than the places its text is made from.
Weighs(w) ==
  \A b \in DOMAIN Buffers : \A i \in 1..Len(Buffers[b]) :
    /\ w[[buf |-> b, pos |-> i]] < w[[buf |-> b, pos |-> i + 1]]
    /\ Buffers[b][i].op = "call" =>
         w[EndOf(Buffers[b][i].arg)] < w[[buf |-> b, pos |-> i + 1]]

\* A step looks at smaller weights only.
LEMMA TextStepLocal ==
  ASSUME NEW w, Weighs(w),
         NEW at \in Places, NEW f, NEW g,
         \A x \in Places : w[x] < w[at] => f[x] = g[x]
  PROVE  TextStep(f, at) = TextStep(g, at)
<1> DEFINE b == at.buf
<1>1. b \in DOMAIN Buffers /\ at.pos \in 1..(Len(Buffers[b]) + 1)
        /\ at = [buf |-> b, pos |-> at.pos]
  BY PlaceFacts
<1>2. Len(Buffers[b]) \in Nat
  BY <1>1, BufferFacts
<1> HIDE DEF b
<1>3. CASE at.pos = 1
  BY <1>1, <1>3, TextStepFacts
<1>4. CASE at.pos # 1
  <2> DEFINE i == at.pos - 1
             packet == Buffers[b][i]
             last == [buf |-> b, pos |-> i]
  <2>1. i \in 1..Len(Buffers[b]) /\ at.pos = i + 1 /\ at = [buf |-> b, pos |-> i + 1]
    BY <1>1, <1>2, <1>4
  <2> HIDE DEF i
  <2>2. last \in Places /\ w[last] < w[at]
    BY <1>1, <1>2, <2>1, PlaceFacts DEF Weighs
  <2>3. packet.op = "call" => EndOf(packet.arg) \in Places /\ w[EndOf(packet.arg)] < w[at]
    BY <1>1, <2>1, CallFacts DEF Weighs
  <2> HIDE DEF packet, last
  <2>4. f[last] = g[last]
    BY <2>2
  <2>5. PacketText(f, packet) = PacketText(g, packet)
    BY <2>3 DEF PacketText
  <2>6. /\ TextStep(f, at) = f[last] \o PacketText(f, packet)
        /\ TextStep(g, at) = g[last] \o PacketText(g, packet)
    BY <1>1, <2>1, TextStepFacts DEF packet, last
  <2> QED BY <2>4, <2>5, <2>6
<1> QED BY <1>3, <1>4

\* Text unfolds, and every place has a text.
LEMMA TextUnfolds ==
  /\ Text \in [Places -> Texts]
  /\ \A at \in Places : Text[at] = TextStep(Text, at)
<1>1. PICK w \in [Places -> Nat], top \in Nat :
        (\A at \in Places : w[at] < top) /\ Weighs(w)
  BY TextWeight DEF Weighs
<1>2. \E f : Solves(w, 0, f)
  <2> DEFINE f == [at \in Places |-> <<>>]
  <2>1. f \in [Places -> Texts]
    BY DEF Texts
  <2>2. \A at \in Places : ~(w[at] < 0)
    OBVIOUS
  <2> QED BY <2>1, <2>2 DEF Solves
<1>3. ASSUME NEW n \in Nat, NEW f, Solves(w, n, f)
      PROVE  \E g : Solves(w, n + 1, g)
  <2> DEFINE g == [at \in Places |-> TextStep(f, at)]
  <2>1. g \in [Places -> Texts]
    BY <1>3, TextStepType DEF Solves
  <2>2. ASSUME NEW at \in Places, w[at] < n + 1 PROVE g[at] = TextStep(g, at)
    <3>1. ASSUME NEW x \in Places, w[x] < w[at] PROVE f[x] = g[x]
      <4>1. w[x] < n
        <5>1. w[x] \in Nat /\ w[at] \in Nat
          OBVIOUS
        <5> QED BY <2>2, <3>1, <5>1
      <4> QED BY <1>3, <4>1 DEF Solves
    <3> HIDE DEF g
    <3>2. TextStep(f, at) = TextStep(g, at)
      BY <1>1, <3>1, TextStepLocal
    <3> QED BY <3>2 DEF g
  <2> HIDE DEF g
  <2> QED BY <2>1, <2>2 DEF Solves
<1>4. \E f : Solves(w, top, f)
  <2> DEFINE T == {n \in Nat : ~\E f : Solves(w, n, f)}
  <2>1. SUFFICES ASSUME T # {} PROVE FALSE
    OBVIOUS
  <2>2. PICK n \in T : \A k \in T : n <= k
    <3> HIDE DEF T
    <3>1. T \subseteq Nat
      BY DEF T
    <3> QED BY <2>1, <3>1, LeastNat
  <2>3. n \in Nat /\ n # 0 /\ n - 1 \in Nat /\ (n - 1) + 1 = n
    BY <1>2
  <2>4. n - 1 \notin T
    BY <2>2, <2>3
  <2>5. PICK f : Solves(w, n - 1, f)
    BY <2>3, <2>4
  <2>6. \E g : Solves(w, (n - 1) + 1, g)
    BY <1>3, <2>3, <2>5
  <2> QED BY <2>3, <2>6
<1> DEFINE Fixed(f) == f = [at \in Places |-> TextStep(f, at)]
<1>5. PICK f : Solves(w, top, f)
  BY <1>4
<1>6. Fixed(f)
  BY <1>1, <1>5 DEF Solves
<1>7. Text = CHOOSE h : Fixed(h)
  BY DEF Text, TextStep
<1>8. Fixed(Text)
  <2> HIDE DEF Fixed
  <2> QED BY <1>6, <1>7
<1>9. Text = f
  <2>1. ASSUME NEW at \in Places, Text[at] # f[at] PROVE FALSE
    <3> DEFINE D == {w[x] : x \in {y \in Places : Text[y] # f[y]}}
    <3>1. w[at] \in D /\ D \subseteq Nat
      BY <2>1
    <3>2. PICK n \in D : \A k \in D : n <= k
      <4> HIDE DEF D
      <4> QED BY <3>1, LeastNat
    <3>3. PICK x \in Places : Text[x] # f[x] /\ w[x] = n
      BY <3>2
    <3>4. ASSUME NEW y \in Places, w[y] < w[x] PROVE Text[y] = f[y]
      <4>1. w[y] \in Nat /\ w[x] \in Nat
        OBVIOUS
      <4>2. w[y] \notin D
        BY <3>2, <3>3, <3>4, <4>1
      <4> QED BY <4>2
    <3>5. TextStep(Text, x) = TextStep(f, x)
      BY <1>1, <3>4, TextStepLocal
    <3>6. Text[x] = TextStep(Text, x) /\ f[x] = TextStep(f, x)
      BY <1>6, <1>8
    <3> QED BY <3>3, <3>5, <3>6
  <2>2. Text = [at \in Places |-> Text[at]] /\ f = [at \in Places |-> f[at]]
    BY <1>6, <1>8
  <2> QED BY <2>1, <2>2
<1> QED BY <1>5, <1>6, <1>9 DEF Solves

\* Text is defined everywhere and unfolds as it is written.
LEMMA TextFacts ==
  /\ \A b \in DOMAIN Buffers : Text[[buf |-> b, pos |-> 1]] = <<>>
  /\ \A b \in DOMAIN Buffers : \A i \in 1..Len(Buffers[b]) :
       /\ Text[[buf |-> b, pos |-> i]] \in Texts
       /\ Text[[buf |-> b, pos |-> i + 1]] \in Texts
       /\ PacketText(Text, Buffers[b][i]) \in Texts
       /\ Text[[buf |-> b, pos |-> i + 1]]
            = Text[[buf |-> b, pos |-> i]] \o PacketText(Text, Buffers[b][i])
  /\ \A b \in DOMAIN Buffers : Text[EndOf(b)] \in Texts /\ EndOf(b) \in Places
<1>1. ASSUME NEW b \in DOMAIN Buffers
      PROVE  /\ Text[[buf |-> b, pos |-> 1]] = <<>>
             /\ Text[EndOf(b)] \in Texts /\ EndOf(b) \in Places
  <2>1. 1 \in 1..(Len(Buffers[b]) + 1) /\ Len(Buffers[b]) + 1 \in 1..(Len(Buffers[b]) + 1)
    BY BufferFacts
  <2>2. [buf |-> b, pos |-> 1] \in Places /\ EndOf(b) \in Places
    BY <2>1, PlaceFacts DEF EndOf
  <2> QED BY <2>2, TextUnfolds, TextStepFacts
<1>2. ASSUME NEW b \in DOMAIN Buffers, NEW i \in 1..Len(Buffers[b])
      PROVE  /\ Text[[buf |-> b, pos |-> i]] \in Texts
             /\ Text[[buf |-> b, pos |-> i + 1]] \in Texts
             /\ PacketText(Text, Buffers[b][i]) \in Texts
             /\ Text[[buf |-> b, pos |-> i + 1]]
                  = Text[[buf |-> b, pos |-> i]] \o PacketText(Text, Buffers[b][i])
  <2> DEFINE here == [buf |-> b, pos |-> i]
             next == [buf |-> b, pos |-> i + 1]
  <2>1. here \in Places /\ next \in Places
    BY BufferFacts, PlaceFacts
  <2>2. TextStep(Text, next) = Text[here] \o PacketText(Text, Buffers[b][i])
    BY TextStepFacts
  <2> HIDE DEF here, next
  <2>3. Text[here] \in Texts /\ Text[next] \in Texts /\ Text[next] = TextStep(Text, next)
    BY <2>1, TextUnfolds
  <2>4. PacketText(Text, Buffers[b][i]) \in Texts
    <3>1. CASE Buffers[b][i].op = "call"
      BY <3>1, CallFacts, TextUnfolds DEF PacketText
    <3>2. CASE Buffers[b][i].op # "call"
      BY <3>2, BufferFacts DEF PacketText, Texts
    <3> QED BY <3>1, <3>2
  <2> QED BY <2>2, <2>3, <2>4 DEF here, next
<1> QED BY <1>1, <1>2

\* What a program comes to is a text.
LEMMA ProgramFacts ==
  ASSUME NEW p \in DOMAIN Programs
  PROVE  /\ FlatProgram[p] \in Texts
         /\ Programs[p].type = "flip" => FlatProgram[p] = <<FlipPacket(p)>>
         /\ Programs[p].type # "flip" =>
              Programs[p].buf \in DOMAIN Buffers /\ FlatProgram[p] = Text[EndOf(Programs[p].buf)]
<1>1. FlipPacket(p) \in PacketSet
  BY DEF PacketSet
<1>2. <<FlipPacket(p)>> \in Texts
  BY <1>1 DEF Texts
<1>3. Programs[p].type # "flip" => Programs[p].buf \in DOMAIN Buffers
  BY GpuThreadAssumption
<1>4. Programs[p].type # "flip" => Text[EndOf(Programs[p].buf)] \in Texts
  BY <1>3, TextFacts
<1> QED BY <1>2, <1>3, <1>4 DEF FlatProgram

-----------------------------------------------------------------------------
(* What a stack of places has executed.                                    *)

\* Texts are joined.
LEMMA TextsFacts ==
  /\ <<>> \in Texts
  /\ \A s \in Texts : s \o <<>> = s /\ <<>> \o s = s
  /\ \A s, t \in Texts : s \o t \in Texts
  /\ \A s, t, u \in Texts : (s \o t) \o u = s \o (t \o u)
<1>1. ASSUME NEW s \in Texts, NEW t \in Texts, NEW u \in Texts
      PROVE  (s \o t) \o u = s \o (t \o u)
  <2>1. s \in Seq(PacketSet) /\ t \in Seq(PacketSet) /\ u \in Seq(PacketSet)
    BY DEF Texts
  <2> QED BY <2>1, ConcatAssociative
<1>2. <<>> \in Texts /\ \A s \in Texts : s \o <<>> = s /\ <<>> \o s = s
  BY ConcatEmptySeq, EmptySeq DEF Texts
<1>3. \A s, t \in Texts : s \o t \in Texts
  BY ConcatProperties DEF Texts
<1> QED BY <1>1, <1>2, <1>3

\* What is executed is a text.
LEMMA ExecutedType ==
  ASSUME NEW n \in Nat, NEW at, NEW text, ExecutedAt(n, at, text)
  PROVE  text \in Texts
<1>1. PICK sum \in [0..n -> Texts] : sum[n] = text
  BY DEF ExecutedAt
<1> QED BY <1>1

\* The innermost place goes on by x.
LEMMA ExecutedAdvance ==
  ASSUME NEW n \in Nat, n >= 1, NEW at, NEW to, NEW text, ExecutedAt(n, at, text),
         NEW x \in Texts, Text[at[n]] \in Texts,
         \A j \in 1..(n - 1) : to[j] = at[j], Text[to[n]] = Text[at[n]] \o x
  PROVE  ExecutedAt(n, to, text \o x)
<1>1. PICK sum \in [0..n -> Texts] :
        sum[0] = <<>> /\ sum[n] = text /\ \A j \in 1..n : sum[j] = sum[j - 1] \o Text[at[j]]
  BY DEF ExecutedAt
<1> DEFINE new == [sum EXCEPT ![n] = text \o x]
<1>2. text \in Texts /\ text \o x \in Texts /\ sum[n - 1] \in Texts /\ n \in 1..n /\ n - 1 \in 0..n
  BY <1>1, TextsFacts
<1>3. text \o x = sum[n - 1] \o Text[to[n]]
  <2>1. (sum[n - 1] \o Text[at[n]]) \o x = sum[n - 1] \o (Text[at[n]] \o x)
    BY <1>2, TextsFacts
  <2>2. sum[n] = sum[n - 1] \o Text[at[n]]
    BY <1>1, <1>2
  <2> QED BY <1>1, <2>1, <2>2
<1>4. new \in [0..n -> Texts] /\ new[0] = <<>> /\ new[n] = text \o x
  BY <1>1, <1>2
<1>5. ASSUME NEW j \in 1..n PROVE new[j] = new[j - 1] \o Text[to[j]]
  <2>1. CASE j = n
    <3>1. new[n - 1] = sum[n - 1]
      BY <1>2
    <3> HIDE DEF new
    <3> QED BY <1>3, <1>4, <2>1, <3>1
  <2>2. CASE j # n
    <3>1. j \in 1..(n - 1) /\ j \in 0..n /\ j - 1 \in 0..n /\ j - 1 # n
      BY <2>2
    <3>2. new[j] = sum[j] /\ new[j - 1] = sum[j - 1]
      BY <2>2, <3>1
    <3> HIDE DEF new
    <3> QED BY <1>1, <3>1, <3>2
  <2> QED BY <2>1, <2>2
<1> HIDE DEF new
<1> QED BY <1>4, <1>5 DEF ExecutedAt

\* A place where nothing is behind joins or leaves; every other stays.
LEMMA ExecutedPush ==
  ASSUME NEW n \in Nat, NEW at, NEW to, NEW text, ExecutedAt(n, at, text),
         \A j \in 1..n : to[j] = at[j], Text[to[n + 1]] = <<>>
  PROVE  ExecutedAt(n + 1, to, text)
<1>1. PICK sum \in [0..n -> Texts] :
        sum[0] = <<>> /\ sum[n] = text /\ \A j \in 1..n : sum[j] = sum[j - 1] \o Text[at[j]]
  BY DEF ExecutedAt
<1> DEFINE new == [j \in 0..(n + 1) |-> IF j = n + 1 THEN text ELSE sum[j]]
<1>2. text \in Texts /\ text \o <<>> = text
  BY <1>1, TextsFacts
<1>3. new \in [0..(n + 1) -> Texts]
  <2>1. \A j \in 0..(n + 1) : j # n + 1 => j \in 0..n
    OBVIOUS
  <2> QED BY <1>2, <2>1
<1>4. new[0] = <<>> /\ new[n + 1] = text /\ \A j \in 0..n : new[j] = sum[j]
  BY <1>1
<1> HIDE DEF new
<1>5. ASSUME NEW j \in 1..(n + 1) PROVE new[j] = new[j - 1] \o Text[to[j]]
  <2>1. CASE j = n + 1
    <3>1. new[(n + 1) - 1] = text
      BY <1>1, <1>4
    <3> QED BY <1>2, <1>4, <2>1, <3>1
  <2>2. CASE j # n + 1
    <3>1. j \in 1..n /\ j \in 0..n /\ j - 1 \in 0..n
      BY <2>2
    <3> QED BY <1>1, <1>4, <3>1
  <2> QED BY <2>1, <2>2
<1> QED BY <1>3, <1>4, <1>5 DEF ExecutedAt

\* The innermost place goes and the next one takes its text over.
LEMMA ExecutedPop ==
  ASSUME NEW n \in Nat, n >= 1, NEW at, NEW to, NEW text, ExecutedAt(n + 1, at, text),
         Text[at[n]] \in Texts, Text[at[n + 1]] \in Texts,
         \A j \in 1..(n - 1) : to[j] = at[j],
         Text[to[n]] = Text[at[n]] \o Text[at[n + 1]]
  PROVE  ExecutedAt(n, to, text)
<1>1. PICK sum \in [0..(n + 1) -> Texts] :
        /\ sum[0] = <<>> /\ sum[n + 1] = text
        /\ \A j \in 1..(n + 1) : sum[j] = sum[j - 1] \o Text[at[j]]
  BY DEF ExecutedAt
<1> DEFINE new == [j \in 0..n |-> sum[j]]
<1>2. new \in [0..n -> Texts] /\ new[0] = <<>> /\ \A j \in 1..n : new[j] = new[j - 1] \o Text[at[j]]
  <2>1. \A j \in 0..n : j \in 0..(n + 1) /\ new[j] = sum[j]
    OBVIOUS
  <2>2. new \in [0..n -> Texts] /\ new[0] = <<>>
    BY <1>1, <2>1
  <2>3. ASSUME NEW j \in 1..n PROVE new[j] = new[j - 1] \o Text[at[j]]
    <3>1. j \in 0..n /\ j - 1 \in 0..n /\ j \in 1..(n + 1)
      OBVIOUS
    <3>2. new[j] = sum[j] /\ new[j - 1] = sum[j - 1]
      BY <2>1, <3>1
    <3> HIDE DEF new
    <3> QED BY <1>1, <3>1, <3>2
  <2> QED BY <2>2, <2>3
<1>3. ExecutedAt(n, at, new[n])
  <2> HIDE DEF new
  <2> QED BY <1>2 DEF ExecutedAt
<1>4. text = new[n] \o Text[at[n + 1]]
  <2>1. n \in 0..n /\ n + 1 \in 1..(n + 1) /\ (n + 1) - 1 = n
    OBVIOUS
  <2> QED BY <1>1, <2>1
<1> HIDE DEF new
<1> QED BY <1>3, <1>4, ExecutedAdvance

\* Only the places count.
LEMMA ExecutedSame ==
  ASSUME NEW n \in Nat, NEW at, NEW to, NEW text, ExecutedAt(n, at, text),
         \A j \in 1..n : to[j] = at[j]
  PROVE  ExecutedAt(n, to, text)
BY DEF ExecutedAt

\* One place that nobody was called from.
LEMMA ExecutedOne ==
  ASSUME NEW at, NEW text, Text[at[1]] \in Texts
  PROVE  ExecutedAt(1, at, text) <=> text = Text[at[1]]
<1>1. <<>> \o Text[at[1]] = Text[at[1]] /\ <<>> \in Texts
  BY TextsFacts
<1>2. ASSUME ExecutedAt(1, at, text) PROVE text = Text[at[1]]
  <2>1. PICK sum \in [0..1 -> Texts] :
          sum[0] = <<>> /\ sum[1] = text /\ \A j \in 1..1 : sum[j] = sum[j - 1] \o Text[at[j]]
    BY <1>2 DEF ExecutedAt
  <2>2. sum[1] = sum[0] \o Text[at[1]]
    <3>1. 1 \in 1..1 /\ 1 - 1 = 0
      OBVIOUS
    <3>2. sum[1] = sum[1 - 1] \o Text[at[1]]
      BY <2>1, <3>1
    <3> QED BY <3>1, <3>2
  <2> QED BY <1>1, <2>1, <2>2
<1>3. ASSUME text = Text[at[1]] PROVE ExecutedAt(1, at, text)
  <2> DEFINE sum == [j \in 0..1 |-> IF j = 0 THEN <<>> ELSE text]
  <2>1. sum \in [0..1 -> Texts] /\ sum[0] = <<>> /\ sum[1] = text
    BY <1>1, <1>3
  <2> HIDE DEF sum
  <2>2. ASSUME NEW j \in 1..1 PROVE sum[j] = sum[j - 1] \o Text[at[j]]
    <3>1. j = 1 /\ j - 1 = 0
      OBVIOUS
    <3>2. sum[j - 1] = <<>> /\ sum[j] = text
      BY <2>1, <3>1
    <3> QED BY <1>1, <1>3, <3>1, <3>2
  <2> QED BY <2>1, <2>2 DEF ExecutedAt
<1> QED BY <1>2, <1>3

-----------------------------------------------------------------------------
(* A part of a program is a prefix of it.                                  *)

Continues(s, t) == \E u \in Texts : t = s \o u

\* One text is the beginning of another.
LEMMA ContinuesFacts ==
  /\ \A s \in Texts : Continues(s, s)
  /\ \A s, u \in Texts : Continues(s, s \o u)
  /\ \A s \in Texts : \A t, v : Continues(s, t) /\ Continues(t, v) => Continues(s, v)
  /\ \A s, t, u \in Texts : Continues(s, t) => Continues(u \o s, u \o t)
<1>1. ASSUME NEW s \in Texts PROVE Continues(s, s)
  <2>1. s = s \o <<>> /\ <<>> \in Texts
    BY TextsFacts
  <2> QED BY <2>1 DEF Continues
<1>2. \A s, u \in Texts : Continues(s, s \o u)
  BY DEF Continues
<1>3. ASSUME NEW s \in Texts, NEW t, NEW v, Continues(s, t), Continues(t, v)
      PROVE  Continues(s, v)
  <2>1. PICK x \in Texts : t = s \o x
    BY <1>3 DEF Continues
  <2>2. PICK y \in Texts : v = t \o y
    BY <1>3 DEF Continues
  <2>3. (s \o x) \o y = s \o (x \o y) /\ x \o y \in Texts
    BY TextsFacts
  <2> QED BY <2>1, <2>2, <2>3 DEF Continues
<1>4. ASSUME NEW s \in Texts, NEW t \in Texts, NEW u \in Texts, Continues(s, t)
      PROVE  Continues(u \o s, u \o t)
  <2>1. PICK x \in Texts : t = s \o x
    BY <1>4 DEF Continues
  <2>2. (u \o s) \o x = u \o (s \o x)
    BY TextsFacts
  <2> QED BY <2>1, <2>2 DEF Continues
<1> QED BY <1>1, <1>2, <1>3, <1>4

\* The same in terms of IsPrefix.
LEMMA ContinuesIsPrefix ==
  ASSUME NEW s \in Texts, NEW t \in Texts, Continues(s, t)
  PROVE  IsPrefix(s, t)
<1>1. PICK u \in Texts : t = s \o u
  BY DEF Continues
<1>2. /\ Len(s) \in Nat /\ Len(u) \in Nat /\ Len(t) = Len(s) + Len(u)
      /\ \A i \in 1..Len(s) : t[i] = s[i]
  BY <1>1, ConcatProperties, LenProperties DEF Texts
<1>3. SubSeq(s, 1, Len(s)) = SubSeq(t, 1, Len(s))
  <2>1. SubSeq(s, 1, Len(s)) = s
    BY SubSeqFull DEF Texts
  <2>2. Len(s) \in 0..Len(t)
    BY <1>2
  <2>3. /\ SubSeq(t, 1, Len(s)) \in Texts /\ Len(SubSeq(t, 1, Len(s))) = Len(s)
        /\ \A i \in 1..Len(s) : SubSeq(t, 1, Len(s))[i] = t[i]
    <3>1. \A i \in 1..Len(s) : t[i] \in PacketSet
      BY <1>2, <2>2, ElementOfSeq DEF Texts
    <3> QED BY <1>2, <3>1, SubSeqProperties DEF Texts
  <2> QED BY <1>2, <2>1, <2>3, SeqEqual DEF Texts
<1> QED BY <1>2, <1>3 DEF IsPrefix

-----------------------------------------------------------------------------
(* Stacks of cursors.                                                      *)

\* The cursors of a stack.
LEMMA StackFacts ==
  ASSUME NEW p, NEW stack, StackOK(p, stack)
  PROVE  /\ stack \in Seq(Cursor) /\ Len(stack) \in Nat /\ DOMAIN stack = 1..Len(stack)
         /\ stack # <<>> <=> Len(stack) >= 1
         /\ \A j \in 1..Len(stack) :
              /\ stack[j] \in Cursor /\ stack[j].buf \in DOMAIN Buffers
              /\ stack[j].deferred \in BOOLEAN
              /\ stack[j].pos \in 1..(Len(Buffers[stack[j].buf]) + 1)
              /\ [buf |-> stack[j].buf, pos |-> stack[j].pos] \in Places
              /\ At(stack, j) \in Places /\ Text[At(stack, j)] \in Texts
              /\ j < Len(stack) \/ ~stack[j].deferred =>
                   At(stack, j) = [buf |-> stack[j].buf, pos |-> stack[j].pos]
              /\ j = Len(stack) /\ stack[j].deferred =>
                   At(stack, j) = [buf |-> stack[j].buf, pos |-> stack[j].pos + 1]
<1>1. stack \in Seq(Cursor)
  BY DEF StackOK
<1>2. Len(stack) \in Nat /\ DOMAIN stack = 1..Len(stack) /\ (stack # <<>> <=> Len(stack) >= 1)
  BY <1>1
<1>3. ASSUME NEW j \in 1..Len(stack)
      PROVE  /\ stack[j] \in Cursor /\ stack[j].buf \in DOMAIN Buffers
             /\ stack[j].deferred \in BOOLEAN
             /\ stack[j].pos \in 1..(Len(Buffers[stack[j].buf]) + 1)
             /\ [buf |-> stack[j].buf, pos |-> stack[j].pos] \in Places
             /\ At(stack, j) \in Places /\ Text[At(stack, j)] \in Texts
             /\ j < Len(stack) \/ ~stack[j].deferred =>
                  At(stack, j) = [buf |-> stack[j].buf, pos |-> stack[j].pos]
             /\ j = Len(stack) /\ stack[j].deferred =>
                  At(stack, j) = [buf |-> stack[j].buf, pos |-> stack[j].pos + 1]
  <2>0. (j < Len(stack) \/ j = Len(stack)) /\ (j < Len(stack) => j # Len(stack))
    <3> DEFINE n == Len(stack)
    <3>1. n \in Nat /\ j \in 1..n
      BY <1>2
    <3> HIDE DEF n
    <3>2. (j < n \/ j = n) /\ (j < n => j # n)
      BY <3>1
    <3> QED BY <3>2 DEF n
  <2>1. stack[j] \in Cursor
    BY <1>1, ElementOfSeq
  <2>2. /\ stack[j].buf \in DOMAIN Buffers /\ stack[j].deferred \in BOOLEAN
        /\ stack[j].pos \in Nat /\ stack[j].pos >= 1
    BY <2>1 DEF Cursor
  <2>3. Len(Buffers[stack[j].buf]) \in Nat
    BY <2>2, BufferFacts
  <2>4. /\ stack[j].pos <= Len(Buffers[stack[j].buf]) + 1
        /\ stack[j].deferred => stack[j].pos <= Len(Buffers[stack[j].buf])
    BY <1>2 DEF StackOK, CallAt
  <2>5. stack[j].pos \in 1..(Len(Buffers[stack[j].buf]) + 1)
    BY <2>2, <2>3, <2>4
  <2>6. stack[j].deferred => stack[j].pos + 1 \in 1..(Len(Buffers[stack[j].buf]) + 1)
    BY <2>2, <2>3, <2>4
  <2>7. /\ [buf |-> stack[j].buf, pos |-> stack[j].pos] \in Places
        /\ stack[j].deferred => [buf |-> stack[j].buf, pos |-> stack[j].pos + 1] \in Places
    BY <2>2, <2>5, <2>6, PlaceFacts
  <2>8. /\ j < Len(stack) \/ ~stack[j].deferred =>
             At(stack, j) = [buf |-> stack[j].buf, pos |-> stack[j].pos]
        /\ j = Len(stack) /\ stack[j].deferred =>
             At(stack, j) = [buf |-> stack[j].buf, pos |-> stack[j].pos + 1]
    <3>1. stack[j].pos + 0 = stack[j].pos
      BY <2>2
    <3> QED BY <2>0, <3>1 DEF At
  <2>9. At(stack, j) \in Places
    <3>1. CASE j < Len(stack) \/ ~stack[j].deferred
      BY <2>7, <2>8, <3>1
    <3>2. CASE j = Len(stack) /\ stack[j].deferred
      BY <2>7, <2>8, <3>2
    <3> QED BY <2>0, <3>1, <3>2
  <2> QED BY <2>1, <2>2, <2>5, <2>7, <2>8, <2>9, TextUnfolds
<1> QED BY <1>1, <1>2, <1>3

\* A cursor before the end; what its packet comes to lies before the next place.
LEMMA CursorFacts ==
  ASSUME NEW c \in Cursor, c.pos <= Len(Buffers[c.buf])
  PROVE  /\ c.buf \in DOMAIN Buffers /\ c.pos \in 1..Len(Buffers[c.buf]) /\ c.pos + 1 \in Nat \ {0}
         /\ c.pos + 1 <= Len(Buffers[c.buf]) + 1
         /\ Buffers[c.buf][c.pos] \in PacketSet
         /\ Text[[buf |-> c.buf, pos |-> c.pos + 1]]
              = Text[[buf |-> c.buf, pos |-> c.pos]] \o PacketText(Text, Buffers[c.buf][c.pos])
         /\ Buffers[c.buf][c.pos].op = "call" =>
              /\ Buffers[c.buf][c.pos].arg \in DOMAIN Buffers
              /\ PacketText(Text, Buffers[c.buf][c.pos]) = Text[EndOf(Buffers[c.buf][c.pos].arg)]
         /\ Buffers[c.buf][c.pos].op # "call" =>
              PacketText(Text, Buffers[c.buf][c.pos]) = <<Buffers[c.buf][c.pos]>>
<1>1. c.buf \in DOMAIN Buffers /\ c.pos \in Nat /\ c.pos >= 1
  BY DEF Cursor
<1>2. Len(Buffers[c.buf]) \in Nat
  BY <1>1, BufferFacts
<1>3. c.pos \in 1..Len(Buffers[c.buf]) /\ c.pos + 1 \in Nat \ {0}
        /\ c.pos + 1 <= Len(Buffers[c.buf]) + 1
  BY <1>1, <1>2
<1>4. /\ Buffers[c.buf][c.pos] \in PacketSet
      /\ Text[[buf |-> c.buf, pos |-> c.pos + 1]]
           = Text[[buf |-> c.buf, pos |-> c.pos]] \o PacketText(Text, Buffers[c.buf][c.pos])
  BY <1>1, <1>3, BufferFacts, TextFacts
<1>5. Buffers[c.buf][c.pos].op = "call" => Buffers[c.buf][c.pos].arg \in DOMAIN Buffers
  BY <1>1, <1>3, CallFacts
<1> QED BY <1>1, <1>3, <1>4, <1>5 DEF PacketText

\* A buffer's text goes on from each of its places.
LEMMA TextContinues ==
  ASSUME NEW b \in DOMAIN Buffers, NEW i \in 1..(Len(Buffers[b]) + 1)
  PROVE  Continues(Text[[buf |-> b, pos |-> i]], Text[EndOf(b)])
<1> DEFINE n == Len(Buffers[b])
           T(k) == Text[[buf |-> b, pos |-> k]]
           Bad == {d \in Nat : \E k \in 1..(n + 1) : k + d = n + 1 /\ ~Continues(T(k), T(n + 1))}
<1>1. n \in Nat
  BY BufferFacts
<1> HIDE DEF n
<1>2. \A k \in 1..(n + 1) : T(k) \in Texts
  BY PlaceFacts, TextUnfolds DEF n
<1>3. ASSUME NEW k \in 1..n PROVE Continues(T(k), T(k + 1))
  <2>1. T(k + 1) = T(k) \o PacketText(Text, Buffers[b][k])
          /\ PacketText(Text, Buffers[b][k]) \in Texts
    BY TextFacts DEF n
  <2>2. T(k) \in Texts
    BY <1>1, <1>2
  <2>3. \A u \in Texts : Continues(T(k), T(k) \o u)
    BY <2>2, ContinuesFacts
  <2> HIDE DEF T
  <2> QED BY <2>1, <2>3
<1> HIDE DEF T
<1>4. SUFFICES ASSUME Bad # {} PROVE FALSE
  <2>1. i \in 1..(n + 1) /\ (n + 1) - i \in Nat /\ i + ((n + 1) - i) = n + 1
    BY <1>1 DEF n
  <2>2. Continues(T(i), T(n + 1))
    <3>1. (n + 1) - i \notin Bad
      BY <1>4
    <3> QED BY <2>1, <3>1
  <2> QED BY <2>2 DEF T, EndOf, n
<1>5. PICK d \in Bad : \A e \in Bad : d <= e
  <2>1. Bad \subseteq Nat
    OBVIOUS
  <2> HIDE DEF Bad
  <2> QED BY <1>4, <2>1, LeastNat
<1>6. PICK k \in 1..(n + 1) : k + d = n + 1 /\ ~Continues(T(k), T(n + 1))
  OBVIOUS
<1>7. k # n + 1
  BY <1>1, <1>2, <1>6, ContinuesFacts
<1>8. k \in 1..n /\ k + 1 \in 1..(n + 1) /\ d - 1 \in Nat /\ (k + 1) + (d - 1) = n + 1
  BY <1>1, <1>6, <1>7
<1>9. Continues(T(k + 1), T(n + 1))
  <2>1. d - 1 \notin Bad
    <3>1. d \in Nat
      OBVIOUS
    <3> HIDE DEF Bad
    <3> QED BY <1>5, <1>8, <3>1
  <2> QED BY <1>8, <2>1
<1>10. T(k) \in Texts
  BY <1>2
<1> QED BY <1>3, <1>6, <1>8, <1>9, <1>10, ContinuesFacts

\* What a stack has executed, the outermost buffer goes on from.
LEMMA ExecutedContinues ==
  ASSUME NEW p, NEW stack, StackOK(p, stack), stack # <<>>, NEW text, Executed(stack, text)
  PROVE  text \in Texts /\ Continues(text, Text[EndOf(stack[1].buf)])
<1> DEFINE n == Len(stack)
           at == [j \in 1..n |-> At(stack, j)]
           End(j) == Text[EndOf(stack[j].buf)]
<1>1. n \in Nat /\ n >= 1
  BY StackFacts
<1>2. PICK sum \in [0..n -> Texts] :
        sum[0] = <<>> /\ sum[n] = text /\ \A j \in 1..n : sum[j] = sum[j - 1] \o Text[at[j]]
  BY DEF Executed, ExecutedAt
<1>3. \A j \in 1..n : sum[j] = sum[j - 1] \o Text[At(stack, j)]
  BY <1>2
<1>4. \A j \in 1..n : /\ stack[j] \in Cursor /\ stack[j].buf \in DOMAIN Buffers
                      /\ At(stack, j) \in Places /\ Text[At(stack, j)] \in Texts
                      /\ At(stack, j).buf = stack[j].buf
                      /\ End(j) \in Texts /\ sum[j] \in Texts /\ sum[j - 1] \in Texts
  <2> TAKE j \in 1..n
  <2>1. /\ stack[j] \in Cursor /\ stack[j].buf \in DOMAIN Buffers
        /\ At(stack, j) \in Places /\ Text[At(stack, j)] \in Texts
    BY StackFacts
  <2>2. At(stack, j).buf = stack[j].buf
    BY DEF At
  <2>3. j \in 0..n /\ j - 1 \in 0..n
    BY <1>1
  <2>4. End(j) \in Texts
    BY <2>1, TextFacts
  <2> QED BY <2>1, <2>2, <2>3, <2>4
<1> HIDE DEF at
<1> DEFINE Fine(j) == Continues(text, sum[j - 1] \o End(j))
           Bad == {d \in Nat : \E j \in 1..n : j + d = n /\ ~Fine(j)}
<1>5. \A j \in 1..n : Continues(Text[At(stack, j)], End(j))
  <2> TAKE j \in 1..n
  <2>1. /\ At(stack, j).pos \in 1..(Len(Buffers[stack[j].buf]) + 1)
        /\ At(stack, j) = [buf |-> stack[j].buf, pos |-> At(stack, j).pos]
    BY <1>4, PlaceFacts
  <2> QED BY <1>4, <2>1, TextContinues
<1>6. Fine(n)
  <2>1. n \in 1..n /\ text = sum[n - 1] \o Text[At(stack, n)]
    BY <1>1, <1>2, <1>3
  <2> HIDE DEF n, End
  <2> QED BY <1>4, <1>5, <2>1, ContinuesFacts
<1>7. ASSUME NEW j \in 1..n, j # n, Fine(j + 1) PROVE Fine(j)
  <2> DEFINE c == stack[j]
             past == [buf |-> c.buf, pos |-> c.pos + 1]
  <2>1. j \in DOMAIN stack /\ j < Len(stack) /\ j \in 1..(Len(stack) - 1) /\ j + 1 \in 1..n
          /\ (j + 1) - 1 = j
    BY <1>1, <1>7, StackFacts
  <2>2. CallAt(c) /\ Buffers[c.buf][c.pos].arg = stack[j + 1].buf
    BY <2>1 DEF StackOK
  <2>3. c \in Cursor /\ c.pos <= Len(Buffers[c.buf]) /\ Buffers[c.buf][c.pos].op = "call"
    BY <1>4, <2>2 DEF CallAt
  <2>4. Text[past] = Text[[buf |-> c.buf, pos |-> c.pos]] \o End(j + 1)
    BY <2>2, <2>3, CursorFacts
  <2>5. At(stack, j) = [buf |-> c.buf, pos |-> c.pos]
    BY <2>1, StackFacts
  <2>6. Continues(Text[past], End(j)) /\ Text[past] \in Texts
    <3>1. /\ c.buf \in DOMAIN Buffers /\ c.pos + 1 \in 1..(Len(Buffers[c.buf]) + 1)
      <4> HIDE DEF c
      <4>1. c.buf \in DOMAIN Buffers /\ c.pos \in 1..Len(Buffers[c.buf])
        BY <2>3, CursorFacts
      <4>2. Len(Buffers[c.buf]) \in Nat
        BY <4>1, BufferFacts
      <4> QED BY <4>1, <4>2
    <3>2. past \in Places
      BY <3>1, PlaceFacts
    <3> QED BY <3>1, <3>2, TextContinues, TextUnfolds
  <2> HIDE DEF c, past, End
  <2>7. sum[j] \o End(j + 1) = sum[j - 1] \o Text[past]
    <3>1. sum[j] = sum[j - 1] \o Text[At(stack, j)]
      BY <1>3
    <3>2. sum[j - 1] \in Texts /\ Text[At(stack, j)] \in Texts /\ End(j + 1) \in Texts
      BY <1>4, <2>1
    <3>3. (sum[j - 1] \o Text[At(stack, j)]) \o End(j + 1)
            = sum[j - 1] \o (Text[At(stack, j)] \o End(j + 1))
      BY <3>2, TextsFacts
    <3> QED BY <2>4, <2>5, <3>1, <3>3
  <2>8. Continues(text, sum[j - 1] \o Text[past])
    BY <1>7, <2>1, <2>7
  <2>9. Continues(sum[j - 1] \o Text[past], sum[j - 1] \o End(j))
    BY <1>4, <2>6, ContinuesFacts
  <2>10. text \in Texts
    BY <1>1, <1>2
  <2> QED BY <2>8, <2>9, <2>10, ContinuesFacts
<1> HIDE DEF Fine
<1>8. Fine(1)
  <2>1. SUFFICES ASSUME Bad # {} PROVE FALSE
    <3>1. 1 \in 1..n /\ n - 1 \in Nat /\ 1 + (n - 1) = n
      BY <1>1
    <3>2. n - 1 \notin Bad
      BY <2>1
    <3> QED BY <3>1, <3>2
  <2>2. PICK d \in Bad : \A e \in Bad : d <= e
    <3>1. Bad \subseteq Nat
      OBVIOUS
    <3> HIDE DEF Bad
    <3> QED BY <2>1, <3>1, LeastNat
  <2>3. PICK j \in 1..n : j + d = n /\ ~Fine(j)
    OBVIOUS
  <2>4. j # n
    BY <1>6, <2>3
  <2>5. d \in Nat /\ j + 1 \in 1..n /\ d - 1 \in Nat /\ (j + 1) + (d - 1) = n
    BY <1>1, <2>3, <2>4
  <2>6. d - 1 \notin Bad
    <3> HIDE DEF Bad
    <3> QED BY <2>2, <2>5
  <2>7. Fine(j + 1)
    BY <2>5, <2>6
  <2> QED BY <1>7, <2>3, <2>4, <2>7
<1>9. sum[1 - 1] \o End(1) = End(1)
  <2>1. 1 \in 1..n
    BY <1>1
  <2>2. End(1) \in Texts /\ 1 - 1 = 0
    BY <1>4, <2>1
  <2> HIDE DEF End
  <2> QED BY <1>2, <2>2, TextsFacts
<1>10. text \in Texts
  BY <1>1, <1>2
<1> QED BY <1>8, <1>9, <1>10 DEF Fine

-----------------------------------------------------------------------------
(* What the interpreter does to a stack.                                   *)

\* Below cursor n two stacks are the same.
SameBelow(n, s, t) == \A j \in 1..(n - 1) : s[j] = t[j] /\ At(s, j) = At(t, j)

\* A cursor is moved past its packet, which is the innermost one's.
LEMMA PastStep ==
  ASSUME NEW p, NEW stack, StackOK(p, stack), stack # <<>>,
         stack[Len(stack)].pos <= Len(Buffers[stack[Len(stack)].buf]),
         NEW next, next = Past(stack, Len(stack))
  PROVE  /\ StackOK(p, next) /\ Len(next) = Len(stack) /\ next # <<>>
         /\ SameBelow(Len(stack), next, stack)
         /\ next[Len(stack)].buf = stack[Len(stack)].buf
         /\ next[Len(stack)].pos = stack[Len(stack)].pos + 1
         /\ ~next[Len(stack)].deferred
         /\ At(next, Len(stack))
              = [buf |-> stack[Len(stack)].buf, pos |-> stack[Len(stack)].pos + 1]
<1> DEFINE n == Len(stack)
           c == stack[n]
           d == [c EXCEPT !.pos = c.pos + 1, !.deferred = FALSE]
<1>1. n \in Nat /\ n >= 1 /\ stack \in Seq(Cursor) /\ DOMAIN stack = 1..n
  BY StackFacts
<1>2. c \in Cursor /\ c.buf \in DOMAIN Buffers /\ n \in 1..n
  <2>1. n \in 1..n
    BY <1>1
  <2>2. stack[Len(stack)] \in Cursor /\ stack[Len(stack)].buf \in DOMAIN Buffers
    <3> HIDE DEF n
    <3> QED BY <2>1, StackFacts DEF n
  <2> QED BY <2>1, <2>2
<1>3. c.pos + 1 \in Nat \ {0} /\ c.pos + 1 <= Len(Buffers[c.buf]) + 1
  <2> HIDE DEF c
  <2> QED BY <1>2, CursorFacts DEF c
<1>4. d \in Cursor /\ d.buf = c.buf /\ d.pos = c.pos + 1 /\ d.deferred = FALSE
  BY <1>2, <1>3 DEF Cursor
<1>5. next = [stack EXCEPT ![n] = d]
  BY DEF Past
<1> HIDE DEF d
<1>6. next \in Seq(Cursor) /\ Len(next) = n /\ DOMAIN next = 1..n
  <2> HIDE DEF n, c
  <2>1. [stack EXCEPT ![n] = d] \in Seq(Cursor) /\ Len([stack EXCEPT ![n] = d]) = Len(stack)
    BY <1>1, <1>2, <1>4, ExceptSeq DEF n
  <2> QED BY <1>1, <1>5, <2>1 DEF n
<1>7. next[n] = d /\ \A j \in 1..n : j # n => next[j] = stack[j]
  BY <1>1, <1>2, <1>5
<1> HIDE DEF n
<1>8. \A j \in 1..(n - 1) : j \in 1..n /\ j # n /\ j < n /\ next[j] = stack[j]
  BY <1>1, <1>7
<1>9. next # <<>> /\ (1 = n \/ 1 \in 1..(n - 1))
  BY <1>1, <1>6
<1>10. \A j \in 1..n : j = n \/ j \in 1..(n - 1)
  BY <1>1
<1>11. next # <<>> => next[1].buf = Programs[p].buf
  <2>1. next[1].buf = stack[1].buf
    <3>1. CASE 1 = n
      BY <1>4, <1>7, <3>1
    <3>2. CASE 1 \in 1..(n - 1)
      BY <1>8, <3>2
    <3> QED BY <1>9, <3>1, <3>2
  <2> QED BY <2>1 DEF StackOK
<1>12. ASSUME NEW j \in 1..n
       PROVE  /\ next[j].pos <= Len(Buffers[next[j].buf]) + 1
              /\ j < n \/ next[j].deferred => CallAt(next[j])
  <2>1. CASE j = n
    <3>1. ~(j < n)
      BY <1>1, <2>1
    <3> QED BY <1>3, <1>4, <1>7, <2>1, <3>1
  <2>2. CASE j \in 1..(n - 1)
    BY <1>1, <1>8, <2>2 DEF StackOK, n
  <2> QED BY <1>10, <2>1, <2>2
<1>13. ASSUME NEW j \in 1..(n - 1)
       PROVE  Buffers[next[j].buf][next[j].pos].arg = next[j + 1].buf
  <2>1. Buffers[stack[j].buf][stack[j].pos].arg = stack[j + 1].buf
    BY DEF StackOK, n
  <2>2. next[j + 1].buf = stack[j + 1].buf
    <3>1. CASE j + 1 = n
      BY <1>4, <1>7, <3>1
    <3>2. CASE j + 1 # n
      <4>1. j + 1 \in 1..(n - 1)
        BY <1>1, <3>2
      <4> QED BY <1>8, <4>1
    <3> QED BY <3>1, <3>2
  <2> QED BY <1>8, <2>1, <2>2
<1>14. StackOK(p, next)
  BY <1>6, <1>11, <1>12, <1>13 DEF StackOK
<1>15. \A j \in 1..(n - 1) : At(next, j) = At(stack, j)
  BY <1>6, <1>8 DEF At, n
<1>16. At(next, n) = [buf |-> c.buf, pos |-> c.pos + 1]
  <2>1. n \in 1..Len(next) /\ ~next[n].deferred
    BY <1>2, <1>4, <1>6, <1>7
  <2>2. At(next, n) = [buf |-> next[n].buf, pos |-> next[n].pos]
    BY <1>14, <2>1, StackFacts
  <2> QED BY <1>4, <1>7, <2>2
<1>17. SameBelow(n, next, stack)
  BY <1>8, <1>15 DEF SameBelow
<1> QED BY <1>4, <1>6, <1>7, <1>9, <1>14, <1>16, <1>17 DEF n

\* The innermost cursor goes on: the calls under way stay so.
LEMMA PastUnderWay ==
  ASSUME NEW p, NEW stack, StackOK(p, stack), stack # <<>>,
         stack[Len(stack)].pos <= Len(Buffers[stack[Len(stack)].buf]),
         NEW base, UnderWay(stack, base)
  PROVE  UnderWay(Past(stack, Len(stack)), base)
<1> DEFINE n == Len(stack)
           next == Past(stack, n)
<1>1. n \in Nat /\ n >= 1 /\ DOMAIN stack = 1..n
  BY StackFacts
<1>2. /\ StackOK(p, next) /\ Len(next) = n /\ next # <<>>
      /\ \A j \in 1..(n - 1) : next[j] = stack[j]
      /\ ~next[n].deferred
  <2>1. next = Past(stack, Len(stack))
    OBVIOUS
  <2> HIDE DEF next
  <2> QED BY <2>1, PastStep DEF SameBelow
<1>3. DOMAIN next = 1..n
  BY <1>2, StackFacts
<1> HIDE DEF next
<1>4. base \in 0..n /\ base >= 1 /\ \A j \in 1..n : /\ j < base => stack[j].deferred
                                                    /\ stack[j].deferred
                                                         => j < base \/ (j = base /\ j = n)
  BY <1>1 DEF UnderWay
<1> HIDE DEF n
<1>5. ASSUME NEW j \in 1..n
      PROVE  /\ j < base => next[j].deferred
             /\ next[j].deferred => j < base \/ (j = base /\ j = n)
  <2>1. CASE j = n
    <3>1. ~(j < base)
      BY <1>1, <1>4, <2>1
    <3> QED BY <1>2, <2>1, <3>1
  <2>2. CASE j # n
    <3>1. j \in 1..(n - 1)
      BY <1>1, <2>2
    <3> QED BY <1>2, <1>4, <3>1
  <2> QED BY <2>1, <2>2
<1> QED BY <1>2, <1>3, <1>4, <1>5 DEF UnderWay, next, n

\* Text executed once the innermost packet took effect, or was passed over.
LEMMA PastExecuted ==
  ASSUME NEW p, NEW stack, StackOK(p, stack), stack # <<>>,
         stack[Len(stack)].pos <= Len(Buffers[stack[Len(stack)].buf]),
         NEW text, Executed(stack, text)
  PROVE  LET c == stack[Len(stack)] packet == Buffers[c.buf][c.pos] IN
         /\ c.deferred => Executed(Past(stack, Len(stack)), text)
         /\ ~c.deferred /\ packet.op # "call" =>
              Executed(Past(stack, Len(stack)), Append(text, packet))
<1> DEFINE n == Len(stack)
           c == stack[n]
           packet == Buffers[c.buf][c.pos]
           next == Past(stack, n)
           at == [j \in 1..n |-> At(stack, j)]
           to == [j \in 1..n |-> At(next, j)]
<1>1. n \in Nat /\ n >= 1 /\ n \in 1..n
  BY StackFacts
<1>2. c \in Cursor /\ Text[At(stack, n)] \in Texts
  BY <1>1, StackFacts
<1>3. /\ Len(next) = n
      /\ \A j \in 1..(n - 1) : At(next, j) = At(stack, j)
      /\ At(next, n) = [buf |-> c.buf, pos |-> c.pos + 1]
  <2>1. next = Past(stack, Len(stack)) /\ n = Len(stack) /\ c = stack[Len(stack)]
    OBVIOUS
  <2> HIDE DEF next, n, c, at, to, packet
  <2>2. /\ Len(next) = Len(stack)
        /\ SameBelow(Len(stack), next, stack)
        /\ At(next, Len(stack))
             = [buf |-> stack[Len(stack)].buf, pos |-> stack[Len(stack)].pos + 1]
    BY <2>1, PastStep
  <2> QED BY <2>1, <2>2 DEF SameBelow
<1>4. c.deferred => At(stack, n) = [buf |-> c.buf, pos |-> c.pos + 1]
  BY <1>1, StackFacts
<1>5. ~c.deferred => At(stack, n) = [buf |-> c.buf, pos |-> c.pos]
  BY <1>1, StackFacts
<1>6. ExecutedAt(n, at, text)
  BY DEF Executed
<1>7. \A s : Executed(next, s) <=> ExecutedAt(n, to, s)
  <2> HIDE DEF next
  <2> QED BY <1>3 DEF Executed
<1>8. \A j \in 1..n : at[j] = At(stack, j) /\ to[j] = At(next, j)
  OBVIOUS
<1>p. /\ packet \in PacketSet
      /\ Text[[buf |-> c.buf, pos |-> c.pos + 1]]
           = Text[[buf |-> c.buf, pos |-> c.pos]] \o PacketText(Text, packet)
      /\ packet.op # "call" => PacketText(Text, packet) = <<packet>>
  <2>1. c.pos <= Len(Buffers[c.buf])
    OBVIOUS
  <2> HIDE DEF c
  <2> QED BY <1>2, <2>1, CursorFacts
<1> HIDE DEF next, at, to, packet
<1>9. \A j \in 1..(n - 1) : to[j] = at[j]
  <2>1. \A j \in 1..(n - 1) : j \in 1..n
    BY <1>1
  <2> QED BY <1>3, <1>8, <2>1
<1>10. ASSUME c.deferred PROVE Executed(next, text)
  <2>1. to[n] = at[n]
    BY <1>1, <1>3, <1>4, <1>8, <1>10
  <2>2. \A j \in 1..n : to[j] = at[j]
    <3>1. \A j \in 1..n : j = n \/ j \in 1..(n - 1)
      BY <1>1
    <3> QED BY <1>9, <2>1, <3>1
  <2> QED BY <1>1, <1>6, <1>7, <2>2, ExecutedSame
<1>11. ASSUME ~c.deferred, packet.op # "call" PROVE Executed(next, Append(text, packet))
  <2> DEFINE x == <<packet>>
  <2>1. x \in Texts
    BY <1>p DEF Texts
  <2>2. Text[to[n]] = Text[at[n]] \o x
    BY <1>1, <1>3, <1>5, <1>8, <1>11, <1>p
  <2>3. Text[at[n]] \in Texts
    BY <1>1, <1>2, <1>8
  <2>4. text \in Texts
    BY <1>1, <1>6, ExecutedType
  <2>5. Append(text, packet) = text \o x
    BY <1>p, <2>4, AppendIsConcat DEF Texts
  <2> HIDE DEF x, n
  <2>6. ExecutedAt(n, to, text \o x)
    BY <1>1, <1>6, <1>9, <2>1, <2>2, <2>3, ExecutedAdvance
  <2> QED BY <1>7, <2>5, <2>6
<1> QED BY <1>10, <1>11 DEF next, packet

\* The parts of StackOK, for a stack of m cursors.
CursorsOK(m, s) ==
  \A j \in 1..m : /\ s[j].pos <= Len(Buffers[s[j].buf]) + 1
                  /\ j < m \/ s[j].deferred => CallAt(s[j])
CallsOK(m, s) == \A j \in 1..(m - 1) : Buffers[s[j].buf][s[j].pos].arg = s[j + 1].buf

\* StackOK, from its parts.
LEMMA StackIsOK ==
  ASSUME NEW p, NEW m \in Nat, NEW s \in Seq(Cursor), Len(s) = m, s[1].buf = Programs[p].buf,
         CursorsOK(m, s), CallsOK(m, s)
  PROVE  StackOK(p, s)
<1>1. DOMAIN s = 1..m
  OBVIOUS
<1> QED BY <1>1 DEF StackOK, CursorsOK, CallsOK

\* A call: the callee's cursor on top.
LEMMA TextPushStep ==
  ASSUME NEW p, NEW stack, StackOK(p, stack), NEW n, n = Len(stack), n >= 1,
         NEW c, c = stack[n], ~c.deferred, CallAt(c),
         NEW base, UnderWay(stack, base), NEW text, Executed(stack, text),
         NEW new, new = [buf |-> Buffers[c.buf][c.pos].arg, pos |-> 1, deferred |-> FALSE],
         NEW next, next = Append(stack, new)
  PROVE  StackOK(p, next) /\ UnderWay(next, base) /\ Executed(next, text) /\ next # <<>>
<1>1. n \in Nat /\ n \in 1..n /\ n + 1 \in Nat /\ stack \in Seq(Cursor) /\ DOMAIN stack = 1..n
  <2>1. Len(stack) \in Nat /\ stack \in Seq(Cursor) /\ DOMAIN stack = 1..Len(stack)
    BY StackFacts
  <2> QED BY <2>1
<1>2. c \in Cursor
  BY <1>1, StackFacts
<1>3. Buffers[c.buf][c.pos].arg \in DOMAIN Buffers
  BY <1>2, CursorFacts DEF CallAt
<1>4. new \in Cursor /\ new.buf \in DOMAIN Buffers /\ new.pos = 1 /\ ~new.deferred
  BY <1>3 DEF Cursor
<1>5. /\ next \in Seq(Cursor) /\ Len(next) = n + 1 /\ DOMAIN next = 1..(n + 1)
      /\ next[n + 1] = new /\ \A j \in 1..n : next[j] = stack[j]
  BY <1>1, <1>4
<1>6. /\ next # <<>> /\ 1 \in 1..n
      /\ \A j \in 1..(n + 1) : j = n + 1 \/ j \in 1..n
      /\ \A j \in 1..n : j < n + 1 /\ j # n + 1 /\ j \in 1..(n + 1) /\ (j = n \/ j \in 1..(n - 1))
      /\ \A j \in 1..(n - 1) : j < n /\ j \in 1..n /\ j + 1 \in 1..n
  BY <1>1, <1>5
<1>7. ASSUME NEW j \in 1..(n + 1)
      PROVE  /\ next[j].pos <= Len(Buffers[next[j].buf]) + 1
             /\ j < n + 1 \/ next[j].deferred => CallAt(next[j])
  <2>1. CASE j = n + 1
    <3>1. Len(Buffers[new.buf]) \in Nat
      BY <1>4, BufferFacts
    <3>2. new.pos <= Len(Buffers[new.buf]) + 1
      <4> DEFINE l == Len(Buffers[new.buf])
      <4>1. l \in Nat
        BY <3>1
      <4> HIDE DEF l
      <4>2. 1 <= l + 1
        BY <4>1
      <4>3. new.pos = 1
        BY <1>4
      <4> QED BY <4>2, <4>3 DEF l
    <3>3. ~(n + 1 < n + 1)
      BY <1>1
    <3> QED BY <1>4, <1>5, <2>1, <3>2, <3>3
  <2>2. CASE j \in 1..n
    <3>1. next[j] = stack[j]
      BY <1>5, <2>2
    <3>2. stack[j].pos <= Len(Buffers[stack[j].buf]) + 1
      BY <1>1, <2>2 DEF StackOK
    <3>3. CallAt(stack[j])
      BY <1>1, <1>6, <2>2 DEF StackOK
    <3> QED BY <3>1, <3>2, <3>3
  <2> QED BY <1>6, <2>1, <2>2
<1>8. ASSUME NEW j \in 1..((n + 1) - 1)
      PROVE  Buffers[next[j].buf][next[j].pos].arg = next[j + 1].buf
  <2>1. j \in 1..n
    BY <1>1
  <2>2. CASE j = n
    BY <1>4, <1>5, <2>1, <2>2
  <2>3. CASE j \in 1..(n - 1)
    <3>1. next[j] = stack[j] /\ next[j + 1] = stack[j + 1]
      BY <1>5, <1>6, <2>1, <2>3
    <3> QED BY <2>3, <3>1 DEF StackOK
  <2> QED BY <1>6, <2>1, <2>2, <2>3
<1>9. StackOK(p, next)
  <2>1. next[1].buf = Programs[p].buf
    BY <1>1, <1>5, <1>6 DEF StackOK
  <2>2. CursorsOK(n + 1, next) /\ CallsOK(n + 1, next)
    BY <1>7, <1>8 DEF CursorsOK, CallsOK
  <2> QED BY <1>1, <1>5, <2>1, <2>2, StackIsOK
<1>10. UnderWay(next, base)
  <2>1. base \in 0..n /\ base >= 1 /\ \A j \in 1..n : /\ j < base => stack[j].deferred
                                                      /\ stack[j].deferred
                                                           => j < base \/ (j = base /\ j = n)
    BY <1>1 DEF UnderWay
  <2>2. base \in 0..(n + 1)
    BY <1>1, <2>1
  <2>3. ASSUME NEW j \in 1..(n + 1)
        PROVE  /\ j < base => next[j].deferred
               /\ next[j].deferred => j < base \/ (j = base /\ j = n + 1)
    <3>1. CASE j = n + 1
      <4>1. ~(j < base)
        BY <1>1, <2>1, <3>1
      <4> QED BY <1>4, <1>5, <3>1, <4>1
    <3>2. CASE j \in 1..n
      <4>1. next[j] = stack[j]
        BY <1>5, <3>2
      <4>2. stack[j].deferred => j < base
        BY <2>1, <3>2
      <4> QED BY <2>1, <3>2, <4>1, <4>2
    <3> QED BY <1>6, <3>1, <3>2
  <2> QED BY <1>5, <2>1, <2>2, <2>3 DEF UnderWay
<1>11. Executed(next, text)
  <2> DEFINE at == [j \in 1..n |-> At(stack, j)]
             to == [j \in 1..(n + 1) |-> At(next, j)]
  <2>1. ASSUME NEW j \in 1..n PROVE to[j] = at[j]
    <3>1. At(next, j) = [buf |-> stack[j].buf, pos |-> stack[j].pos]
      <4>1. j \in 1..Len(next) /\ j < Len(next) /\ next[j] = stack[j]
        BY <1>5, <1>6
      <4>2. At(next, j) = [buf |-> next[j].buf, pos |-> next[j].pos]
        BY <1>9, <4>1, StackFacts
      <4> QED BY <4>1, <4>2
    <3>2. At(stack, j) = [buf |-> stack[j].buf, pos |-> stack[j].pos]
      <4>1. j \in 1..Len(stack) /\ (j < Len(stack) \/ ~stack[j].deferred)
        BY <1>6
      <4> QED BY <4>1, StackFacts
    <3>3. j \in 1..(n + 1)
      BY <1>6
    <3> QED BY <3>1, <3>2, <3>3
  <2>2. Text[to[n + 1]] = <<>>
    <3>1. n + 1 \in 1..Len(next) /\ ~next[n + 1].deferred /\ n + 1 \in 1..(n + 1)
      BY <1>1, <1>4, <1>5
    <3>2. At(next, n + 1) = [buf |-> next[n + 1].buf, pos |-> next[n + 1].pos]
      BY <1>9, <3>1, StackFacts
    <3>3. to[n + 1] = [buf |-> new.buf, pos |-> 1]
      BY <1>4, <1>5, <3>1, <3>2
    <3> HIDE DEF to
    <3> QED BY <1>4, <3>3, TextFacts
  <2>3. ExecutedAt(n, at, text)
    BY DEF Executed
  <2>4. Executed(next, text) <=> ExecutedAt(n + 1, to, text)
    BY <1>5 DEF Executed
  <2> HIDE DEF at, to
  <2> QED BY <1>1, <2>1, <2>2, <2>3, <2>4, ExecutedPush
<1> QED BY <1>6, <1>9, <1>10, <1>11

\* The innermost cursor is gone.
SameUpTo(m, s, t) == \A j \in 1..m : s[j] = t[j]

FrontOK(p, stack, m, next) ==
  /\ StackOK(p, next) /\ Len(next) = m /\ next # <<>> /\ SameUpTo(m, next, stack)
  /\ CallAt(stack[m]) /\ Buffers[stack[m].buf][stack[m].pos].arg = stack[m + 1].buf

\* The stack without its innermost cursor.
LEMMA FrontStep ==
  ASSUME NEW p, NEW stack, StackOK(p, stack), NEW n \in Nat, n = Len(stack),
         NEW m \in Nat, m >= 1, n = m + 1, NEW next, next = Front(stack)
  PROVE  FrontOK(p, stack, m, next)
<1>1. stack \in Seq(Cursor) /\ DOMAIN stack = 1..n
  <2>1. stack \in Seq(Cursor) /\ DOMAIN stack = 1..Len(stack)
    BY StackFacts
  <2> QED BY <2>1
<1>2. /\ m \in 0..n /\ m \in 1..m /\ m = n - 1 /\ m \in 1..(n - 1)
      /\ \A j \in 1..m : j \in 1..n /\ j < n
      /\ \A j \in 1..(m - 1) : j \in 1..m /\ j + 1 \in 1..m /\ j \in 1..(n - 1)
  OBVIOUS
<1>3. next = SubSeq(stack, 1, m)
  BY <1>2 DEF Front
<1>4. /\ next \in Seq(Cursor) /\ Len(next) = m /\ DOMAIN next = 1..m
      /\ \A j \in 1..m : next[j] = stack[j]
  <2>1. \A j \in 1..m : stack[j] \in Cursor
    BY <1>1, <1>2, ElementOfSeq
  <2>2. /\ SubSeq(stack, 1, m) \in Seq(Cursor) /\ Len(SubSeq(stack, 1, m)) = m - 1 + 1
        /\ \A j \in 1..(m - 1 + 1) : SubSeq(stack, 1, m)[j] = stack[1 + j - 1]
    BY <1>1, <1>2, <2>1, SubSeqProperties
  <2>3. m - 1 + 1 = m /\ \A j \in 1..m : 1 + j - 1 = j
    OBVIOUS
  <2>4. next \in Seq(Cursor) /\ Len(next) = m /\ \A j \in 1..m : next[j] = stack[j]
    BY <1>3, <2>2, <2>3
  <2> QED BY <2>4
<1>5. next # <<>>
  BY <1>4
<1>6. CursorsOK(m, next)
  <2>1. \A j \in 1..m : /\ next[j].pos <= Len(Buffers[next[j].buf]) + 1
                        /\ j < m \/ next[j].deferred => CallAt(next[j])
    BY <1>1, <1>2, <1>4 DEF StackOK
  <2> QED BY <2>1 DEF CursorsOK
<1>7. CallsOK(m, next)
  <2>1. ASSUME NEW j \in 1..(m - 1)
        PROVE  Buffers[next[j].buf][next[j].pos].arg = next[j + 1].buf
    <3>1. next[j] = stack[j] /\ next[j + 1] = stack[j + 1] /\ j \in 1..(n - 1)
      BY <1>2, <1>4
    <3> QED BY <3>1 DEF StackOK
  <2> QED BY <2>1 DEF CallsOK
<1>8. next[1].buf = Programs[p].buf
  <2>1. next[1] = stack[1] /\ stack # <<>>
    BY <1>1, <1>2, <1>4
  <2> QED BY <2>1 DEF StackOK
<1>9. StackOK(p, next)
  BY <1>4, <1>6, <1>7, <1>8, StackIsOK
<1>10. CallAt(stack[m]) /\ Buffers[stack[m].buf][stack[m].pos].arg = stack[m + 1].buf
  <2>1. CallAt(stack[m])
    BY <1>1, <1>2 DEF StackOK
  <2>2. Buffers[stack[m].buf][stack[m].pos].arg = stack[m + 1].buf
    BY <1>2 DEF StackOK
  <2> QED BY <2>1, <2>2
<1>11. SameUpTo(m, next, stack)
  BY <1>4 DEF SameUpTo
<1> QED BY <1>4, <1>5, <1>9, <1>10, <1>11 DEF FrontOK

\* The innermost buffer is exhausted: its text belongs to the call it came from.
LEMMA PopExecuted ==
  ASSUME NEW p, NEW stack, StackOK(p, stack), NEW n \in Nat, n = Len(stack),
         NEW c, c = stack[n], ~c.deferred, c.pos > Len(Buffers[c.buf]),
         NEW text, Executed(stack, text),
         NEW m \in Nat, m >= 1, n = m + 1, NEW d, d = stack[m],
         NEW next, Len(next) = m, SameBelow(m, next, stack),
         At(next, m) = [buf |-> d.buf, pos |-> d.pos + 1]
  PROVE  Executed(next, text)
<1> DEFINE at == [j \in 1..n |-> At(stack, j)]
           to == [j \in 1..m |-> At(next, j)]
<1>1. /\ m \in Nat /\ m >= 1 /\ n = m + 1 /\ m \in 1..n /\ n \in 1..n /\ m \in 1..m /\ m < n
      /\ \A j \in 1..(m - 1) : j \in 1..m /\ j \in 1..n
  OBVIOUS
<1>2. /\ Text[At(stack, m)] \in Texts /\ At(stack, m) = [buf |-> d.buf, pos |-> d.pos]
      /\ Text[At(stack, n)] \in Texts /\ At(stack, n) = [buf |-> c.buf, pos |-> c.pos]
      /\ c \in Cursor /\ d \in Cursor /\ c.buf \in DOMAIN Buffers
      /\ c.pos \in 1..(Len(Buffers[c.buf]) + 1)
  BY <1>1, StackFacts
<1>3. At(stack, n) = EndOf(c.buf)
  <2>1. Len(Buffers[c.buf]) \in Nat
    BY <1>2, BufferFacts
  <2>2. c.pos = Len(Buffers[c.buf]) + 1
    BY <1>2, <2>1
  <2> QED BY <1>2, <2>2 DEF EndOf
<1>4. CallAt(d) /\ Buffers[d.buf][d.pos].arg = c.buf
  <2>1. FrontOK(p, stack, m, Front(stack))
    BY <1>1, FrontStep
  <2> QED BY <1>1, <2>1 DEF FrontOK
<1>5. Text[At(next, m)] = Text[At(stack, m)] \o Text[At(stack, n)]
  <2>1. /\ Text[[buf |-> d.buf, pos |-> d.pos + 1]]
             = Text[[buf |-> d.buf, pos |-> d.pos]] \o PacketText(Text, Buffers[d.buf][d.pos])
        /\ PacketText(Text, Buffers[d.buf][d.pos]) = Text[EndOf(Buffers[d.buf][d.pos].arg)]
    BY <1>2, <1>4, CursorFacts DEF CallAt
  <2> QED BY <1>2, <1>3, <1>4, <2>1
<1>6. \A j \in 1..(m - 1) : to[j] = at[j]
  BY <1>1 DEF SameBelow
<1>7. at[m] = At(stack, m) /\ at[n] = At(stack, n) /\ to[m] = At(next, m)
  BY <1>1
<1>8. ExecutedAt(n, at, text) /\ (Executed(next, text) <=> ExecutedAt(m, to, text))
  BY DEF Executed
<1>9. Text[at[m]] \in Texts /\ Text[at[m + 1]] \in Texts
        /\ Text[to[m]] = Text[at[m]] \o Text[at[m + 1]]
  <2> HIDE DEF at, to
  <2> QED BY <1>1, <1>2, <1>5, <1>7
<1>10. ExecutedAt(m + 1, at, text)
  <2> HIDE DEF at
  <2> QED BY <1>1, <1>8
<1> HIDE DEF at, to
<1>11. ExecutedAt(m, to, text)
  BY <1>1, <1>6, <1>9, <1>10, ExecutedPop
<1> QED BY <1>8, <1>11

\* A call under way returns.
LEMMA TextReturnStep ==
  ASSUME NEW p, NEW stack, StackOK(p, stack), NEW n \in Nat, n = Len(stack),
         NEW c, c = stack[n], ~c.deferred, c.pos > Len(Buffers[c.buf]),
         NEW base, UnderWay(stack, base), n > base, stack # <<>>,
         NEW m, m = n - 1,
         NEW text, Executed(stack, text),
         NEW next, next = Past(Front(stack), m)
  PROVE  StackOK(p, next) /\ UnderWay(next, base) /\ Executed(next, text) /\ next # <<>>
<1> DEFINE front == Front(stack)
           d == stack[m]
<1>1. DOMAIN stack = 1..n
  <2>1. DOMAIN stack = 1..Len(stack)
    BY StackFacts
  <2> QED BY <2>1
<1>2. /\ base \in 0..n /\ base >= 1
      /\ \A j \in 1..n : /\ j < base => stack[j].deferred
                         /\ stack[j].deferred => j < base
  BY <1>1 DEF UnderWay
<1>3. /\ n >= 2 /\ m \in Nat /\ m >= 1 /\ m \in 1..m /\ m \in 1..n /\ base \in 0..m /\ ~(m < base)
      /\ n = m + 1
      /\ \A j \in 1..m : j \in 1..n
      /\ \A j \in 1..(m - 1) : j \in 1..m /\ j < m /\ j < n /\ j \in 1..n
  BY <1>1, <1>2
<1>4. /\ StackOK(p, front) /\ Len(front) = m /\ front # <<>>
      /\ \A j \in 1..m : front[j] = stack[j]
      /\ CallAt(d)
  <2>1. front = Front(stack)
    OBVIOUS
  <2> HIDE DEF front
  <2>2. StackOK(p, front) /\ Len(front) = m /\ front # <<>> /\ SameUpTo(m, front, stack)
          /\ CallAt(d)
    <3>1. FrontOK(p, stack, m, front)
      BY <1>3, <2>1, FrontStep
    <3> QED BY <3>1 DEF FrontOK
  <2> QED BY <2>2 DEF SameUpTo
<1>5. next = Past(front, Len(front)) /\ front[Len(front)] = d /\ d.pos <= Len(Buffers[d.buf])
  <2>1. d.pos <= Len(Buffers[d.buf])
    <3> HIDE DEF d
    <3> QED BY <1>4 DEF CallAt
  <2>2. front[m] = stack[m] /\ Len(front) = m
    BY <1>3, <1>4
  <2> HIDE DEF front
  <2> QED BY <2>1, <2>2 DEF front
<1>6. UnderWay(front, base)
  <2>1. DOMAIN front = 1..m
    <3> HIDE DEF front
    <3> QED BY <1>4, StackFacts
  <2> HIDE DEF front
  <2> QED BY <1>2, <1>3, <1>4, <2>1 DEF UnderWay
<1> HIDE DEF front, d
<1>7. UnderWay(next, base)
  BY <1>4, <1>5, <1>6, PastUnderWay
<1>8. /\ StackOK(p, next) /\ Len(next) = m /\ next # <<>>
      /\ SameBelow(m, next, front) /\ At(next, m) = [buf |-> d.buf, pos |-> d.pos + 1]
  <2>1. /\ StackOK(p, next) /\ Len(next) = Len(front) /\ next # <<>>
        /\ SameBelow(Len(front), next, front)
        /\ At(next, Len(front))
             = [buf |-> front[Len(front)].buf, pos |-> front[Len(front)].pos + 1]
    BY <1>4, <1>5, PastStep
  <2> QED BY <1>4, <1>5, <2>1
<1>9. SameBelow(m, next, stack)
  <2>1. ASSUME NEW j \in 1..(m - 1) PROVE next[j] = stack[j] /\ At(next, j) = At(stack, j)
    <3>1. next[j] = front[j] /\ At(next, j) = At(front, j)
      BY <1>8 DEF SameBelow
    <3>2. front[j] = stack[j]
      BY <1>3, <1>4
    <3>3. At(front, j) = [buf |-> front[j].buf, pos |-> front[j].pos]
      <4>1. j \in 1..Len(front) /\ j < Len(front)
        BY <1>3, <1>4
      <4> QED BY <1>4, <4>1, StackFacts
    <3>4. At(stack, j) = [buf |-> stack[j].buf, pos |-> stack[j].pos]
      <4>1. j \in 1..Len(stack) /\ j < Len(stack)
        BY <1>3
      <4> QED BY <4>1, StackFacts
    <3> QED BY <3>1, <3>2, <3>3, <3>4
  <2> QED BY <2>1 DEF SameBelow
<1>10. Executed(next, text)
  <2>1. d = stack[m]
    BY DEF d
  <2> QED BY <1>3, <1>8, <1>9, <2>1, PopExecuted
<1> QED BY <1>7, <1>8, <1>10

\* The outer loop turns to the cursor below, whose call is to be passed over.
LEMMA TextPopStep ==
  ASSUME NEW p, NEW stack, StackOK(p, stack), NEW n \in Nat, n = Len(stack), n >= 2,
         NEW c, c = stack[n], ~c.deferred, c.pos > Len(Buffers[c.buf]),
         NEW base, UnderWay(stack, base), n = base, NEW m, m = n - 1,
         NEW text, Executed(stack, text),
         NEW next, next = Front(stack)
  PROVE  StackOK(p, next) /\ UnderWay(next, m) /\ Executed(next, text) /\ next # <<>>
<1> DEFINE d == stack[m]
<1>1. DOMAIN stack = 1..n
  <2>1. DOMAIN stack = 1..Len(stack)
    BY StackFacts
  <2> QED BY <2>1
<1>2. \A j \in 1..n : j < n => stack[j].deferred
  BY <1>1 DEF UnderWay
<1>3. /\ m \in Nat /\ m >= 1 /\ m \in 1..m /\ m \in 1..n /\ m \in 0..m /\ n = m + 1 /\ m < n
      /\ \A j \in 1..m : j \in 1..n /\ j < n /\ (j < m \/ j = m)
      /\ \A j \in 1..(m - 1) : j \in 1..m /\ j < m /\ j < n /\ j \in 1..n
  BY <1>1
<1>4. /\ StackOK(p, next) /\ Len(next) = m /\ next # <<>>
      /\ \A j \in 1..m : next[j] = stack[j]
  <2>1. StackOK(p, next) /\ Len(next) = m /\ next # <<>> /\ SameUpTo(m, next, stack)
    <3>1. FrontOK(p, stack, m, next)
      BY <1>3, FrontStep
    <3> QED BY <3>1 DEF FrontOK
  <2> QED BY <2>1 DEF SameUpTo
<1> HIDE DEF d
<1>5. UnderWay(next, m)
  <2>1. DOMAIN next = 1..m
    BY <1>4, StackFacts
  <2>2. \A j \in 1..m : /\ next[j].deferred /\ (j < m \/ j = m)
    BY <1>2, <1>3, <1>4
  <2> QED BY <1>3, <1>4, <2>1, <2>2 DEF UnderWay
<1>6. At(next, m) = [buf |-> d.buf, pos |-> d.pos + 1]
  <2>1. m \in 1..Len(next) /\ next[m] = d /\ next[m].deferred /\ m = Len(next)
    BY <1>2, <1>3, <1>4 DEF d
  <2> QED BY <1>4, <2>1, StackFacts
<1>7. SameBelow(m, next, stack)
  <2>1. ASSUME NEW j \in 1..(m - 1) PROVE next[j] = stack[j] /\ At(next, j) = At(stack, j)
    <3>1. next[j] = stack[j]
      BY <1>3, <1>4
    <3>2. At(next, j) = [buf |-> next[j].buf, pos |-> next[j].pos]
      <4>1. j \in 1..Len(next) /\ j < Len(next)
        BY <1>3, <1>4
      <4> QED BY <1>4, <4>1, StackFacts
    <3>3. At(stack, j) = [buf |-> stack[j].buf, pos |-> stack[j].pos]
      <4>1. j \in 1..Len(stack) /\ j < Len(stack)
        BY <1>3
      <4> QED BY <4>1, StackFacts
    <3> QED BY <3>1, <3>2, <3>3
  <2> QED BY <2>1 DEF SameBelow
<1>8. Executed(next, text)
  <2>1. d = stack[m]
    BY DEF d
  <2> QED BY <1>3, <1>4, <1>6, <1>7, <2>1, PopExecuted
<1> QED BY <1>3, <1>4, <1>5, <1>8

\* The interpreter's loop on program p, having executed text.
Looping(p, stack, base, text) ==
  /\ Programs[p].type # "flip" /\ StackOK(p, stack) /\ UnderWay(stack, base)
  /\ IF stack = <<>> THEN text = FlatProgram[p] ELSE Executed(stack, text)

\* A submission that waits in the middle of p.
Waiting(p, stack, text) ==
  /\ Programs[p].type # "flip" /\ stack # <<>>
  /\ StackOK(p, stack) /\ Suspended(stack) /\ Executed(stack, text)

\* A stack in the interpreter's loop, and its innermost cursor.
LEMMA LoopFacts ==
  ASSUME NEW p, NEW stack, NEW base, NEW text, Looping(p, stack, base, text), stack # <<>>,
         NEW n, n = Len(stack), NEW c, c = stack[n]
  PROVE  /\ StackOK(p, stack) /\ UnderWay(stack, base) /\ Executed(stack, text)
         /\ n \in Nat /\ n >= 1 /\ n \in 1..n /\ c \in Cursor /\ base \in 0..n /\ base >= 1
<1>1. StackOK(p, stack) /\ UnderWay(stack, base) /\ Executed(stack, text)
  BY DEF Looping
<1>2. Len(stack) \in Nat /\ Len(stack) >= 1
  BY <1>1, StackFacts
<1>3. n \in Nat /\ n >= 1 /\ n \in 1..n
  BY <1>2
<1>4. c \in Cursor
  BY <1>1, <1>3, StackFacts
<1>5. base \in 0..n /\ base >= 1
  BY <1>1 DEF UnderWay
<1> QED BY <1>1, <1>3, <1>4, <1>5

\* A cursor left by a suspension is moved on.
LEMMA LoopPasses ==
  ASSUME NEW p, NEW stack, NEW base, NEW text, Looping(p, stack, base, text), stack # <<>>,
         stack[Len(stack)].deferred
  PROVE  Looping(p, Past(stack, Len(stack)), base, text)
<1> DEFINE next == Past(stack, Len(stack))
<1>1. StackOK(p, stack) /\ UnderWay(stack, base) /\ Executed(stack, text)
  BY DEF Looping
<1>2. Len(stack) \in 1..Len(stack) /\ DOMAIN stack = 1..Len(stack)
  <2>1. Len(stack) \in Nat /\ Len(stack) >= 1 /\ DOMAIN stack = 1..Len(stack)
    BY <1>1, StackFacts
  <2> QED BY <2>1
<1>3. stack[Len(stack)].pos <= Len(Buffers[stack[Len(stack)].buf])
  <2>1. CallAt(stack[Len(stack)])
    BY <1>1, <1>2 DEF StackOK
  <2> QED BY <2>1 DEF CallAt
<1>4. next = Past(stack, Len(stack))
  OBVIOUS
<1> HIDE DEF next
<1>5. StackOK(p, next) /\ next # <<>>
  BY <1>1, <1>3, <1>4, PastStep
<1>6. UnderWay(next, base)
  BY <1>1, <1>3, <1>4, PastUnderWay
<1>7. Executed(next, text)
  BY <1>1, <1>3, <1>4, PastExecuted
<1> QED BY <1>4, <1>5, <1>6, <1>7 DEF Looping

\* The packet takes effect.
LEMMA LoopAdvances ==
  ASSUME NEW p, NEW stack, NEW base, NEW text, Looping(p, stack, base, text), stack # <<>>,
         NEW c, c = stack[Len(stack)], ~c.deferred, c.pos <= Len(Buffers[c.buf]),
         NEW packet, packet = Buffers[c.buf][c.pos], packet.op # "call"
  PROVE  /\ Looping(p, Past(stack, Len(stack)), base, Append(text, packet))
         /\ Append(text, packet) = text \o <<packet>> /\ text \in Texts /\ <<packet>> \in Texts
<1> DEFINE next == Past(stack, Len(stack))
<1>1. StackOK(p, stack) /\ UnderWay(stack, base) /\ Executed(stack, text)
  BY DEF Looping
<1>2. stack[Len(stack)].pos <= Len(Buffers[stack[Len(stack)].buf])
  OBVIOUS
<1>3. next = Past(stack, Len(stack))
  OBVIOUS
<1> HIDE DEF next
<1>4. StackOK(p, next) /\ next # <<>>
  BY <1>1, <1>2, <1>3, PastStep
<1>5. UnderWay(next, base)
  BY <1>1, <1>2, <1>3, PastUnderWay
<1>6. Executed(next, Append(text, packet))
  BY <1>1, <1>2, <1>3, PastExecuted
<1>7. packet \in PacketSet
  <2>1. c \in Cursor
    BY LoopFacts
  <2> QED BY <2>1, CursorFacts
<1>8. text \in Texts
  <2>1. Len(stack) \in Nat
    BY <1>1, StackFacts
  <2> QED BY <1>1, <2>1, ExecutedType DEF Executed
<1>9. Append(text, packet) = text \o <<packet>> /\ <<packet>> \in Texts
  BY <1>7, <1>8, AppendIsConcat DEF Texts
<1> QED BY <1>3, <1>4, <1>5, <1>6, <1>8, <1>9 DEF Looping

\* A packet calls a buffer.
LEMMA LoopCalls ==
  ASSUME NEW p, NEW stack, NEW base, NEW text, Looping(p, stack, base, text), stack # <<>>,
         NEW c, c = stack[Len(stack)], ~c.deferred, CallAt(c),
         NEW new, new = [buf |-> Buffers[c.buf][c.pos].arg, pos |-> 1, deferred |-> FALSE]
  PROVE  Looping(p, Append(stack, new), base, text)
<1> DEFINE next == Append(stack, new)
           n == Len(stack)
<1>1. StackOK(p, stack) /\ UnderWay(stack, base) /\ Executed(stack, text) /\ n >= 1
  BY LoopFacts
<1>2. n = Len(stack) /\ c = stack[n] /\ next = Append(stack, new)
  OBVIOUS
<1> HIDE DEF n, next
<1>3. StackOK(p, next) /\ UnderWay(next, base) /\ Executed(next, text) /\ next # <<>>
  BY <1>1, <1>2, TextPushStep
<1> QED BY <1>2, <1>3 DEF Looping

\* A call under way returns and moves the cursor it was made from.
LEMMA LoopReturns ==
  ASSUME NEW p, NEW stack, NEW base, NEW text, Looping(p, stack, base, text), stack # <<>>,
         NEW c, c = stack[Len(stack)], ~c.deferred, c.pos > Len(Buffers[c.buf]),
         Len(stack) > base
  PROVE  Looping(p, Past(Front(stack), Len(stack) - 1), base, text)
<1> DEFINE n == Len(stack)
           m == n - 1
           next == Past(Front(stack), m)
<1>1. StackOK(p, stack) /\ UnderWay(stack, base) /\ Executed(stack, text) /\ n \in Nat
  BY LoopFacts
<1>2. n = Len(stack) /\ c = stack[n] /\ m = n - 1 /\ next = Past(Front(stack), m)
      /\ next = Past(Front(stack), Len(stack) - 1) /\ n > base
  OBVIOUS
<1> HIDE DEF n, m, next
<1>3. StackOK(p, next) /\ UnderWay(next, base) /\ Executed(next, text) /\ next # <<>>
  BY <1>1, <1>2, TextReturnStep
<1> QED BY <1>2, <1>3 DEF Looping

\* The outer loop turns to the cursor below.
LEMMA LoopPops ==
  ASSUME NEW p \in DOMAIN Programs,
         NEW stack, NEW base, NEW text, Looping(p, stack, base, text), stack # <<>>,
         NEW c, c = stack[Len(stack)], ~c.deferred, c.pos > Len(Buffers[c.buf]),
         ~(Len(stack) > base)
  PROVE  Looping(p, Front(stack), base - 1, text)
<1> DEFINE n == Len(stack)
           m == n - 1
           next == Front(stack)
<1>1. /\ StackOK(p, stack) /\ UnderWay(stack, base) /\ Executed(stack, text)
      /\ n \in Nat /\ n >= 1 /\ base \in 0..n /\ c \in Cursor
  <2>1. n = Len(stack) /\ c = stack[n]
    OBVIOUS
  <2> HIDE DEF n
  <2> QED BY <2>1, LoopFacts
<1>2. n = Len(stack) /\ c = stack[n] /\ m = n - 1 /\ next = Front(stack) /\ ~(n > base)
  OBVIOUS
<1> HIDE DEF n, next
<1>3. n = base /\ m = base - 1
  BY <1>1, <1>2
<1>4. CASE n >= 2
  <2> HIDE DEF m
  <2>1. StackOK(p, next) /\ UnderWay(next, m) /\ Executed(next, text) /\ next # <<>>
    BY <1>1, <1>2, <1>3, <1>4, TextPopStep
  <2> QED BY <1>2, <1>3, <2>1 DEF Looping
<1>5. CASE ~(n >= 2)
  <2>1. n = 1 /\ m = 0 /\ 1 \in 1..n
    BY <1>1, <1>5
  <2>2. next = <<>>
    <3>1. SubSeq(stack, 1, 0) = <<>>
      BY SubSeqEmpty
    <3> QED BY <1>2, <2>1, <3>1 DEF Front
  <2>3. StackOK(p, next)
    BY <2>2 DEF StackOK
  <2>4. UnderWay(next, m)
    BY <2>1, <2>2 DEF UnderWay
  <2>5. text = FlatProgram[p]
    <3>1. At(stack, 1) = [buf |-> c.buf, pos |-> c.pos] /\ Text[At(stack, 1)] \in Texts
      BY <1>1, <1>2, <2>1, StackFacts
    <3>2. At(stack, 1) = EndOf(c.buf)
      <4>1. /\ c.buf \in DOMAIN Buffers /\ c.pos \in 1..(Len(Buffers[c.buf]) + 1)
        BY <1>1, <1>2, <2>1, StackFacts
      <4>2. Len(Buffers[c.buf]) \in Nat
        BY <4>1, BufferFacts
      <4>3. c.pos = Len(Buffers[c.buf]) + 1
        BY <4>1, <4>2
      <4> QED BY <3>1, <4>3 DEF EndOf
    <3> DEFINE at == [j \in 1..1 |-> At(stack, j)]
    <3>3. ExecutedAt(1, at, text) /\ at[1] = At(stack, 1)
      BY <1>1, <1>2, <2>1 DEF Executed
    <3>4. text = Text[at[1]]
      <4> HIDE DEF at
      <4> QED BY <3>1, <3>3, ExecutedOne
    <3>5. c.buf = Programs[p].buf
      BY <1>1, <1>2, <2>1 DEF StackOK
    <3>6. Programs[p].type # "flip"
      BY DEF Looping
    <3> QED BY <3>2, <3>3, <3>4, <3>5, <3>6, ProgramFacts
  <2> QED BY <1>2, <1>3, <2>2, <2>3, <2>4, <2>5 DEF Looping
<1> QED BY <1>4, <1>5

\* A function on 1..m is a sequence.
LEMMA FunctionIsSeq ==
  ASSUME NEW S, NEW m \in Nat, NEW f \in [1..m -> S]
  PROVE  f \in Seq(S) /\ Len(f) = m
<1>1. f \in Seq(S)
  BY SeqDef
<1>2. DOMAIN f = 1..m
  OBVIOUS
<1> QED BY <1>1, <1>2, LenProperties

\* A wait: every call under way is to be passed over later.
LEMMA LoopSuspends ==
  ASSUME NEW p, NEW stack, NEW base, NEW text, Looping(p, stack, base, text), stack # <<>>,
         ~stack[Len(stack)].deferred,
         NEW next, next = [i \in DOMAIN stack |->
                             IF base <= i /\ i < Len(stack) THEN [stack[i] EXCEPT !.deferred = TRUE]
                                                            ELSE stack[i]]
  PROVE  Waiting(p, next, text)
<1> DEFINE n == Len(stack)
<1>1. /\ StackOK(p, stack) /\ UnderWay(stack, base) /\ Executed(stack, text)
      /\ n \in Nat /\ n >= 1 /\ n \in 1..n /\ base \in 0..n /\ base >= 1
  <2>1. n = Len(stack)
    OBVIOUS
  <2> HIDE DEF n
  <2> QED BY <2>1, LoopFacts
<1>2. DOMAIN stack = 1..n /\ stack \in Seq(Cursor) /\ ~stack[n].deferred
  BY <1>1, StackFacts
<1>3. \A j \in 1..n : stack[j] \in Cursor
  BY <1>1, StackFacts
<1>4. DOMAIN next = 1..n /\ \A j \in 1..n :
        next[j] = IF base <= j /\ j < n THEN [stack[j] EXCEPT !.deferred = TRUE] ELSE stack[j]
  BY <1>2
<1> HIDE DEF n
<1>5. \A j \in 1..n : j < n \/ j = n
  BY <1>1
<1>6. \A j \in 1..n : /\ next[j] \in Cursor /\ next[j].buf = stack[j].buf
                      /\ next[j].pos = stack[j].pos
                      /\ next[j].deferred <=> j < n
  <2> TAKE j \in 1..n
  <2>1. stack[j] \in Cursor
    BY <1>3
  <2>2. /\ [stack[j] EXCEPT !.deferred = TRUE] \in Cursor
        /\ [stack[j] EXCEPT !.deferred = TRUE].buf = stack[j].buf
        /\ [stack[j] EXCEPT !.deferred = TRUE].pos = stack[j].pos
        /\ [stack[j] EXCEPT !.deferred = TRUE].deferred = TRUE
    BY <2>1 DEF Cursor
  <2>3. CASE base <= j /\ j < n
    BY <1>4, <2>2, <2>3
  <2>4. CASE ~(base <= j /\ j < n)
    <3>1. next[j] = stack[j]
      BY <1>4, <2>4
    <3>2. j < n => j < base
      BY <1>1, <2>4
    <3>3. j < base => stack[j].deferred
      BY <1>1, <1>2 DEF UnderWay
    <3>4. j = n => ~stack[j].deferred /\ ~(j < n)
      BY <1>1, <1>2
    <3> QED BY <1>5, <2>1, <3>1, <3>2, <3>3, <3>4
  <2> QED BY <2>3, <2>4
<1>7. next \in Seq(Cursor) /\ Len(next) = n /\ next # <<>>
  <2>1. next \in [1..n -> Cursor]
    <3>1. next = [j \in 1..n |-> next[j]]
      BY <1>2
    <3> QED BY <1>4, <1>6, <3>1
  <2>2. next \in Seq(Cursor) /\ Len(next) = n
    BY <1>1, <2>1, FunctionIsSeq
  <2> QED BY <1>1, <2>2
<1>8. CursorsOK(n, next)
  <2> SUFFICES ASSUME NEW j \in 1..n
               PROVE  /\ next[j].pos <= Len(Buffers[next[j].buf]) + 1
                      /\ j < n \/ next[j].deferred => CallAt(next[j])
    BY DEF CursorsOK
  <2>1. stack[j].pos <= Len(Buffers[stack[j].buf]) + 1
    BY <1>1, <1>2 DEF StackOK
  <2>2. j < n => CallAt(stack[j])
    BY <1>1, <1>2 DEF StackOK, n
  <2>3. CallAt(next[j]) <=> CallAt(stack[j])
    BY <1>6 DEF CallAt
  <2> QED BY <1>6, <2>1, <2>2, <2>3
<1>9. CallsOK(n, next)
  <2>1. ASSUME NEW j \in 1..(n - 1)
        PROVE  Buffers[next[j].buf][next[j].pos].arg = next[j + 1].buf
    <3>1. j \in 1..n /\ j + 1 \in 1..n
      BY <1>1
    <3>2. Buffers[stack[j].buf][stack[j].pos].arg = stack[j + 1].buf
      BY <1>1 DEF StackOK, n
    <3> QED BY <1>6, <3>1, <3>2
  <2> QED BY <2>1 DEF CallsOK
<1>10. StackOK(p, next)
  <2>1. stack # <<>> /\ 1 \in 1..n
    BY <1>1
  <2>2. next[1].buf = Programs[p].buf
    BY <1>1, <1>6, <2>1 DEF StackOK
  <2> QED BY <1>1, <1>7, <1>8, <1>9, <2>2, StackIsOK
<1>11. Suspended(next)
  BY <1>4, <1>6, <1>7 DEF Suspended
<1>12. \A j \in 1..n : At(next, j) = At(stack, j)
  <2> TAKE j \in 1..n
  <2>1. At(stack, j) = [buf |-> stack[j].buf, pos |-> stack[j].pos]
    <3>1. j \in 1..Len(stack) /\ (j < Len(stack) \/ ~stack[j].deferred)
      BY <1>2, <1>5 DEF n
    <3> QED BY <1>1, <3>1, StackFacts
  <2>2. At(next, j) = [buf |-> next[j].buf, pos |-> next[j].pos]
    <3>1. j \in 1..Len(next) /\ (j < Len(next) \/ ~next[j].deferred)
      BY <1>5, <1>6, <1>7
    <3> QED BY <1>10, <3>1, StackFacts
  <2> QED BY <1>6, <2>1, <2>2
<1>13. Executed(next, text)
  <2> DEFINE at == [j \in 1..n |-> At(stack, j)]
             to == [j \in 1..n |-> At(next, j)]
  <2>1. ExecutedAt(n, at, text) /\ (Executed(next, text) <=> ExecutedAt(n, to, text))
    BY <1>1, <1>7 DEF Executed, n
  <2>2. \A j \in 1..n : to[j] = at[j]
    BY <1>12
  <2> HIDE DEF at, to
  <2> QED BY <1>1, <2>1, <2>2, ExecutedSame
<1> QED BY <1>7, <1>10, <1>11, <1>13 DEF Waiting, Looping

\* A submission that waited is taken up again.
LEMMA LoopResumes ==
  ASSUME NEW p, NEW stack, NEW text, Waiting(p, stack, text)
  PROVE  Looping(p, stack, Len(stack), text)
<1> DEFINE n == Len(stack)
<1>1. /\ Programs[p].type # "flip" /\ stack # <<>>
      /\ StackOK(p, stack) /\ Suspended(stack) /\ Executed(stack, text)
  BY DEF Waiting
<1>2. n \in Nat /\ n >= 1 /\ DOMAIN stack = 1..n
  BY <1>1, StackFacts
<1>3. \A j \in 1..n : stack[j].deferred <=> j < n
  BY <1>1, <1>2 DEF Suspended
<1>4. UnderWay(stack, n)
  <2>1. n \in 0..n
    BY <1>2
  <2> HIDE DEF n
  <2> QED BY <1>2, <1>3, <2>1 DEF UnderWay
<1> QED BY <1>1, <1>4 DEF Looping

\* A program is begun.
LEMMA LoopBegins ==
  ASSUME NEW p \in DOMAIN Programs, Programs[p].type # "flip",
         NEW stack, stack = <<[buf |-> Programs[p].buf, pos |-> 1, deferred |-> FALSE]>>
  PROVE  Looping(p, stack, 1, <<>>) /\ Len(stack) = 1 /\ stack # <<>>
<1> DEFINE c == [buf |-> Programs[p].buf, pos |-> 1, deferred |-> FALSE]
<1>1. Programs[p].buf \in DOMAIN Buffers
  BY ProgramFacts
<1>2. c \in Cursor /\ c.buf = Programs[p].buf /\ c.pos = 1 /\ ~c.deferred
  BY <1>1 DEF Cursor
<1>3. Len(Buffers[c.buf]) \in Nat
  BY <1>1, <1>2, BufferFacts
<1>4. stack = <<c>>
  OBVIOUS
<1> HIDE DEF c
<1>5. stack \in Seq(Cursor) /\ Len(stack) = 1 /\ DOMAIN stack = 1..1 /\ stack[1] = c /\ stack # <<>>
  <2>1. <<c>> \in Seq(Cursor)
    BY <1>2
  <2>2. Len(<<c>>) = 1 /\ <<c>>[1] = c /\ <<c>> # <<>>
    OBVIOUS
  <2>3. DOMAIN <<c>> = 1..1
    BY <2>1, <2>2, LenProperties
  <2> QED BY <1>4, <2>1, <2>2, <2>3
<1>6. c.pos <= Len(Buffers[c.buf]) + 1
  <2> DEFINE l == Len(Buffers[c.buf])
  <2>1. l \in Nat
    BY <1>3
  <2> HIDE DEF l
  <2>2. 1 <= l + 1
    BY <2>1
  <2> QED BY <1>2, <2>2 DEF l
<1>7. CursorsOK(1, stack)
  <2>1. \A j \in 1..1 : j = 1 /\ ~(j < 1)
    OBVIOUS
  <2> QED BY <1>2, <1>5, <1>6, <2>1 DEF CursorsOK
<1>8. CallsOK(1, stack)
  <2>1. \A j \in 1..(1 - 1) : FALSE
    OBVIOUS
  <2> QED BY <2>1 DEF CallsOK
<1>9. StackOK(p, stack)
  BY <1>2, <1>5, <1>7, <1>8, StackIsOK
<1>10. UnderWay(stack, 1)
  <2>1. \A j \in 1..1 : j = 1 /\ ~(j < 1)
    OBVIOUS
  <2>2. 1 \in 0..1
    OBVIOUS
  <2> QED BY <1>2, <1>5, <2>1, <2>2 DEF UnderWay
<1>11. Executed(stack, <<>>)
  <2> DEFINE at == [j \in 1..1 |-> At(stack, j)]
  <2>1. At(stack, 1) = [buf |-> c.buf, pos |-> c.pos]
    <3>1. 1 \in 1..Len(stack) /\ ~stack[1].deferred
      BY <1>2, <1>5
    <3> QED BY <1>5, <1>9, <3>1, StackFacts
  <2>2. at[1] = [buf |-> c.buf, pos |-> 1]
    BY <1>2, <2>1
  <2>3. Executed(stack, <<>>) <=> ExecutedAt(1, at, <<>>)
    BY <1>5 DEF Executed
  <2> HIDE DEF at
  <2>4. Text[at[1]] = <<>> /\ <<>> \in Texts
    BY <1>1, <1>2, <2>2, TextFacts, TextsFacts
  <2>5. ExecutedAt(1, at, <<>>)
    BY <2>4, ExecutedOne
  <2> QED BY <2>3, <2>5
<1> QED BY <1>5, <1>9, <1>10, <1>11 DEF Looping

\* What was executed of a program is a part of it.
LEMMA PartOfProgram ==
  ASSUME NEW p \in DOMAIN Programs, Programs[p].type # "flip", NEW stack, NEW text,
         StackOK(p, stack), stack # <<>>, Executed(stack, text)
  PROVE  text \in Texts /\ Continues(text, FlatProgram[p])
<1>1. stack[1].buf = Programs[p].buf
  BY DEF StackOK
<1>2. text \in Texts /\ Continues(text, Text[EndOf(stack[1].buf)])
  BY ExecutedContinues
<1> QED BY <1>1, <1>2, ProgramFacts

-----------------------------------------------------------------------------
(* What a queue has executed.                                              *)

Submissions ==
  [kind : {"sub"}, prog : DOMAIN Programs, started : BOOLEAN, blocked : BOOLEAN,
   reset : BOOLEAN, stack : Seq(Cursor)]
Acceptances == [prog : DOMAIN Programs, due : Texts]
IsFlip(x)   == Programs[x.prog].type = "flip"

\* What of a submission in its queue took effect.
Rests(x, text) == IF x.stack = <<>> THEN text = <<>> ELSE Waiting(x.prog, x.stack, text)

\* And of the one in work, x, with the thread at spot.
Works(spot, x, base, text) ==
  \/ spot \in {"begin", "pass"} /\ Rests(x, text) /\ (spot = "pass" => ~IsFlip(x))
  \/ spot = "exec" /\ IsFlip(x) /\ x.stack = <<>> /\ text = <<>>
  \/ spot = "exec" /\ Looping(x.prog, x.stack, base, text)
  \/ spot \in {"end", "finish"} /\ IF x.stack = <<>> THEN text = FlatProgram[x.prog]
                                                   ELSE Waiting(x.prog, x.stack, text)

\* The packets due by the end of the first n submissions.
DueTo(acc, n) == IF n = 0 THEN <<>> ELSE acc[n].due

\* Of the submissions acc to a queue, all are finished but the last ones, in qs,
\* and the one in work, if ahead is 1.
FinishedCount(acc, qs, ahead) == Len(acc) - Len(qs) - ahead

DueOK(acc) ==
  \A n \in 1..Len(acc) : acc[n].due = DueTo(acc, n - 1) \o FlatProgram[acc[n].prog]

\* The submissions in qs are the accepted ones after the first k.
QueuedOK(acc, qs, k) == \A i \in 1..Len(qs) : qs[i].prog = acc[k + i].prog

\* Only the head of a queue has been begun.
OnlyHeadBegun(qs, ahead) == \A i \in 1..Len(qs) : i > 1 \/ ahead = 1 => qs[i].stack = <<>>

\* All that was finished has been executed, and text of the next.
ExecutedTo(acc, qs, ahead, spot, x, base, tr, count, text) ==
  /\ tr = DueTo(acc, count) \o text
  /\ IF ahead = 1 THEN x.prog = acc[count + 1].prog /\ Works(spot, x, base, text)
                  ELSE IF qs = <<>> THEN text = <<>> ELSE Rests(qs[1], text)

HistoryOK(acc, qs, ahead, spot, x, base, tr) ==
  \E count \in Nat, text \in Texts :
    /\ count = FinishedCount(acc, qs, ahead) /\ DueOK(acc)
    /\ QueuedOK(acc, qs, count + ahead) /\ OnlyHeadBegun(qs, ahead)
    /\ ExecutedTo(acc, qs, ahead, spot, x, base, tr, count, text)

\* What Append gives.
LEMMA AppendedSeq ==
  ASSUME NEW S, NEW s \in Seq(S), NEW e \in S
  PROVE  /\ Append(s, e) \in Seq(S) /\ Len(Append(s, e)) = Len(s) + 1 /\ Append(s, e) # <<>>
         /\ Append(s, e)[Len(s) + 1] = e /\ \A i \in 1..Len(s) : Append(s, e)[i] = s[i]
         /\ s = <<>> <=> Len(s) = 0
OBVIOUS

\* What is due is a text.
LEMMA DueFacts ==
  ASSUME NEW acc \in Seq(Acceptances)
  PROVE  /\ Len(acc) \in Nat /\ \A n \in 1..Len(acc) : acc[n] \in Acceptances
         /\ \A n \in 0..Len(acc) : DueTo(acc, n) \in Texts
<1>1. Len(acc) \in Nat /\ \A n \in 1..Len(acc) : acc[n] \in Acceptances
  BY ElementOfSeq
<1>2. ASSUME NEW n \in 0..Len(acc) PROVE DueTo(acc, n) \in Texts
  <2>1. CASE n = 0
    BY <2>1, TextsFacts DEF DueTo
  <2>2. CASE n # 0
    <3>1. n \in 1..Len(acc)
      BY <1>1, <2>2
    <3>2. acc[n].due \in Texts
      BY <1>1, <3>1 DEF Acceptances
    <3> QED BY <2>2, <3>2 DEF DueTo
  <2> QED BY <2>1, <2>2
<1> QED BY <1>1, <1>2

\* Nothing in work: what the thread does elsewhere does not matter.
LEMMA HistoryElsewhere ==
  ASSUME NEW acc, NEW qs, NEW spot, NEW x, NEW base, NEW tr,
         HistoryOK(acc, qs, 0, spot, x, base, tr),
         NEW spot2, NEW x2, NEW base2
  PROVE  HistoryOK(acc, qs, 0, spot2, x2, base2, tr)
<1>1. PICK count \in Nat, text \in Texts :
        /\ count = FinishedCount(acc, qs, 0) /\ DueOK(acc)
        /\ QueuedOK(acc, qs, count + 0) /\ OnlyHeadBegun(qs, 0)
        /\ ExecutedTo(acc, qs, 0, spot, x, base, tr, count, text)
  BY DEF HistoryOK
<1>2. ExecutedTo(acc, qs, 0, spot2, x2, base2, tr, count, text)
  BY <1>1 DEF ExecutedTo
<1> QED BY <1>1, <1>2 DEF HistoryOK

\* A submission is accepted.
LEMMA HistoryAccepts ==
  ASSUME NEW acc \in Seq(Acceptances), NEW qs \in Seq(Submissions), NEW ahead \in {0, 1},
         NEW spot, NEW x, NEW base, NEW tr, HistoryOK(acc, qs, ahead, spot, x, base, tr),
         NEW a \in Acceptances, a.due = DueTo(acc, Len(acc)) \o FlatProgram[a.prog],
         NEW sub \in Submissions, sub.prog = a.prog, sub.stack = <<>>
  PROVE  HistoryOK(Append(acc, a), Append(qs, sub), ahead, spot, x, base, tr)
<1> DEFINE acc2 == Append(acc, a)
           qs2 == Append(qs, sub)
           l == Len(acc)
           m == Len(qs)
<1>1. PICK count \in Nat, text \in Texts :
        /\ count = FinishedCount(acc, qs, ahead) /\ DueOK(acc)
        /\ QueuedOK(acc, qs, count + ahead) /\ OnlyHeadBegun(qs, ahead)
        /\ ExecutedTo(acc, qs, ahead, spot, x, base, tr, count, text)
  BY DEF HistoryOK
<1>2. l \in Nat /\ m \in Nat
  OBVIOUS
<1>3. /\ Len(acc2) = l + 1 /\ acc2[l + 1] = a /\ \A n \in 1..l : acc2[n] = acc[n]
      /\ Len(qs2) = m + 1 /\ qs2[m + 1] = sub /\ \A i \in 1..m : qs2[i] = qs[i]
      /\ qs2 # <<>> /\ (qs = <<>> <=> m = 0)
  BY AppendedSeq
<1>4. count + m + ahead = l
  BY <1>1, <1>2 DEF FinishedCount, l, m
<1> HIDE DEF acc2, qs2
<1>5. count = FinishedCount(acc2, qs2, ahead)
  <2> HIDE DEF l, m
  <2> QED BY <1>2, <1>3, <1>4 DEF FinishedCount
<1> HIDE DEF l, m
<1>6. \A n \in 0..l : DueTo(acc2, n) = DueTo(acc, n)
  <2> TAKE n \in 0..l
  <2>1. n # 0 => n \in 1..l
    BY <1>2
  <2> QED BY <1>3, <2>1 DEF DueTo
<1>7. DueOK(acc2)
  <2> SUFFICES ASSUME NEW n \in 1..(l + 1)
               PROVE  acc2[n].due = DueTo(acc2, n - 1) \o FlatProgram[acc2[n].prog]
    BY <1>3 DEF DueOK
  <2>1. n - 1 \in 0..l
    BY <1>2
  <2>2. CASE n = l + 1
    <3>1. n - 1 = l
      BY <1>2, <2>2
    <3> QED BY <1>3, <1>6, <2>1, <2>2, <3>1 DEF l
  <2>3. CASE n # l + 1
    <3>1. n \in 1..l
      BY <1>2, <2>3
    <3>2. acc[n].due = DueTo(acc, n - 1) \o FlatProgram[acc[n].prog]
      BY <1>1, <3>1 DEF DueOK, l
    <3> QED BY <1>3, <1>6, <2>1, <3>1, <3>2
  <2> QED BY <2>2, <2>3
<1>8. QueuedOK(acc2, qs2, count + ahead)
  <2> SUFFICES ASSUME NEW i \in 1..(m + 1) PROVE qs2[i].prog = acc2[(count + ahead) + i].prog
    BY <1>3 DEF QueuedOK
  <2>1. CASE i = m + 1
    <3>1. (count + ahead) + i = l + 1
      BY <1>2, <1>4, <2>1
    <3> QED BY <1>3, <2>1, <3>1
  <2>2. CASE i # m + 1
    <3>1. i \in 1..m /\ (count + ahead) + i \in 1..l
      BY <1>2, <1>4, <2>2
    <3>2. qs[i].prog = acc[(count + ahead) + i].prog
      BY <1>1, <3>1 DEF QueuedOK, m
    <3> QED BY <1>3, <3>1, <3>2
  <2> QED BY <2>1, <2>2
<1>9. OnlyHeadBegun(qs2, ahead)
  <2> SUFFICES ASSUME NEW i \in 1..(m + 1), i > 1 \/ ahead = 1 PROVE qs2[i].stack = <<>>
    BY <1>3 DEF OnlyHeadBegun
  <2>1. CASE i = m + 1
    BY <1>3, <2>1
  <2>2. CASE i # m + 1
    <3>1. i \in 1..m
      BY <1>2, <2>2
    <3>2. qs[i].stack = <<>>
      BY <1>1, <3>1 DEF OnlyHeadBegun, m
    <3> QED BY <1>3, <3>1, <3>2
  <2> QED BY <2>1, <2>2
<1>10. ExecutedTo(acc2, qs2, ahead, spot, x, base, tr, count, text)
  <2>1. count \in 0..l
    BY <1>2, <1>4
  <2>2. tr = DueTo(acc2, count) \o text
    BY <1>1, <1>6, <2>1 DEF ExecutedTo
  <2>3. CASE ahead = 1
    <3>1. count + 1 \in 1..l
      BY <1>2, <1>4, <2>3
    <3> QED BY <1>1, <1>3, <2>2, <2>3, <3>1 DEF ExecutedTo
  <2>4. CASE ahead # 1
    <3>1. CASE qs = <<>>
      <4>1. m = 0 /\ text = <<>>
        BY <1>1, <1>3, <2>4, <3>1 DEF ExecutedTo
      <4>2. qs2[1] = sub
        BY <1>3, <4>1
      <4>3. Rests(qs2[1], text)
        BY <4>1, <4>2 DEF Rests
      <4> QED BY <1>3, <2>2, <2>4, <4>3 DEF ExecutedTo
    <3>2. CASE qs # <<>>
      <4>1. 1 \in 1..m
        BY <1>2, <1>3, <3>2
      <4>2. qs2[1] = qs[1]
        BY <1>3, <4>1
      <4> QED BY <1>1, <1>3, <2>2, <2>4, <3>2, <4>2 DEF ExecutedTo
    <3> QED BY <3>1, <3>2
  <2> QED BY <2>3, <2>4
<1> QED BY <1>1, <1>5, <1>7, <1>8, <1>9, <1>10 DEF HistoryOK, acc2, qs2

\* The head of the queue is taken up.
LEMMA HistoryTakes ==
  ASSUME NEW acc \in Seq(Acceptances), NEW qs \in Seq(Submissions), qs # <<>>,
         NEW spot, NEW x, NEW base, NEW tr, HistoryOK(acc, qs, 0, spot, x, base, tr),
         NEW head, head = Head(qs), NEW rest, rest = Tail(qs)
  PROVE  HistoryOK(acc, rest, 1, "begin", head, base, tr)
<1> DEFINE l == Len(acc)
           m == Len(qs)
<1>1. PICK count \in Nat, text \in Texts :
        /\ count = FinishedCount(acc, qs, 0) /\ DueOK(acc)
        /\ QueuedOK(acc, qs, count + 0) /\ OnlyHeadBegun(qs, 0)
        /\ ExecutedTo(acc, qs, 0, spot, x, base, tr, count, text)
  BY DEF HistoryOK
<1>2. l \in Nat /\ m \in Nat /\ m >= 1
  OBVIOUS
<1>3. head = qs[1] /\ Len(rest) = m - 1 /\ \A i \in 1..(m - 1) : rest[i] = qs[i + 1]
  <2>1. Head(qs) = qs[1] /\ Tail(qs) \in Seq(Submissions) /\ Len(Tail(qs)) = Len(qs) - 1
        /\ \A i \in 1..Len(Tail(qs)) : Tail(qs)[i] = qs[i + 1]
    BY HeadTailProperties
  <2> QED BY <2>1
<1>4. count + m + 0 = l
  BY <1>1, <1>2 DEF FinishedCount, l, m
<1>5. count = FinishedCount(acc, rest, 1)
  <2> HIDE DEF l, m
  <2>1. (l - (m - 1)) - 1 = count
    BY <1>2, <1>4
  <2> QED BY <1>3, <2>1 DEF FinishedCount, l
<1>6. QueuedOK(acc, rest, count + 1)
  <2> SUFFICES ASSUME NEW i \in 1..(m - 1) PROVE rest[i].prog = acc[(count + 1) + i].prog
    BY <1>3 DEF QueuedOK
  <2> HIDE DEF l, m
  <2>1. i + 1 \in 1..m /\ (count + 0) + (i + 1) = (count + 1) + i
    BY <1>2
  <2>2. qs[i + 1].prog = acc[(count + 0) + (i + 1)].prog
    BY <1>1, <2>1 DEF QueuedOK, m
  <2> QED BY <1>3, <2>1, <2>2
<1>7. OnlyHeadBegun(rest, 1)
  <2> SUFFICES ASSUME NEW i \in 1..(m - 1) PROVE rest[i].stack = <<>>
    BY <1>3 DEF OnlyHeadBegun
  <2> HIDE DEF l, m
  <2>1. i + 1 \in 1..m /\ i + 1 > 1
    BY <1>2
  <2>2. qs[i + 1].stack = <<>>
    BY <1>1, <2>1 DEF OnlyHeadBegun, m
  <2> QED BY <1>3, <2>2
<1>8. ExecutedTo(acc, rest, 1, "begin", head, base, tr, count, text)
  <2>1. tr = DueTo(acc, count) \o text /\ Rests(head, text)
    BY <1>1, <1>3 DEF ExecutedTo
  <2>2. Works("begin", head, base, text)
    BY <2>1 DEF Works
  <2>3. head.prog = acc[count + 1].prog
    <3> HIDE DEF l, m
    <3>1. 1 \in 1..m /\ (count + 0) + 1 = count + 1
      BY <1>2
    <3>2. qs[1].prog = acc[(count + 0) + 1].prog
      BY <1>1, <3>1 DEF QueuedOK, m
    <3> QED BY <1>3, <3>1, <3>2
  <2> QED BY <2>1, <2>2, <2>3 DEF ExecutedTo
<1> QED BY <1>1, <1>5, <1>6, <1>7, <1>8 DEF HistoryOK

\* The submission in work gets on, and executes more.
LEMMA HistoryWorks ==
  ASSUME NEW acc, NEW qs, NEW spot, NEW x, NEW base, NEW tr \in Texts,
         acc \in Seq(Acceptances), qs \in Seq(Submissions),
         HistoryOK(acc, qs, 1, spot, x, base, tr),
         NEW spot2, NEW x2, NEW base2, NEW more \in Texts, x2.prog = x.prog,
         \A text \in Texts : Works(spot, x, base, text) => Works(spot2, x2, base2, text \o more)
  PROVE  HistoryOK(acc, qs, 1, spot2, x2, base2, tr \o more)
<1>1. PICK count \in Nat, text \in Texts :
        /\ count = FinishedCount(acc, qs, 1) /\ DueOK(acc)
        /\ QueuedOK(acc, qs, count + 1) /\ OnlyHeadBegun(qs, 1)
        /\ ExecutedTo(acc, qs, 1, spot, x, base, tr, count, text)
  BY DEF HistoryOK
<1>2. tr = DueTo(acc, count) \o text /\ x.prog = acc[count + 1].prog /\ Works(spot, x, base, text)
  BY <1>1 DEF ExecutedTo
<1>3. DueTo(acc, count) \in Texts
  <2>1. Len(acc) \in Nat /\ Len(qs) \in Nat
    OBVIOUS
  <2>2. count \in 0..Len(acc)
    BY <1>1, <2>1 DEF FinishedCount
  <2> QED BY <2>2, DueFacts
<1>4. tr \o more = DueTo(acc, count) \o (text \o more) /\ text \o more \in Texts
  BY <1>2, <1>3, TextsFacts
<1>5. ExecutedTo(acc, qs, 1, spot2, x2, base2, tr \o more, count, text \o more)
  BY <1>2, <1>4 DEF ExecutedTo
<1> QED BY <1>1, <1>4, <1>5 DEF HistoryOK

\* It is complete.
LEMMA HistoryEnds ==
  ASSUME NEW acc \in Seq(Acceptances), NEW qs \in Seq(Submissions), NEW x, x.stack = <<>>,
         NEW base, NEW tr \in Texts, HistoryOK(acc, qs, 1, "finish", x, base, tr),
         NEW spot2, NEW x2, NEW base2
  PROVE  HistoryOK(acc, qs, 0, spot2, x2, base2, tr)
<1> DEFINE l == Len(acc)
           m == Len(qs)
<1>1. PICK count \in Nat, text \in Texts :
        /\ count = FinishedCount(acc, qs, 1) /\ DueOK(acc)
        /\ QueuedOK(acc, qs, count + 1) /\ OnlyHeadBegun(qs, 1)
        /\ ExecutedTo(acc, qs, 1, "finish", x, base, tr, count, text)
  BY DEF HistoryOK
<1>2. l \in Nat /\ m \in Nat
  OBVIOUS
<1>3. tr = DueTo(acc, count) \o text /\ x.prog = acc[count + 1].prog
        /\ Works("finish", x, base, text)
  BY <1>1 DEF ExecutedTo
<1>4. text = FlatProgram[x.prog]
  BY <1>3 DEF Works
<1>5. count + m + 1 = l
  BY <1>1, <1>2 DEF FinishedCount, l, m
<1> HIDE DEF l, m
<1>6. count + 1 \in Nat /\ count + 1 = (l - m) - 0 /\ count + 1 \in 1..l /\ count + 1 # 0
        /\ (count + 1) - 1 = count
  BY <1>2, <1>5
<1>7. count + 1 = FinishedCount(acc, qs, 0)
  BY <1>6 DEF FinishedCount, l, m
<1>8. DueTo(acc, count + 1) = tr
  <2>1. acc[count + 1].due = DueTo(acc, (count + 1) - 1) \o FlatProgram[acc[count + 1].prog]
    BY <1>1, <1>6 DEF DueOK, l
  <2> QED BY <1>3, <1>4, <1>6, <2>1 DEF DueTo
<1>9. tr = tr \o <<>> /\ <<>> \in Texts
  BY TextsFacts
<1>10. QueuedOK(acc, qs, (count + 1) + 0)
  <2>1. (count + 1) + 0 = count + 1
    BY <1>6
  <2> QED BY <1>1, <2>1
<1>11. OnlyHeadBegun(qs, 0)
  BY <1>1 DEF OnlyHeadBegun
<1>12. ExecutedTo(acc, qs, 0, spot2, x2, base2, tr, count + 1, <<>>)
  <2>1. qs # <<>> => Rests(qs[1], <<>>)
    <3> SUFFICES ASSUME qs # <<>> PROVE Rests(qs[1], <<>>)
      OBVIOUS
    <3>1. 1 \in 1..Len(qs)
      OBVIOUS
    <3>2. qs[1].stack = <<>>
      BY <1>1, <3>1 DEF OnlyHeadBegun
    <3> QED BY <3>2 DEF Rests
  <2> QED BY <1>8, <1>9, <2>1 DEF ExecutedTo
<1> QED BY <1>1, <1>6, <1>7, <1>9, <1>10, <1>11, <1>12 DEF HistoryOK

\* It has to wait and goes back to the front of its queue.
LEMMA HistoryBlocks ==
  ASSUME NEW acc \in Seq(Acceptances), NEW qs \in Seq(Submissions), NEW x, x.stack # <<>>,
         NEW base, NEW tr \in Texts, HistoryOK(acc, qs, 1, "finish", x, base, tr),
         NEW y \in Submissions, y.prog = x.prog, y.stack = x.stack,
         NEW spot2, NEW x2, NEW base2
  PROVE  HistoryOK(acc, <<y>> \o qs, 0, spot2, x2, base2, tr)
<1> DEFINE l == Len(acc)
           m == Len(qs)
           qs2 == <<y>> \o qs
<1>1. PICK count \in Nat, text \in Texts :
        /\ count = FinishedCount(acc, qs, 1) /\ DueOK(acc)
        /\ QueuedOK(acc, qs, count + 1) /\ OnlyHeadBegun(qs, 1)
        /\ ExecutedTo(acc, qs, 1, "finish", x, base, tr, count, text)
  BY DEF HistoryOK
<1>2. l \in Nat /\ m \in Nat
  OBVIOUS
<1>3. tr = DueTo(acc, count) \o text /\ x.prog = acc[count + 1].prog
        /\ Works("finish", x, base, text)
  BY <1>1 DEF ExecutedTo
<1>4. Rests(y, text)
  BY <1>3 DEF Works, Rests
<1>5. count + m + 1 = l
  BY <1>1, <1>2 DEF FinishedCount, l, m
<1>6. /\ Len(qs2) = m + 1 /\ qs2[1] = y /\ qs2 # <<>>
      /\ \A i \in 1..(m + 1) : i = 1 \/ (i - 1 \in 1..m /\ qs2[i] = qs[i - 1])
  <2>1. <<y>> \in Seq(Submissions) /\ Len(<<y>>) = 1 /\ <<y>>[1] = y
    OBVIOUS
  <2>2. /\ qs2 \in Seq(Submissions) /\ Len(qs2) = 1 + m
        /\ \A i \in 1..(1 + m) : qs2[i] = IF i <= 1 THEN <<y>>[i] ELSE qs[i - 1]
    BY <2>1, ConcatProperties
  <2> HIDE DEF qs2, m
  <2>3. Len(qs2) = m + 1 /\ 1 \in 1..(1 + m) /\ m + 1 >= 1
    BY <1>2, <2>2
  <2>4. qs2[1] = y
    BY <2>1, <2>2, <2>3
  <2>5. ASSUME NEW i \in 1..(m + 1) PROVE i = 1 \/ (i - 1 \in 1..m /\ qs2[i] = qs[i - 1])
    <3>1. i \in 1..(1 + m) /\ (i # 1 => ~(i <= 1) /\ i - 1 \in 1..m)
      BY <1>2
    <3> QED BY <2>2, <3>1
  <2>6. qs2 # <<>>
    BY <1>2, <2>3
  <2> QED BY <2>3, <2>4, <2>5, <2>6
<1> HIDE DEF l, m, qs2
<1>7. count = FinishedCount(acc, qs2, 0)
  <2>1. (l - (m + 1)) - 0 = count
    BY <1>2, <1>5
  <2> QED BY <1>6, <2>1 DEF FinishedCount, l
<1>8. QueuedOK(acc, qs2, count + 0)
  <2> SUFFICES ASSUME NEW i \in 1..(m + 1) PROVE qs2[i].prog = acc[(count + 0) + i].prog
    BY <1>6 DEF QueuedOK
  <2>1. CASE i = 1
    <3>1. (count + 0) + i = count + 1
      BY <2>1
    <3> QED BY <1>3, <1>6, <2>1, <3>1
  <2>2. CASE i # 1
    <3>1. i - 1 \in 1..m /\ qs2[i] = qs[i - 1]
      BY <1>6, <2>2
    <3>2. (count + 1) + (i - 1) = (count + 0) + i
      BY <1>2
    <3>3. qs[i - 1].prog = acc[(count + 1) + (i - 1)].prog
      BY <1>1, <3>1 DEF QueuedOK, m
    <3> QED BY <3>1, <3>2, <3>3
  <2> QED BY <2>1, <2>2
<1>9. OnlyHeadBegun(qs2, 0)
  <2> SUFFICES ASSUME NEW i \in 1..(m + 1), i > 1 PROVE qs2[i].stack = <<>>
    BY <1>6 DEF OnlyHeadBegun
  <2>1. i - 1 \in 1..m /\ qs2[i] = qs[i - 1]
    BY <1>6
  <2>2. qs[i - 1].stack = <<>>
    BY <1>1, <2>1 DEF OnlyHeadBegun, m
  <2> QED BY <2>1, <2>2
<1>10. ExecutedTo(acc, qs2, 0, spot2, x2, base2, tr, count, text)
  BY <1>3, <1>4, <1>6 DEF ExecutedTo
<1> QED BY <1>1, <1>7, <1>8, <1>9, <1>10 DEF HistoryOK, qs2

\* Heads are blocked or not.
LEMMA HistoryUnblocks ==
  ASSUME NEW acc \in Seq(Acceptances), NEW qs \in Seq(Submissions),
         NEW spot, NEW x, NEW base, NEW tr, HistoryOK(acc, qs, 0, spot, x, base, tr),
         NEW qs2 \in Seq(Submissions), Len(qs2) = Len(qs),
         \A i \in 1..Len(qs) : qs2[i].prog = qs[i].prog /\ qs2[i].stack = qs[i].stack
  PROVE  HistoryOK(acc, qs2, 0, spot, x, base, tr)
<1>1. PICK count \in Nat, text \in Texts :
        /\ count = FinishedCount(acc, qs, 0) /\ DueOK(acc)
        /\ QueuedOK(acc, qs, count + 0) /\ OnlyHeadBegun(qs, 0)
        /\ ExecutedTo(acc, qs, 0, spot, x, base, tr, count, text)
  BY DEF HistoryOK
<1>2. count = FinishedCount(acc, qs2, 0)
  BY <1>1 DEF FinishedCount
<1>3. QueuedOK(acc, qs2, count + 0)
  BY <1>1 DEF QueuedOK
<1>4. OnlyHeadBegun(qs2, 0)
  BY <1>1 DEF OnlyHeadBegun
<1>5. ExecutedTo(acc, qs2, 0, spot, x, base, tr, count, text)
  <2>1. tr = DueTo(acc, count) \o text
    BY <1>1 DEF ExecutedTo
  <2>2. CASE qs = <<>>
    <3>1. qs2 = <<>> /\ text = <<>>
      BY <1>1, <2>2 DEF ExecutedTo
    <3> QED BY <2>1, <3>1 DEF ExecutedTo
  <2>3. CASE qs # <<>>
    <3>1. 1 \in 1..Len(qs) /\ qs2 # <<>>
      BY <2>3
    <3>2. Rests(qs[1], text)
      BY <1>1, <2>3 DEF ExecutedTo
    <3>3. Rests(qs2[1], text)
      BY <3>1, <3>2 DEF Rests
    <3> QED BY <2>1, <3>1, <3>3 DEF ExecutedTo
  <2> QED BY <2>2, <2>3
<1> QED BY <1>1, <1>2, <1>3, <1>4, <1>5 DEF HistoryOK

\* What is due grows.
LEMMA DueContinues ==
  ASSUME NEW acc \in Seq(Acceptances), DueOK(acc), NEW i \in 0..Len(acc)
  PROVE  Continues(DueTo(acc, i), DueTo(acc, Len(acc)))
<1> DEFINE l == Len(acc)
           D(k) == DueTo(acc, k)
           Bad == {d \in Nat : \E k \in 0..l : k + d = l /\ ~Continues(D(k), D(l))}
<1>1. l \in Nat
  OBVIOUS
<1>2. \A k \in 0..l : D(k) \in Texts
  BY DueFacts
<1>3. ASSUME NEW k \in 0..l, k # l PROVE Continues(D(k), D(k + 1))
  <2>1. k + 1 \in 1..l /\ (k + 1) - 1 = k /\ k + 1 # 0
    BY <1>1, <1>3
  <2>2. acc[k + 1].due = D(k) \o FlatProgram[acc[k + 1].prog]
    BY <2>1 DEF DueOK
  <2>3. FlatProgram[acc[k + 1].prog] \in Texts
    <3>1. acc[k + 1] \in Acceptances
      BY <2>1, DueFacts
    <3> QED BY <3>1, ProgramFacts DEF Acceptances
  <2>4. D(k + 1) = acc[k + 1].due
    BY <2>1 DEF DueTo
  <2>5. D(k) \in Texts
    BY <1>2
  <2>6. \A u \in Texts : Continues(D(k), D(k) \o u)
    BY <2>5, ContinuesFacts
  <2> HIDE DEF D
  <2> QED BY <2>2, <2>3, <2>4, <2>6
<1> HIDE DEF D, l
<1>4. SUFFICES ASSUME Bad # {} PROVE FALSE
  <2>1. i \in 0..l /\ l - i \in Nat /\ i + (l - i) = l
    BY <1>1 DEF l
  <2>2. Continues(D(i), D(l))
    <3>1. l - i \notin Bad
      BY <1>4
    <3> QED BY <2>1, <3>1
  <2> QED BY <2>2 DEF D, l
<1>5. PICK d \in Bad : \A e \in Bad : d <= e
  <2>1. Bad \subseteq Nat
    OBVIOUS
  <2> HIDE DEF Bad
  <2> QED BY <1>4, <2>1, LeastNat
<1>6. PICK k \in 0..l : k + d = l /\ ~Continues(D(k), D(l))
  OBVIOUS
<1>7. k # l
  BY <1>1, <1>2, <1>6, ContinuesFacts
<1>8. k + 1 \in 0..l /\ d - 1 \in Nat /\ (k + 1) + (d - 1) = l
  BY <1>1, <1>6, <1>7
<1>9. Continues(D(k + 1), D(l))
  <2>1. d - 1 \notin Bad
    <3>1. d \in Nat
      OBVIOUS
    <3> HIDE DEF Bad
    <3> QED BY <1>5, <1>8, <3>1
  <2> QED BY <1>8, <2>1
<1>10. D(k) \in Texts
  BY <1>2
<1> QED BY <1>3, <1>6, <1>7, <1>9, <1>10, ContinuesFacts

\* A submission's packets are executed from the first on.
LEMMA PartOfSubmission ==
  ASSUME NEW x, x.prog \in DOMAIN Programs, NEW text \in Texts
  PROVE  /\ Rests(x, text) => Continues(text, FlatProgram[x.prog])
         /\ \A spot, base : Works(spot, x, base, text) => Continues(text, FlatProgram[x.prog])
<1>1. FlatProgram[x.prog] \in Texts
  BY ProgramFacts
<1>2. Continues(<<>>, FlatProgram[x.prog])
  BY <1>1, TextsFacts DEF Continues
<1>3. Continues(FlatProgram[x.prog], FlatProgram[x.prog])
  BY <1>1, ContinuesFacts
<1>4. ASSUME Waiting(x.prog, x.stack, text) PROVE Continues(text, FlatProgram[x.prog])
  <2>1. /\ Programs[x.prog].type # "flip" /\ x.stack # <<>>
        /\ StackOK(x.prog, x.stack) /\ Executed(x.stack, text)
    BY <1>4 DEF Waiting
  <2> QED BY <2>1, PartOfProgram
<1>5. ASSUME NEW base, Looping(x.prog, x.stack, base, text)
      PROVE  Continues(text, FlatProgram[x.prog])
  <2>1. CASE x.stack = <<>>
    BY <1>3, <1>5, <2>1 DEF Looping
  <2>2. CASE x.stack # <<>>
    <3>1. Programs[x.prog].type # "flip" /\ StackOK(x.prog, x.stack) /\ Executed(x.stack, text)
      BY <1>5, <2>2 DEF Looping
    <3> QED BY <2>2, <3>1, PartOfProgram
  <2> QED BY <2>1, <2>2
<1>6. Rests(x, text) => Continues(text, FlatProgram[x.prog])
  BY <1>2, <1>4 DEF Rests
<1>7. ASSUME NEW spot, NEW base, Works(spot, x, base, text)
      PROVE  Continues(text, FlatProgram[x.prog])
  BY <1>2, <1>3, <1>4, <1>5, <1>6, <1>7 DEF Works
<1> QED BY <1>6, <1>7

\* What a queue executed is a part of what is due.
LEMMA HistoryInOrder ==
  ASSUME NEW acc \in Seq(Acceptances), NEW qs \in Seq(Submissions), NEW ahead \in {0, 1},
         NEW spot, NEW x, NEW base, NEW tr \in Texts, HistoryOK(acc, qs, ahead, spot, x, base, tr)
  PROVE  /\ IsPrefix(tr, DueTo(acc, Len(acc)))
         /\ qs = <<>> /\ ahead = 0 => tr = DueTo(acc, Len(acc))
<1> DEFINE l == Len(acc)
           m == Len(qs)
<1>1. PICK count \in Nat, text \in Texts :
        /\ count = FinishedCount(acc, qs, ahead) /\ DueOK(acc)
        /\ QueuedOK(acc, qs, count + ahead) /\ OnlyHeadBegun(qs, ahead)
        /\ ExecutedTo(acc, qs, ahead, spot, x, base, tr, count, text)
  BY DEF HistoryOK
<1>2. l \in Nat /\ m \in Nat /\ (qs = <<>> => m = 0) /\ (qs # <<>> => m >= 1)
  OBVIOUS
<1>3. count + m + ahead = l
  BY <1>1, <1>2 DEF FinishedCount, l, m
<1>4. tr = DueTo(acc, count) \o text
  BY <1>1 DEF ExecutedTo
<1> HIDE DEF l, m
<1>5. /\ DueTo(acc, count) \in Texts /\ DueTo(acc, l) \in Texts
      /\ Continues(DueTo(acc, count), DueTo(acc, l))
  <2>1. count \in 0..l /\ l \in 0..l
    BY <1>2, <1>3
  <2> QED BY <1>1, <2>1, DueFacts, DueContinues DEF l
<1>6. CASE qs = <<>> /\ ahead = 0
  <2>1. count = l
    BY <1>2, <1>3, <1>6
  <2>2. text = <<>>
    BY <1>1, <1>6 DEF ExecutedTo
  <2>3. tr = DueTo(acc, l)
    BY <1>4, <1>5, <2>1, <2>2, TextsFacts
  <2>4. IsPrefix(tr, DueTo(acc, l))
    BY <1>5, <2>3, ContinuesFacts, ContinuesIsPrefix
  <2> QED BY <2>3, <2>4 DEF l
<1>7. CASE ~(qs = <<>> /\ ahead = 0)
  <2>1. count + 1 \in 1..l /\ count + 1 \in 0..l /\ count + 1 # 0 /\ (count + 1) - 1 = count
    BY <1>2, <1>3, <1>7
  <2> DEFINE p == acc[count + 1].prog
  <2>2. p \in DOMAIN Programs
    <3>1. acc[count + 1] \in Acceptances
      BY <2>1, DueFacts DEF l
    <3> QED BY <3>1 DEF Acceptances
  <2>3. Continues(text, FlatProgram[p])
    <3>1. CASE ahead = 1
      <4>1. x.prog = p /\ Works(spot, x, base, text)
        BY <1>1, <3>1 DEF ExecutedTo
      <4> HIDE DEF p
      <4> QED BY <2>2, <4>1, PartOfSubmission
    <3>2. CASE ahead = 0
      <4>1. qs # <<>> /\ Rests(qs[1], text)
        BY <1>1, <1>7, <3>2 DEF ExecutedTo
      <4>2. qs[1].prog = p
        <5>1. 1 \in 1..m /\ (count + 0) + 1 = count + 1
          BY <1>2, <4>1
        <5>2. qs[1].prog = acc[(count + 0) + 1].prog
          BY <1>1, <3>2, <5>1 DEF QueuedOK, m
        <5> QED BY <5>1, <5>2
      <4> HIDE DEF p
      <4> QED BY <2>2, <4>1, <4>2, PartOfSubmission
    <3> QED BY <3>1, <3>2
  <2>4. DueTo(acc, count + 1) = DueTo(acc, count) \o FlatProgram[p]
    <3>1. acc[count + 1].due = DueTo(acc, (count + 1) - 1) \o FlatProgram[p]
      BY <1>1, <2>1 DEF DueOK, l
    <3> HIDE DEF p
    <3> QED BY <2>1, <3>1 DEF DueTo
  <2>5. FlatProgram[p] \in Texts
    BY <2>2, ProgramFacts
  <2> HIDE DEF p
  <2>6. Continues(tr, DueTo(acc, count + 1))
    <3>1. Continues(DueTo(acc, count) \o text, DueTo(acc, count) \o FlatProgram[p])
      BY <1>5, <2>3, <2>5, ContinuesFacts
    <3> QED BY <1>4, <2>4, <3>1
  <2>7. Continues(DueTo(acc, count + 1), DueTo(acc, l))
    BY <1>1, <2>1, DueContinues DEF l
  <2>8. Continues(tr, DueTo(acc, l))
    BY <2>6, <2>7, ContinuesFacts
  <2>9. IsPrefix(tr, DueTo(acc, l))
    BY <1>5, <2>8, ContinuesIsPrefix
  <2> QED BY <1>7, <2>9 DEF l
<1> QED BY <1>6, <1>7

-----------------------------------------------------------------------------
(* The inductive invariant.                                                *)

Slice == {"begin", "pass", "exec", "end", "finish"}
Spots == Slice \cup {"select", "asleep", "nap", "command", "ran", "stopping", "stopped"}

Types ==
  /\ queues \in [Queues -> Seq(Submissions)] /\ commands \in Seq(Command)
  /\ nextQueue \in Queues /\ processing \in BOOLEAN /\ stopping \in BOOLEAN
  /\ idlers \subseteq Guests /\ gpc \in Spots
  /\ run \in [base : Nat, made : BOOLEAN, progressed : BOOLEAN]
  /\ work \in [recorded : BOOLEAN, submitted : BOOLEAN]
  /\ labels \subseteq Labels /\ fresh \in BOOLEAN
  /\ guest \in [Guests -> {"free", "answer", "idle", "send", "flush"}]
  /\ accepted \in [Queues -> Seq(Acceptances)] /\ trace \in [Queues -> Texts]

\* What the thread works on.
TaskOK ==
  /\ task \in Submissions \cup Command \cup {Nothing}
  /\ IsSub(task) <=> gpc \in Slice
  /\ gpc = "command" => task \in Command
  /\ gpc \in Slice \cup {"command", "ran"} => processing

QueuesOK == \A q \in Queues : \A i \in 1..Len(queues[q]) : QueueOf(queues[q][i]) = q

InWork(q) == IF IsSub(task) /\ QueueOf(task) = q THEN 1 ELSE 0

\* Each queue executes what was submitted to it.
Histories ==
  \A q \in Queues :
    HistoryOK(accepted[q], queues[q], InWork(q), gpc, task, run.base, trace[q])

Reply(c) == IF c.kind = "sync" THEN "answer" ELSE "flush"

\* A thread has one command under way.
CommandsOK ==
  /\ \A i \in 1..Len(commands) :
       /\ guest[commands[i].from] = Reply(commands[i])
       /\ \A j \in 1..Len(commands) : i # j => commands[i].from # commands[j].from
       /\ gpc = "command" => commands[i].from # task.from
  /\ gpc = "command" => guest[task.from] = Reply(task)

\* While a thread is in Done, nothing is submitted.
DonesOK == \A g \in Guests : guest[g] \in {"send", "flush"} => NoSubmissions /\ ~IsSub(task)

GpuInv == Types /\ TaskOK /\ QueuesOK /\ Histories /\ CommandsOK /\ DonesOK

\* The invariant holds at the start.
LEMMA GpuInvInit == GpuInit => GpuInv
<1> SUFFICES ASSUME GpuInit PROVE GpuInv
  OBVIOUS
<1> USE DEF GpuInit
<1>1. Types
  <2>1. 0 \in Queues
    BY GpuThreadAssumption
  <2>2. queues \in [Queues -> Seq(Submissions)] /\ accepted \in [Queues -> Seq(Acceptances)]
    OBVIOUS
  <2>3. trace \in [Queues -> Texts]
    BY TextsFacts
  <2>4. run \in [base : Nat, made : BOOLEAN, progressed : BOOLEAN]
    BY DEF NoRun
  <2>5. commands \in Seq(Command) /\ gpc \in Spots
    BY DEF Spots
  <2> QED BY <2>1, <2>2, <2>3, <2>4, <2>5 DEF Types
<1>2. TaskOK
  BY DEF TaskOK, Nothing, IsSub, Slice
<1>3. QueuesOK
  <2>1. \A q \in Queues : Len(queues[q]) = 0
    OBVIOUS
  <2> QED BY <2>1 DEF QueuesOK
<1>4. Histories
  <2> SUFFICES ASSUME NEW q \in Queues
               PROVE  HistoryOK(accepted[q], queues[q], InWork(q), gpc, task, run.base, trace[q])
    BY DEF Histories
  <2>1. accepted[q] = <<>> /\ queues[q] = <<>> /\ trace[q] = <<>>
    OBVIOUS
  <2>2. InWork(q) = 0
    BY DEF InWork, Nothing, IsSub
  <2>3. HistoryOK(<<>>, <<>>, 0, gpc, task, run.base, <<>>)
    <3>1. \A i \in 1..0 : FALSE
      OBVIOUS
    <3>2. FinishedCount(<<>>, <<>>, 0) = 0 /\ Len(<<>>) = 0
      BY DEF FinishedCount
    <3>3. DueOK(<<>>) /\ QueuedOK(<<>>, <<>>, 0 + 0) /\ OnlyHeadBegun(<<>>, 0)
      BY <3>1, <3>2 DEF DueOK, QueuedOK, OnlyHeadBegun
    <3>4. DueTo(<<>>, 0) = <<>>
      BY DEF DueTo
    <3>5. <<>> \o <<>> = <<>> /\ <<>> \in Texts
      BY TextsFacts
    <3>6. ExecutedTo(<<>>, <<>>, 0, gpc, task, run.base, <<>>, 0, <<>>)
      BY <3>4, <3>5 DEF ExecutedTo
    <3> QED BY <3>2, <3>3, <3>5, <3>6 DEF HistoryOK
  <2> QED BY <2>1, <2>2, <2>3
<1>5. CommandsOK
  <2>1. Len(commands) = 0
    OBVIOUS
  <2> QED BY <2>1 DEF CommandsOK
<1>6. DonesOK
  BY DEF DonesOK
<1> QED BY <1>1, <1>2, <1>3, <1>4, <1>5, <1>6 DEF GpuInv

\* A program's queue.
LEMMA QueueFacts ==
  ASSUME NEW x \in Submissions
  PROVE  /\ x.prog \in DOMAIN Programs /\ QueueOf(x) \in Queues /\ IsSub(x)
         /\ x.stack \in Seq(Cursor) /\ x.blocked \in BOOLEAN
BY GpuThreadAssumption DEF Submissions, QueueOf, IsSub

\* A step that leaves the queues and the submission in work alone.
LEMMA HistoriesStay ==
  ASSUME Histories, UNCHANGED <<queues, accepted, trace>>,
         (~IsSub(task) /\ ~IsSub(task)') \/ UNCHANGED <<gpc, task, run>>
  PROVE  Histories'
<1> SUFFICES ASSUME NEW q \in Queues
             PROVE  HistoryOK(accepted[q], queues[q], InWork(q)', gpc', task', run'.base, trace[q])
  BY DEF Histories
<1>1. HistoryOK(accepted[q], queues[q], InWork(q), gpc, task, run.base, trace[q])
  BY DEF Histories
<1>2. CASE UNCHANGED <<gpc, task, run>>
  <2>1. InWork(q)' = InWork(q)
    BY <1>2 DEF InWork, IsSub, QueueOf
  <2> QED BY <1>1, <1>2, <2>1
<1>3. CASE ~IsSub(task) /\ ~IsSub(task)'
  <2>1. InWork(q) = 0 /\ InWork(q)' = 0
    BY <1>3 DEF InWork, IsSub
  <2> QED BY <1>1, <2>1, HistoryElsewhere
<1> QED BY <1>2, <1>3

\* A step of the slice of a submission, which executes more of it.
LEMMA SliceStep ==
  ASSUME GpuInv, IsSub(task), UNCHANGED <<locked, fresh, guest, accepted>>,
         gpc' \in Slice, task' \in Submissions, task'.prog = task.prog,
         run' \in [base : Nat, made : BOOLEAN, progressed : BOOLEAN],
         work' \in [recorded : BOOLEAN, submitted : BOOLEAN], labels' \subseteq Labels,
         NEW more \in Texts,
         trace' = [trace EXCEPT ![QueueOf(task)] = trace[QueueOf(task)] \o more],
         \A text \in Texts :
           Works(gpc, task, run.base, text) => Works(gpc', task', run'.base, text \o more)
  PROVE  GpuInv'
<1> DEFINE r == QueueOf(task)
<1>1. Types /\ TaskOK /\ QueuesOK /\ Histories /\ CommandsOK /\ DonesOK
  BY DEF GpuInv
<1>2. task \in Submissions /\ r \in Queues /\ r = QueueOf(task)'
  <2>1. task \in Submissions
    BY <1>1 DEF TaskOK, Command, Nothing, IsSub
  <2> QED BY <2>1, QueueFacts DEF QueueOf
<1>3. trace \in [Queues -> Texts] /\ trace[r] \in Texts /\ trace[r] \o more \in Texts
  <2>1. trace \in [Queues -> Texts]
    BY <1>1 DEF Types
  <2>2. trace[r] \in Texts
    BY <1>2, <2>1
  <2> QED BY <2>1, <2>2, TextsFacts
<1>4. IsSub(task)'
  BY DEF Submissions, IsSub
<1> HIDE DEF r
<1>5. Types'
  <2>1. trace' \in [Queues -> Texts]
    BY <1>2, <1>3 DEF r
  <2>2. gpc' \in Spots
    BY DEF Spots
  <2> QED BY <1>1, <2>1, <2>2 DEF Types, locked
<1>6. TaskOK'
  <2>1. processing
    BY <1>1 DEF TaskOK
  <2>2. gpc' # "command"
    BY DEF Slice
  <2> QED BY <1>4, <2>1, <2>2 DEF TaskOK, locked, IsSub
<1>7. QueuesOK'
  BY <1>1 DEF QueuesOK, locked, QueueOf
<1>8. Histories'
  <2> SUFFICES ASSUME NEW q \in Queues
               PROVE  HistoryOK(accepted[q], queues[q], InWork(q)', gpc', task', run'.base,
                                trace'[q])
    BY DEF Histories, locked
  <2>1. HistoryOK(accepted[q], queues[q], InWork(q), gpc, task, run.base, trace[q])
    BY <1>1 DEF Histories
  <2>2. accepted[q] \in Seq(Acceptances) /\ queues[q] \in Seq(Submissions)
    BY <1>1 DEF Types
  <2>3. CASE q = r
    <3>1. InWork(q) = 1 /\ InWork(q)' = 1
      BY <1>2, <1>4, <2>3 DEF InWork, r
    <3>2. trace'[q] = trace[q] \o more /\ trace[q] \in Texts
      BY <1>2, <1>3, <2>3 DEF r
    <3>3. HistoryOK(accepted[q], queues[q], 1, gpc', task', run'.base, trace[q] \o more)
      <4>1. HistoryOK(accepted[q], queues[q], 1, gpc, task, run.base, trace[q])
        BY <2>1, <3>1
      <4> QED BY <2>2, <3>2, <4>1, HistoryWorks
    <3> QED BY <3>1, <3>2, <3>3
  <2>4. CASE q # r
    <3>1. InWork(q) = 0 /\ InWork(q)' = 0
      BY <1>2, <2>4 DEF InWork, r
    <3>2. trace'[q] = trace[q]
      BY <1>2, <1>3, <2>4 DEF r
    <3> QED BY <2>1, <3>1, <3>2, HistoryElsewhere
  <2> QED BY <2>3, <2>4
<1>9. CommandsOK'
  <2>1. gpc' # "command"
    BY DEF Slice
  <2> QED BY <1>1, <2>1 DEF CommandsOK, locked, Reply
<1>10. DonesOK'
  BY <1>1 DEF DonesOK, locked, NoSubmissions
<1> QED BY <1>5, <1>6, <1>7, <1>8, <1>9, <1>10 DEF GpuInv

RunType == [base : Nat, made : BOOLEAN, progressed : BOOLEAN]

\* The submission in work; a step that executes nothing leaves the trace alone.
LEMMA TaskFacts ==
  ASSUME GpuInv, IsSub(task), NEW q, q = QueueOf(task)
  PROVE  /\ task \in Submissions /\ q \in Queues /\ trace[q] \in Texts
         /\ gpc \in Slice /\ run \in RunType /\ labels \subseteq Labels
         /\ work \in [recorded : BOOLEAN, submitted : BOOLEAN]
         /\ trace = [trace EXCEPT ![q] = trace[q] \o <<>>]
         /\ \E text \in Texts : Works(gpc, task, run.base, text)
<1>1. Types /\ TaskOK /\ Histories
  BY DEF GpuInv
<1>2. task \in Submissions /\ q \in Queues
  <2>1. task \in Submissions
    BY <1>1 DEF TaskOK, Command, Nothing, IsSub
  <2> QED BY <2>1, QueueFacts
<1>3. trace \in [Queues -> Texts] /\ trace[q] \in Texts /\ trace[q] \o <<>> = trace[q]
  BY <1>1, <1>2, TextsFacts DEF Types
<1>4. trace = [trace EXCEPT ![q] = trace[q] \o <<>>]
  BY <1>3
<1>5. HistoryOK(accepted[q], queues[q], 1, gpc, task, run.base, trace[q])
  <2>1. InWork(q) = 1
    BY DEF InWork
  <2> QED BY <1>1, <1>2, <2>1 DEF Histories
<1>6. \E text \in Texts : Works(gpc, task, run.base, text)
  BY <1>5 DEF HistoryOK, ExecutedTo
<1> QED BY <1>1, <1>2, <1>3, <1>4, <1>6 DEF Types, TaskOK, RunType

\* A stack of what is not executed.
LEMMA WorksWhere ==
  ASSUME NEW x, NEW spot, NEW base, NEW text, Works(spot, x, base, text)
  PROVE  /\ spot = "begin" => Rests(x, text)
         /\ spot = "pass" => Rests(x, text) /\ ~IsFlip(x)
         /\ spot = "exec" /\ IsFlip(x) => x.stack = <<>> /\ text = <<>>
         /\ spot = "exec" /\ ~IsFlip(x) => Looping(x.prog, x.stack, base, text)
         /\ spot \in {"end", "finish"} =>
              IF x.stack = <<>> THEN text = FlatProgram[x.prog] ELSE Waiting(x.prog, x.stack, text)
<1>1. Looping(x.prog, x.stack, base, text) => ~IsFlip(x)
  BY DEF Looping, IsFlip
<1>2. spot = "begin" => Rests(x, text)
  BY DEF Works
<1>3. spot = "pass" => Rests(x, text) /\ ~IsFlip(x)
  BY DEF Works
<1>4. spot = "exec"
        => (IsFlip(x) /\ x.stack = <<>> /\ text = <<>>) \/ Looping(x.prog, x.stack, base, text)
  BY DEF Works
<1>5. spot \in {"end", "finish"} =>
        IF x.stack = <<>> THEN text = FlatProgram[x.prog] ELSE Waiting(x.prog, x.stack, text)
  <2> SUFFICES ASSUME spot \in {"end", "finish"}
               PROVE  IF x.stack = <<>> THEN text = FlatProgram[x.prog]
                         ELSE Waiting(x.prog, x.stack, text)
    OBVIOUS
  <2>1. spot # "begin" /\ spot # "pass" /\ spot # "exec"
    OBVIOUS
  <2> QED BY <2>1 DEF Works
<1> QED BY <1>1, <1>2, <1>3, <1>4, <1>5

\* A submission with another stack.
LEMMA NewStack ==
  ASSUME NEW x \in Submissions, NEW s \in Seq(Cursor), NEW y, y = [x EXCEPT !.stack = s]
  PROVE  y \in Submissions /\ y.prog = x.prog /\ y.stack = s
BY DEF Submissions

\* One iteration of the interpreter's loop.
LEMMA LoopStep ==
  ASSUME GpuInv, InLoop, UNCHANGED <<locked, gpc, fresh, guest, accepted>>,
         NEW next, task' = [task EXCEPT !.stack = next], run' \in RunType,
         work' \in [recorded : BOOLEAN, submitted : BOOLEAN], labels' \subseteq Labels,
         NEW more \in Texts,
         trace' = [trace EXCEPT ![QueueOf(task)] = trace[QueueOf(task)] \o more],
         \A text \in Texts : Looping(task.prog, task.stack, run.base, text)
                               => Looping(task.prog, next, run'.base, text \o more)
  PROVE  GpuInv'
<1>1. gpc = "exec" /\ IsSub(task) /\ ~IsFlip(task)
  BY DEF InLoop, Type, IsFlip
<1>2. task \in Submissions /\ \E text \in Texts : Works(gpc, task, run.base, text)
  BY <1>1, TaskFacts
<1>3. \A text \in Texts : Works(gpc, task, run.base, text)
                            => Looping(task.prog, next, run'.base, text \o more)
  <2> SUFFICES ASSUME NEW text \in Texts, Works(gpc, task, run.base, text)
               PROVE  Looping(task.prog, next, run'.base, text \o more)
    OBVIOUS
  <2>1. Looping(task.prog, task.stack, run.base, text)
    BY <1>1, WorksWhere
  <2> QED BY <2>1
<1>4. next \in Seq(Cursor)
  <2>1. PICK text \in Texts : Looping(task.prog, next, run'.base, text \o more)
    BY <1>2, <1>3
  <2> QED BY <2>1 DEF Looping, StackOK
<1>5. task' \in Submissions /\ task'.prog = task.prog /\ task'.stack = next
  BY <1>2, <1>4, NewStack
<1>6. \A text \in Texts : Works(gpc, task, run.base, text)
                            => Works(gpc', task', run'.base, text \o more)
  <2> SUFFICES ASSUME NEW text \in Texts, Works(gpc, task, run.base, text)
               PROVE  Works(gpc', task', run'.base, text \o more)
    OBVIOUS
  <2>1. Looping(task'.prog, task'.stack, run'.base, text \o more)
    BY <1>3, <1>5
  <2> QED BY <1>1, <2>1 DEF Works
<1>7. gpc' \in Slice
  BY <1>1 DEF Slice
<1> QED BY <1>1, <1>5, <1>6, <1>7, SliceStep DEF RunType

\* A pass that got on.
LEMMA MadeRun ==
  ASSUME run \in RunType, run' = [run EXCEPT !.made = TRUE]
  PROVE  run' \in RunType /\ run'.base = run.base
BY DEF RunType

\* The packets that take effect.
LEMMA AdvanceStep ==
  ASSUME GpuInv, NEW op, op # "call", AtPacket(op), Advance,
         UNCHANGED <<locked, fresh, guest, accepted>>,
         work' \in [recorded : BOOLEAN, submitted : BOOLEAN], labels' \subseteq Labels
  PROVE  GpuInv'
<1> DEFINE c == task.stack[Len(task.stack)]
           packet == Buffers[c.buf][c.pos]
           next == Past(task.stack, Len(task.stack))
           q == QueueOf(task)
<1>1. /\ InLoop /\ task.stack # <<>> /\ ~c.deferred /\ c.pos <= Len(Buffers[c.buf])
      /\ packet.op # "call" /\ IsSub(task)
  BY DEF AtPacket, Top, Depth, Packet, InLoop
<1>2. /\ task' = [task EXCEPT !.stack = next] /\ gpc' = gpc /\ run' = [run EXCEPT !.made = TRUE]
      /\ trace' = [trace EXCEPT ![q] = Append(trace[q], packet)]
  BY DEF Advance, Depth, Packet, Top
<1>3. run \in RunType /\ trace[q] \in Texts /\ \E text \in Texts : Works(gpc, task, run.base, text)
  BY <1>1, TaskFacts
<1>4. run' \in RunType /\ run'.base = run.base
  BY <1>2, <1>3, MadeRun
<1>5. \A text \in Texts : Looping(task.prog, task.stack, run.base, text)
        => /\ Looping(task.prog, next, run'.base, text \o <<packet>>) /\ <<packet>> \in Texts
  <2> SUFFICES ASSUME NEW text \in Texts, Looping(task.prog, task.stack, run.base, text)
               PROVE  /\ Looping(task.prog, next, run'.base, text \o <<packet>>)
                      /\ <<packet>> \in Texts
    OBVIOUS
  <2>1. c = task.stack[Len(task.stack)] /\ packet = Buffers[c.buf][c.pos]
          /\ next = Past(task.stack, Len(task.stack))
    OBVIOUS
  <2> HIDE DEF c, packet, next
  <2>2. /\ Looping(task.prog, Past(task.stack, Len(task.stack)), run.base, Append(text, packet))
        /\ Append(text, packet) = text \o <<packet>> /\ <<packet>> \in Texts
    BY <1>1, <2>1, LoopAdvances
  <2> QED BY <1>4, <2>1, <2>2
<1> HIDE DEF c, packet, next, q
<1>6. packet \in PacketSet /\ <<packet>> \in Texts
  <2>1. PICK text \in Texts : Works(gpc, task, run.base, text)
    BY <1>3
  <2>2. Looping(task.prog, task.stack, run.base, text)
    <3>1. gpc = "exec" /\ ~IsFlip(task)
      BY <1>1 DEF InLoop, Type, IsFlip
    <3> QED BY <2>1, <3>1, WorksWhere
  <2>3. <<packet>> \in Texts
    BY <1>5, <2>2
  <2>4. <<packet>>[1] \in PacketSet
    <3>1. Len(<<packet>>) = 1 /\ 1 \in 1..1
      OBVIOUS
    <3> QED BY <2>3, <3>1, ElementOfSeq DEF Texts
  <2> QED BY <2>3, <2>4
<1>7. Append(trace[q], packet) = trace[q] \o <<packet>>
  BY <1>3, <1>6, AppendIsConcat DEF Texts
<1>8. trace' = [trace EXCEPT ![QueueOf(task)] = trace[QueueOf(task)] \o <<packet>>]
  BY <1>2, <1>7 DEF q
<1> QED BY <1>1, <1>2, <1>4, <1>5, <1>6, <1>8, LoopStep

\* A draw takes effect.
LEMMA InvDraw == ASSUME GpuInv, Draw PROVE GpuInv'
<1>1. IsSub(task)
  BY DEF Draw, AtPacket, InLoop
<1>2. work \in [recorded : BOOLEAN, submitted : BOOLEAN] /\ labels \subseteq Labels
  BY <1>1, TaskFacts
<1>3. work' \in [recorded : BOOLEAN, submitted : BOOLEAN] /\ labels' \subseteq Labels
  BY <1>2 DEF Draw
<1>4. AtPacket("draw") /\ Advance /\ UNCHANGED <<locked, fresh, guest, accepted>>
  BY DEF Draw
<1> QED BY <1>3, <1>4, AdvanceStep

\* A write takes effect.
LEMMA InvWriteData == ASSUME GpuInv, WriteData PROVE GpuInv'
<1>1. IsSub(task) /\ InLoop
  BY DEF WriteData, AtPacket, InLoop
<1>2. work \in [recorded : BOOLEAN, submitted : BOOLEAN] /\ labels \subseteq Labels
  BY <1>1, TaskFacts
<1>3. Packet.arg \in Labels
  <2> DEFINE c == task.stack[Len(task.stack)]
  <2>1. c.pos <= Len(Buffers[c.buf]) /\ Buffers[c.buf][c.pos].op = "write" /\ task.stack # <<>>
    BY DEF WriteData, AtPacket, Top, Depth, Packet
  <2>2. PICK text \in Texts : Works(gpc, task, run.base, text)
    BY <1>1, TaskFacts
  <2>3. Looping(task.prog, task.stack, run.base, text)
    <3>1. gpc = "exec" /\ ~IsFlip(task)
      BY <1>1 DEF InLoop, Type, IsFlip
    <3> QED BY <2>2, <3>1, WorksWhere
  <2>4. c \in Cursor
    <3>1. c = task.stack[Len(task.stack)]
      OBVIOUS
    <3> HIDE DEF c
    <3> QED BY <2>1, <2>3, <3>1, LoopFacts
  <2> HIDE DEF c
  <2>5. c.buf \in DOMAIN Buffers /\ c.pos \in DOMAIN Buffers[c.buf]
    <3>1. c.buf \in DOMAIN Buffers /\ c.pos \in 1..Len(Buffers[c.buf])
      BY <2>1, <2>4, CursorFacts
    <3> QED BY <3>1, BufferFacts
  <2>6. Buffers[c.buf][c.pos].arg \in Labels
    BY <2>1, <2>5, GpuThreadAssumption
  <2> QED BY <2>6 DEF Packet, Top, Depth, c
<1>4. work' \in [recorded : BOOLEAN, submitted : BOOLEAN] /\ labels' \subseteq Labels
  BY <1>2, <1>3 DEF WriteData
<1>5. AtPacket("write") /\ Advance /\ UNCHANGED <<locked, fresh, guest, accepted>>
  BY DEF WriteData
<1> QED BY <1>4, <1>5, AdvanceStep

\* A wait is over, or suspends the interpreter.
LEMMA InvWaitRegMem == ASSUME GpuInv, WaitRegMem PROVE GpuInv'
<1> DEFINE q == QueueOf(task)
<1>1. IsSub(task) /\ InLoop /\ AtPacket("wait")
        /\ UNCHANGED <<locked, work, labels, fresh, guest, accepted>>
  BY DEF WaitRegMem, AtPacket, InLoop
<1>2. /\ work \in [recorded : BOOLEAN, submitted : BOOLEAN] /\ labels \subseteq Labels
      /\ task \in Submissions /\ run \in RunType /\ trace = [trace EXCEPT ![q] = trace[q] \o <<>>]
      /\ \E text \in Texts : Works(gpc, task, run.base, text)
  <2>1. q = QueueOf(task)
    OBVIOUS
  <2> HIDE DEF q
  <2> QED BY <1>1, <2>1, TaskFacts
<1>3. CASE Packet.arg \in labels
  <2>1. Advance
    BY <1>3 DEF WaitRegMem
  <2> QED BY <1>1, <1>2, <2>1, AdvanceStep
<1>4. CASE Packet.arg \notin labels
  <2> DEFINE next == SuspendPm4(task.stack)
  <2>1. task' = [task EXCEPT !.stack = next] /\ gpc' = "end" /\ run' = run /\ trace' = trace
    BY <1>4 DEF WaitRegMem
  <2>2. gpc = "exec" /\ ~IsFlip(task) /\ task.stack # <<>> /\ ~task.stack[Len(task.stack)].deferred
    BY <1>1 DEF InLoop, Type, IsFlip, AtPacket, Top, Depth
  <2>3. next = [i \in DOMAIN task.stack |->
                  IF run.base <= i /\ i < Len(task.stack)
                  THEN [task.stack[i] EXCEPT !.deferred = TRUE] ELSE task.stack[i]]
    BY DEF SuspendPm4
  <2> HIDE DEF next
  <2>4. ASSUME NEW text \in Texts, Works(gpc, task, run.base, text)
        PROVE  Waiting(task.prog, next, text)
    <3>1. Looping(task.prog, task.stack, run.base, text)
      BY <2>2, <2>4, WorksWhere
    <3> QED BY <2>2, <2>3, <3>1, LoopSuspends
  <2>5. next \in Seq(Cursor) /\ next # <<>>
    <3>1. PICK text \in Texts : Works(gpc, task, run.base, text)
      BY <1>2
    <3>2. Waiting(task.prog, next, text)
      BY <2>4, <3>1
    <3> QED BY <3>2 DEF Waiting, StackOK
  <2>6. task' \in Submissions /\ task'.prog = task.prog /\ task'.stack = next
    BY <1>2, <2>1, <2>5, NewStack
  <2>7. \A text \in Texts : Works(gpc, task, run.base, text)
          => Works(gpc', task', run'.base, text \o <<>>)
    <3> SUFFICES ASSUME NEW text \in Texts, Works(gpc, task, run.base, text)
                 PROVE  Works(gpc', task', run'.base, text \o <<>>)
      OBVIOUS
    <3>1. Waiting(task'.prog, task'.stack, text) /\ task'.stack # <<>>
      BY <2>4, <2>5, <2>6
    <3>2. text \o <<>> = text
      BY TextsFacts
    <3> QED BY <2>1, <3>1, <3>2 DEF Works
  <2>8. gpc' \in Slice /\ <<>> \in Texts
    BY <2>1, TextsFacts DEF Slice
  <2>9. trace' = [trace EXCEPT ![QueueOf(task)] = trace[QueueOf(task)] \o <<>>]
    BY <1>2, <2>1
  <2> HIDE DEF q
  <2> QED BY <1>1, <1>2, <2>1, <2>6, <2>7, <2>8, <2>9, SliceStep DEF RunType
<1> QED BY <1>3, <1>4

\* The iterations that execute nothing.
LEMMA QuietStep ==
  ASSUME GpuInv, InLoop, UNCHANGED <<locked, gpc, work, labels, trace, fresh, guest, accepted>>,
         NEW next, task' = [task EXCEPT !.stack = next], run' \in RunType,
         \A text \in Texts : Looping(task.prog, task.stack, run.base, text)
                               => Looping(task.prog, next, run'.base, text)
  PROVE  GpuInv'
<1>1. IsSub(task)
  BY DEF InLoop
<1>2. /\ work \in [recorded : BOOLEAN, submitted : BOOLEAN] /\ labels \subseteq Labels
      /\ trace = [trace EXCEPT ![QueueOf(task)] = trace[QueueOf(task)] \o <<>>]
  BY <1>1, TaskFacts
<1>3. /\ work' \in [recorded : BOOLEAN, submitted : BOOLEAN] /\ labels' \subseteq Labels
      /\ trace' = [trace EXCEPT ![QueueOf(task)] = trace[QueueOf(task)] \o <<>>]
  BY <1>2
<1>4. <<>> \in Texts /\ \A text \in Texts : text \o <<>> = text
  BY TextsFacts
<1>5. \A text \in Texts : Looping(task.prog, task.stack, run.base, text)
                            => Looping(task.prog, next, run'.base, text \o <<>>)
  BY <1>4
<1> QED BY <1>3, <1>4, <1>5, LoopStep

\* A call begins.
LEMMA InvProcessIndirectBuffer == ASSUME GpuInv, ProcessIndirectBuffer PROVE GpuInv'
<1> DEFINE c == task.stack[Len(task.stack)]
           new == [buf |-> Buffers[c.buf][c.pos].arg, pos |-> 1, deferred |-> FALSE]
           next == Append(task.stack, new)
<1>1. /\ InLoop /\ IsSub(task) /\ task.stack # <<>> /\ ~c.deferred /\ CallAt(c)
      /\ task' = [task EXCEPT !.stack = next] /\ run' = run
      /\ UNCHANGED <<locked, gpc, work, labels, trace, fresh, guest, accepted>>
  BY DEF ProcessIndirectBuffer, AtPacket, Top, Depth, Packet, CallAt, InLoop, engine
<1>2. run' \in RunType
  BY <1>1, TaskFacts
<1>3. /\ c = task.stack[Len(task.stack)] /\ next = Append(task.stack, new)
      /\ new = [buf |-> Buffers[c.buf][c.pos].arg, pos |-> 1, deferred |-> FALSE]
  OBVIOUS
<1> HIDE DEF c, new, next
<1>4. ASSUME NEW text \in Texts, Looping(task.prog, task.stack, run.base, text)
      PROVE  Looping(task.prog, next, run'.base, text)
  <2>1. Looping(task.prog, Append(task.stack, new), run.base, text)
    BY <1>1, <1>3, <1>4, LoopCalls
  <2> QED BY <1>1, <1>3, <2>1
<1> QED BY <1>1, <1>2, <1>4, QuietStep

\* A call that a suspension had ended is passed over.
LEMMA InvDeferredAdvance == ASSUME GpuInv, DeferredAdvance PROVE GpuInv'
<1> DEFINE next == Past(task.stack, Len(task.stack))
<1>1. /\ InLoop /\ IsSub(task) /\ task.stack # <<>> /\ task.stack[Len(task.stack)].deferred
      /\ task' = [task EXCEPT !.stack = next] /\ run' = [run EXCEPT !.made = TRUE]
      /\ UNCHANGED <<locked, gpc, work, labels, trace, fresh, guest, accepted>>
  BY DEF DeferredAdvance, Top, Depth, InLoop
<1>2. run \in RunType
  BY <1>1, TaskFacts
<1>3. run' \in RunType /\ run'.base = run.base
  BY <1>1, <1>2, MadeRun
<1>4. next = Past(task.stack, Len(task.stack))
  OBVIOUS
<1> HIDE DEF next
<1>5. ASSUME NEW text \in Texts, Looping(task.prog, task.stack, run.base, text)
      PROVE  Looping(task.prog, next, run'.base, text)
  <2>1. Looping(task.prog, Past(task.stack, Len(task.stack)), run.base, text)
    BY <1>1, <1>5, LoopPasses
  <2> QED BY <1>3, <1>4, <2>1
<1> QED BY <1>1, <1>3, <1>5, QuietStep

\* A buffer is exhausted.
LEMMA InvPopBuffer == ASSUME GpuInv, PopBuffer PROVE GpuInv'
<1> DEFINE c == task.stack[Len(task.stack)]
<1>1. /\ InLoop /\ IsSub(task) /\ task.stack # <<>> /\ ~c.deferred /\ c.pos > Len(Buffers[c.buf])
      /\ gpc = "exec" /\ ~IsFlip(task)
      /\ UNCHANGED <<locked, gpc, work, labels, trace, fresh, guest, accepted>>
  BY DEF PopBuffer, Top, Depth, InLoop, Type, IsFlip
<1>2. run \in RunType /\ task \in Submissions
        /\ \E text \in Texts : Works(gpc, task, run.base, text)
  BY <1>1, TaskFacts
<1>3. c = task.stack[Len(task.stack)]
  OBVIOUS
<1> HIDE DEF c
<1>4. CASE Len(task.stack) > run.base
  <2> DEFINE next == Past(Front(task.stack), Len(task.stack) - 1)
  <2>1. task' = [task EXCEPT !.stack = next] /\ run' = [run EXCEPT !.made = TRUE]
    BY <1>4 DEF PopBuffer, Depth
  <2>2. run' \in RunType /\ run'.base = run.base
    BY <1>2, <2>1, MadeRun
  <2>3. next = Past(Front(task.stack), Len(task.stack) - 1)
    OBVIOUS
  <2> HIDE DEF next
  <2>4. ASSUME NEW text \in Texts, Looping(task.prog, task.stack, run.base, text)
        PROVE  Looping(task.prog, next, run'.base, text)
    <3>1. Looping(task.prog, Past(Front(task.stack), Len(task.stack) - 1), run.base, text)
      BY <1>1, <1>3, <1>4, <2>4, LoopReturns
    <3> QED BY <2>2, <2>3, <3>1
  <2> QED BY <1>1, <2>1, <2>2, <2>4, QuietStep
<1>5. CASE ~(Len(task.stack) > run.base)
  <2> DEFINE next == Front(task.stack)
  <2>1. task' = [task EXCEPT !.stack = next] /\ run' = [run EXCEPT !.base = run.base - 1]
    BY <1>5 DEF PopBuffer, Depth
  <2>2. run.base >= 1
    <3>1. PICK text \in Texts : Works(gpc, task, run.base, text)
      BY <1>2
    <3>2. Looping(task.prog, task.stack, run.base, text)
      BY <1>1, <3>1, WorksWhere
    <3> QED BY <1>1, <3>2, LoopFacts
  <2>3. run' \in RunType /\ run'.base = run.base - 1
    <3>1. run.base \in Nat /\ run.base - 1 \in Nat
      BY <1>2, <2>2 DEF RunType
    <3> QED BY <1>2, <2>1, <3>1 DEF RunType
  <2>4. task.prog \in DOMAIN Programs
    BY <1>2, QueueFacts
  <2> HIDE DEF next
  <2>5. ASSUME NEW text \in Texts, Looping(task.prog, task.stack, run.base, text)
        PROVE  Looping(task.prog, next, run'.base, text)
    <3>1. Looping(task.prog, Front(task.stack), run.base - 1, text)
      BY <1>1, <1>3, <1>5, <2>4, <2>5, LoopPops
    <3> QED BY <2>3, <3>1 DEF next
  <2> QED BY <1>1, <2>1, <2>3, <2>5, QuietStep
<1> QED BY <1>4, <1>5

-----------------------------------------------------------------------------
(* The other steps of a slice.                                             *)

\* A step of the slice that executes nothing.
LEMMA QuietSlice ==
  ASSUME GpuInv, IsSub(task), UNCHANGED <<locked, labels, trace, fresh, guest, accepted>>,
         gpc' \in Slice, task' \in Submissions, task'.prog = task.prog, run' \in RunType,
         work' \in [recorded : BOOLEAN, submitted : BOOLEAN],
         \A text \in Texts :
           Works(gpc, task, run.base, text) => Works(gpc', task', run'.base, text)
  PROVE  GpuInv'
<1>1. labels \subseteq Labels
        /\ trace = [trace EXCEPT ![QueueOf(task)] = trace[QueueOf(task)] \o <<>>]
  BY TaskFacts
<1>2. labels' \subseteq Labels
        /\ trace' = [trace EXCEPT ![QueueOf(task)] = trace[QueueOf(task)] \o <<>>]
  BY <1>1
<1>3. <<>> \in Texts /\ \A text \in Texts : text \o <<>> = text
  BY TextsFacts
<1>4. \A text \in Texts :
        Works(gpc, task, run.base, text) => Works(gpc', task', run'.base, text \o <<>>)
  BY <1>3
<1> QED BY <1>2, <1>3, <1>4, SliceStep DEF RunType

\* A submission that is begun.
LEMMA StartedTask ==
  ASSUME NEW x \in Submissions, NEW y, y = [x EXCEPT !.started = TRUE]
  PROVE  y \in Submissions /\ y.prog = x.prog /\ y.stack = x.stack
BY DEF Submissions

\* In a slice, the work is a submission.
LEMMA InSlice ==
  ASSUME GpuInv, gpc \in Slice
  PROVE  IsSub(task) /\ task \in Submissions /\ task.prog \in DOMAIN Programs /\ run \in RunType
         /\ work \in [recorded : BOOLEAN, submitted : BOOLEAN]
<1>1. IsSub(task)
  BY DEF GpuInv, TaskOK
<1> QED BY <1>1, TaskFacts, QueueFacts

\* A slice begins.
LEMMA InvBegin == ASSUME GpuInv, Begin PROVE GpuInv'
<1>1. /\ gpc = "begin" /\ task' = [task EXCEPT !.started = TRUE] /\ run' = NoRun
      /\ gpc' = (IF IsFlip(task) THEN "exec" ELSE "pass") /\ work' = work
      /\ UNCHANGED <<locked, labels, trace, fresh, guest, accepted>>
  BY DEF Begin, Type, IsFlip
<1>2. /\ IsSub(task) /\ task \in Submissions
      /\ work \in [recorded : BOOLEAN, submitted : BOOLEAN]
  BY <1>1, InSlice DEF Slice
<1>3. task' \in Submissions /\ task'.prog = task.prog /\ task'.stack = task.stack
  BY <1>1, <1>2, StartedTask
<1>4. run' \in RunType /\ gpc' \in Slice
  BY <1>1 DEF RunType, NoRun, Slice
<1>5. ASSUME NEW text \in Texts, Works(gpc, task, run.base, text)
      PROVE  Works(gpc', task', run'.base, text)
  <2>1. Rests(task, text)
    BY <1>1, <1>5, WorksWhere
  <2>2. Rests(task', text) /\ (IsFlip(task)' <=> IsFlip(task))
    BY <1>3, <2>1 DEF Rests, IsFlip
  <2>3. CASE IsFlip(task)
    <3>1. task.stack = <<>> /\ text = <<>>
      BY <2>1, <2>3 DEF Rests, Waiting, IsFlip
    <3>2. gpc' = "exec"
      BY <1>1, <2>3
    <3> QED BY <1>3, <2>2, <2>3, <3>1, <3>2 DEF Works, IsFlip
  <2>4. CASE ~IsFlip(task)
    <3>1. gpc' = "pass"
      BY <1>1, <2>4
    <3> QED BY <2>2, <2>4, <3>1, <1>3 DEF Works, IsFlip
  <2> QED BY <2>3, <2>4
<1> QED BY <1>1, <1>2, <1>3, <1>4, <1>5, QuietSlice

\* A flip takes effect.
LEMMA InvPrepareCpuFlip == ASSUME GpuInv, PrepareCpuFlip PROVE GpuInv'
<1> DEFINE packet == FlipPacket(task.prog)
<1>1. /\ gpc = "exec" /\ IsSub(task) /\ IsFlip(task) /\ gpc' = "finish" /\ task' = task
      /\ run' = run
      /\ work' = [recorded |-> FALSE, submitted |-> TRUE]
      /\ trace' = [trace EXCEPT ![0] = Append(trace[0], packet)]
      /\ UNCHANGED <<locked, labels, fresh, guest, accepted>>
  BY DEF PrepareCpuFlip, Type, IsFlip
<1>2. /\ task \in Submissions /\ run \in RunType /\ labels \subseteq Labels /\ gpc' \in Slice
      /\ trace[QueueOf(task)] \in Texts
  BY <1>1, TaskFacts DEF Slice
<1>3. task.prog \in DOMAIN Programs /\ QueueOf(task) = 0
  BY <1>1, <1>2, QueueFacts, GpuThreadAssumption DEF IsFlip, QueueOf
<1>4. packet \in PacketSet
  BY <1>3 DEF PacketSet
<1>5. <<packet>> \in Texts /\ <<>> \o <<packet>> = <<packet>>
  <2>1. <<packet>> \in Texts
    <3> HIDE DEF packet
    <3> QED BY <1>4 DEF Texts
  <2> QED BY <2>1, TextsFacts
<1>6. trace' = [trace EXCEPT ![QueueOf(task)] = trace[QueueOf(task)] \o <<packet>>]
  <2>1. Append(trace[0], packet) = trace[0] \o <<packet>>
    <3> HIDE DEF packet
    <3> QED BY <1>2, <1>3, <1>4, AppendIsConcat DEF Texts
  <2> QED BY <1>1, <1>3, <2>1
<1>7. FlatProgram[task.prog] = <<packet>>
  BY <1>1, <1>3 DEF FlatProgram, IsFlip
<1> HIDE DEF packet
<1>8. ASSUME NEW text \in Texts, Works(gpc, task, run.base, text)
      PROVE  Works(gpc', task', run'.base, text \o <<packet>>)
  <2>1. task.stack = <<>> /\ text = <<>>
    BY <1>1, <1>8, WorksWhere
  <2>2. text \o <<packet>> = FlatProgram[task.prog]
    BY <1>5, <1>7, <2>1
  <2> QED BY <1>1, <2>1, <2>2 DEF Works
<1>9. work' \in [recorded : BOOLEAN, submitted : BOOLEAN] /\ labels' \subseteq Labels
  BY <1>1, <1>2
<1> QED BY <1>1, <1>2, <1>5, <1>6, <1>8, <1>9, SliceStep DEF RunType

\* A pass enters the buffer, or takes it up again.
LEMMA InvEnterPass == ASSUME GpuInv, EnterPass PROVE GpuInv'
<1> DEFINE first == <<[buf |-> Programs[task.prog].buf, pos |-> 1, deferred |-> FALSE]>>
           next  == IF task.stack = <<>> THEN first ELSE task.stack
<1>1. /\ gpc = "pass" /\ gpc' = "exec" /\ task' = [task EXCEPT !.stack = next]
      /\ run' = [run EXCEPT !.base = Len(next), !.made = FALSE] /\ work' = work
      /\ UNCHANGED <<locked, labels, trace, fresh, guest, accepted>>
  BY DEF EnterPass
<1>2. /\ IsSub(task) /\ task \in Submissions /\ run \in RunType /\ task.prog \in DOMAIN Programs
      /\ work \in [recorded : BOOLEAN, submitted : BOOLEAN]
  BY <1>1, InSlice DEF Slice
<1>3. \E text \in Texts : Works(gpc, task, run.base, text)
  BY <1>2, TaskFacts
<1>4. first = <<[buf |-> Programs[task.prog].buf, pos |-> 1, deferred |-> FALSE]>>
      /\ next = IF task.stack = <<>> THEN first ELSE task.stack
  OBVIOUS
<1> HIDE DEF first, next
<1>5. ASSUME NEW text \in Texts, Works(gpc, task, run.base, text)
      PROVE  Looping(task.prog, next, Len(next), text)
  <2>1. Rests(task, text) /\ ~IsFlip(task)
    BY <1>1, <1>5, WorksWhere
  <2>2. CASE task.stack = <<>>
    <3>1. text = <<>> /\ next = first
      BY <1>4, <2>1, <2>2 DEF Rests
    <3>2. Looping(task.prog, first, 1, <<>>) /\ Len(first) = 1
      BY <1>2, <1>4, <2>1, LoopBegins DEF IsFlip
    <3> QED BY <3>1, <3>2
  <2>3. CASE task.stack # <<>>
    <3>1. Waiting(task.prog, task.stack, text) /\ next = task.stack
      BY <1>4, <2>1, <2>3 DEF Rests
    <3> QED BY <3>1, LoopResumes
  <2> QED BY <2>2, <2>3
<1>6. next \in Seq(Cursor)
  BY <1>3, <1>5 DEF Looping, StackOK
<1>7. task' \in Submissions /\ task'.prog = task.prog /\ task'.stack = next
  BY <1>1, <1>2, <1>6, NewStack
<1>8. run' \in RunType /\ run'.base = Len(next)
  <2>1. Len(next) \in Nat
    BY <1>6
  <2> QED BY <1>1, <1>2, <2>1 DEF RunType
<1>9. ASSUME NEW text \in Texts, Works(gpc, task, run.base, text)
      PROVE  Works(gpc', task', run'.base, text)
  <2>1. Looping(task'.prog, task'.stack, run'.base, text)
    BY <1>5, <1>7, <1>8, <1>9
  <2> QED BY <1>1, <2>1 DEF Works
<1>10. gpc' \in Slice
  BY <1>1 DEF Slice
<1> QED BY <1>1, <1>2, <1>7, <1>8, <1>9, <1>10, QuietSlice

\* A pass ends.
LEMMA InvEndPass == ASSUME GpuInv, EndPass PROVE GpuInv'
<1>1. /\ gpc = "end" /\ run' = [run EXCEPT !.progressed = run.progressed \/ run.made]
      /\ task' = task
      /\ UNCHANGED <<locked, labels, trace, fresh, guest, accepted>>
      /\ (gpc' = "pass" /\ task.stack # <<>>) \/ gpc' = "finish"
      /\ work' = work \/ work' = Submitted
  BY DEF EndPass
<1>2. /\ IsSub(task) /\ task \in Submissions /\ run \in RunType
      /\ work \in [recorded : BOOLEAN, submitted : BOOLEAN]
  BY <1>1, InSlice DEF Slice
<1>3. run' \in RunType /\ run'.base = run.base
  BY <1>1, <1>2 DEF RunType
<1>4. work' \in [recorded : BOOLEAN, submitted : BOOLEAN]
  <2>1. (work.recorded \/ work.submitted) \in BOOLEAN
    BY <1>2
  <2>2. Submitted \in [recorded : BOOLEAN, submitted : BOOLEAN]
    BY <2>1 DEF Submitted
  <2> QED BY <1>1, <1>2, <2>2
<1>5. ASSUME NEW text \in Texts, Works(gpc, task, run.base, text)
      PROVE  Works(gpc', task', run'.base, text)
  <2>1. IF task.stack = <<>> THEN text = FlatProgram[task.prog]
                             ELSE Waiting(task.prog, task.stack, text)
    BY <1>1, <1>5, WorksWhere
  <2>2. CASE gpc' = "finish"
    BY <1>1, <2>1, <2>2 DEF Works
  <2>3. CASE gpc' = "pass" /\ task.stack # <<>>
    <3>1. Rests(task, text) /\ ~IsFlip(task)
      BY <2>1, <2>3 DEF Rests, Waiting, IsFlip
    <3> QED BY <1>1, <2>3, <3>1 DEF Works
  <2> QED BY <1>1, <2>2, <2>3
<1>6. gpc' \in Slice /\ task' \in Submissions /\ task'.prog = task.prog
  BY <1>1, <1>2 DEF Slice
<1> QED BY <1>1, <1>2, <1>3, <1>4, <1>5, <1>6, QuietSlice

\* The outermost buffer is exhausted.
LEMMA InvComplete == ASSUME GpuInv, Complete PROVE GpuInv'
<1>1. /\ InLoop /\ IsSub(task) /\ gpc = "exec" /\ ~IsFlip(task) /\ task.stack = <<>> /\ gpc' = "end"
      /\ task' = task /\ run' = run /\ work' = work
      /\ UNCHANGED <<locked, labels, trace, fresh, guest, accepted>>
  BY DEF Complete, InLoop, Type, IsFlip, engine
<1>2. /\ task \in Submissions /\ run \in RunType
      /\ work \in [recorded : BOOLEAN, submitted : BOOLEAN]
  BY <1>1, TaskFacts
<1>3. ASSUME NEW text \in Texts, Works(gpc, task, run.base, text)
      PROVE  Works(gpc', task', run'.base, text)
  <2>1. Looping(task.prog, task.stack, run.base, text)
    BY <1>1, <1>3, WorksWhere
  <2>2. text = FlatProgram[task.prog]
    BY <1>1, <2>1 DEF Looping
  <2> QED BY <1>1, <2>2 DEF Works
<1>4. gpc' \in Slice /\ task' \in Submissions /\ task'.prog = task.prog
  BY <1>1, <1>2 DEF Slice
<1> QED BY <1>1, <1>2, <1>3, <1>4, QuietSlice

-----------------------------------------------------------------------------
(* The steps outside a slice.                                              *)

\* The queues and the submission in work stay.
LEMMA FrameStep ==
  ASSUME GpuInv, UNCHANGED <<queues, accepted, trace>>,
         (~IsSub(task) /\ ~IsSub(task)') \/ UNCHANGED <<gpc, task, run>>,
         Types', TaskOK', CommandsOK', DonesOK'
  PROVE  GpuInv'
<1>1. Histories'
  BY HistoriesStay DEF GpuInv
<1>2. QueuesOK'
  BY DEF GpuInv, QueuesOK
<1> QED BY <1>1, <1>2 DEF GpuInv

\* No call and no command is begun, taken up or ended.
LEMMA CommandsStay ==
  ASSUME CommandsOK, UNCHANGED <<commands, guest, task>>, gpc' = "command" => gpc = "command"
  PROVE  CommandsOK'
BY DEF CommandsOK

\* The thread chooses, sleeps, or ends a command: what it works on is no submission.
LEMMA IdleStep ==
  ASSUME GpuInv,
         UNCHANGED <<queues, commands, nextQueue, stopping, accepted, engine, fresh, guest>>,
         gpc \notin Slice, gpc' \in Spots, gpc' \notin Slice, gpc' # "command",
         processing' \in BOOLEAN, idlers' \subseteq Guests, task' \in {task, Nothing},
         gpc' = "ran" => processing'
  PROVE  GpuInv'
<1>1. Types /\ TaskOK /\ CommandsOK /\ DonesOK
  BY DEF GpuInv
<1>2. ~IsSub(task) /\ ~IsSub(task)' /\ task' \in Submissions \cup Command \cup {Nothing}
  BY <1>1 DEF TaskOK, Nothing, IsSub
<1>3. Types'
  BY <1>1 DEF Types, engine
<1>4. TaskOK'
  BY <1>2 DEF TaskOK
<1>5. CommandsOK'
  BY <1>1 DEF CommandsOK
<1>6. DonesOK'
  BY <1>1, <1>2 DEF DonesOK, NoSubmissions
<1>7. UNCHANGED <<queues, accepted, trace>>
  BY DEF engine
<1> QED BY <1>2, <1>3, <1>4, <1>5, <1>6, <1>7, FrameStep

\* The thread goes to sleep.
LEMMA InvRest == ASSUME GpuInv, Rest PROVE GpuInv'
<1>1. idlers' \subseteq Guests
  BY DEF Rest, GpuInv, Types
<1>2. gpc = "select" /\ gpc' = "asleep" /\ processing' = FALSE /\ task' = task
  BY DEF Rest
<1>3. UNCHANGED <<queues, commands, nextQueue, stopping, accepted, engine, fresh, guest>>
  BY DEF Rest
<1> QED BY <1>1, <1>2, <1>3, IdleStep DEF Slice, Spots

\* It stops.
LEMMA InvStop == ASSUME GpuInv, Stop PROVE GpuInv'
<1>1. idlers' \subseteq Guests
  BY DEF Stop
<1>2. gpc = "select" /\ gpc' = "stopping" /\ processing' = FALSE /\ task' = task
  BY DEF Stop
<1>3. UNCHANGED <<queues, commands, nextQueue, stopping, accepted, engine, fresh, guest>>
  BY DEF Stop
<1> QED BY <1>1, <1>2, <1>3, IdleStep DEF Slice, Spots

\* It naps.
LEMMA InvNap == ASSUME GpuInv, Nap PROVE GpuInv'
<1>1. idlers' \subseteq Guests
  BY DEF Nap, GpuInv, Types
<1>2. gpc = "select" /\ gpc' = "nap" /\ processing' = FALSE /\ task' = task
  BY DEF Nap
<1>3. UNCHANGED <<queues, commands, nextQueue, stopping, accepted, engine, fresh, guest>>
  BY DEF Nap
<1> QED BY <1>1, <1>2, <1>3, IdleStep DEF Slice, Spots

\* It looks for other work after a command.
LEMMA InvEndCommand == ASSUME GpuInv, EndCommand PROVE GpuInv'
<1>1. idlers' \subseteq Guests
  BY DEF EndCommand, Rested, GpuInv, Types
<1>2. gpc = "ran" /\ gpc' = "select" /\ processing' = FALSE /\ task' = Nothing
  BY DEF EndCommand, Rested
<1>3. UNCHANGED <<queues, commands, nextQueue, stopping, accepted, engine, fresh, guest>>
  BY DEF EndCommand
<1> QED BY <1>1, <1>2, <1>3, IdleStep DEF Slice, Spots

\* It ends.
LEMMA InvExit == ASSUME GpuInv, Exit PROVE GpuInv'
<1>1. idlers' \subseteq Guests /\ processing' \in BOOLEAN
  BY DEF Exit, GpuInv, Types, locked
<1>2. gpc = "stopping" /\ gpc' = "stopped" /\ task' = task
  BY DEF Exit
<1>3. UNCHANGED <<queues, commands, nextQueue, stopping, accepted, engine, fresh, guest>>
  BY DEF Exit, locked
<1> QED BY <1>1, <1>2, <1>3, IdleStep DEF Slice, Spots

\* It takes the oldest command.
LEMMA InvTakeCommand == ASSUME GpuInv, TakeCommand PROVE GpuInv'
<1>1. Types /\ TaskOK /\ CommandsOK /\ DonesOK
  BY DEF GpuInv
<1>2. /\ gpc = "select" /\ commands # <<>> /\ task' = commands[1] /\ commands' = Tail(commands)
      /\ processing' = TRUE /\ gpc' = "command"
      /\ UNCHANGED <<queues, nextQueue, stopping, idlers, engine, fresh, guest, accepted>>
  BY DEF TakeCommand
<1>3. /\ commands \in Seq(Command) /\ Len(commands) \in Nat /\ Len(commands) >= 1
      /\ commands' \in Seq(Command) /\ Len(commands') = Len(commands) - 1
      /\ \A i \in 1..Len(commands') : commands'[i] = commands[i + 1]
  BY <1>1, <1>2 DEF Types
<1>4. task' \in Command
  BY <1>2, <1>3, ElementOfSeq
<1>5. ~IsSub(task) /\ ~IsSub(task)'
  <2>1. ~IsSub(task)
    BY <1>1, <1>2 DEF TaskOK, Slice
  <2> QED BY <1>4, <2>1 DEF Command, IsSub
<1>6. Types'
  BY <1>1, <1>2, <1>3 DEF Types, Spots, engine
<1>7. TaskOK'
  BY <1>2, <1>4, <1>5 DEF TaskOK, Slice
<1>8. CommandsOK'
  <2>1. \A i \in 1..Len(commands') : i + 1 \in 1..Len(commands) /\ i + 1 # 1
    BY <1>3
  <2>2. 1 \in 1..Len(commands)
    BY <1>3
  <2>3. guest'[task'.from] = Reply(task')
    BY <1>1, <1>2, <2>2 DEF CommandsOK
  <2>4. ASSUME NEW i \in 1..Len(commands')
        PROVE  /\ guest'[commands'[i].from] = Reply(commands'[i])
               /\ \A j \in 1..Len(commands') : i # j => commands'[i].from # commands'[j].from
               /\ commands'[i].from # task'.from
    <3>1. commands'[i] = commands[i + 1] /\ i + 1 \in 1..Len(commands) /\ i + 1 # 1
      BY <1>3, <2>1
    <3>2. guest'[commands'[i].from] = Reply(commands'[i]) /\ commands'[i].from # task'.from
      BY <1>1, <1>2, <2>2, <3>1 DEF CommandsOK
    <3>3. ASSUME NEW j \in 1..Len(commands'), i # j PROVE commands'[i].from # commands'[j].from
      <4>1. commands'[j] = commands[j + 1] /\ j + 1 \in 1..Len(commands) /\ i + 1 # j + 1
        BY <1>3, <2>1, <3>3
      <4> QED BY <1>1, <3>1, <4>1 DEF CommandsOK
    <3> QED BY <3>2, <3>3
  <2> QED BY <2>3, <2>4 DEF CommandsOK, Reply
<1>9. DonesOK'
  BY <1>1, <1>2, <1>5 DEF DonesOK, NoSubmissions
<1>10. UNCHANGED <<queues, accepted, trace>>
  BY <1>2 DEF engine
<1> QED BY <1>5, <1>6, <1>7, <1>8, <1>9, <1>10, FrameStep

\* It runs the command and releases the sender.
LEMMA InvRunCommand == ASSUME GpuInv, RunCommand PROVE GpuInv'
<1>1. Types /\ TaskOK /\ CommandsOK /\ DonesOK
  BY DEF GpuInv
<1>2. /\ gpc = "command" /\ guest' = [guest EXCEPT ![task.from] = "free"] /\ gpc' = "ran"
      /\ fresh' = (fresh \/ task.kind = "flush")
      /\ UNCHANGED <<locked, task, engine, accepted>>
  BY DEF RunCommand, Goto
<1>3. task \in Command /\ ~IsSub(task) /\ ~IsSub(task)' /\ processing
  BY <1>1, <1>2 DEF TaskOK, Slice, IsSub
<1>4. task.from \in Guests /\ guest \in [Guests -> {"free", "answer", "idle", "send", "flush"}]
  BY <1>1, <1>3 DEF Command, Types
<1>5. fresh' \in BOOLEAN
  BY <1>1, <1>2 DEF Types
<1>6. Types'
  BY <1>1, <1>2, <1>4, <1>5 DEF Types, Spots, engine, locked
<1>7. TaskOK'
  BY <1>1, <1>2, <1>3 DEF TaskOK, Slice, locked
<1>8. CommandsOK'
  <2>1. ASSUME NEW i \in 1..Len(commands)
        PROVE  /\ guest'[commands[i].from] = Reply(commands[i])
               /\ \A j \in 1..Len(commands) : i # j => commands[i].from # commands[j].from
    <3>1. commands[i].from # task.from /\ guest[commands[i].from] = Reply(commands[i])
      BY <1>1, <1>2 DEF CommandsOK
    <3>2. commands[i].from \in Guests
      <4>1. commands[i] \in Command
        BY <1>1, ElementOfSeq DEF Types
      <4> QED BY <4>1 DEF Command
    <3>3. \A j \in 1..Len(commands) : i # j => commands[i].from # commands[j].from
      BY <1>1 DEF CommandsOK
    <3> QED BY <1>2, <1>4, <3>1, <3>2, <3>3
  <2> QED BY <1>2, <2>1 DEF CommandsOK, locked, Reply
<1>9. DonesOK'
  BY <1>1, <1>2, <1>3, <1>4 DEF DonesOK, NoSubmissions, locked
<1>10. UNCHANGED <<queues, accepted, trace>>
  BY <1>2 DEF engine, locked
<1> QED BY <1>3, <1>6, <1>7, <1>8, <1>9, <1>10, FrameStep

\* The thread is told to look again, wherever it is.
LEMMA WakeFacts ==
  ASSUME Types, TaskOK, Wake, UNCHANGED <<task, processing>>
  PROVE  /\ gpc' \in Spots /\ TaskOK' /\ (gpc' = "command" => gpc = "command")
         /\ (~IsSub(task) /\ ~IsSub(task)') \/ UNCHANGED <<gpc, task>>
<1>1. (gpc' = "select" /\ gpc = "asleep") \/ gpc' = gpc
  BY DEF Wake
<1>2. CASE gpc' = gpc
  BY <1>2 DEF Types, TaskOK
<1>3. CASE gpc' = "select" /\ gpc = "asleep"
  <2>1. ~IsSub(task)
    BY <1>3 DEF TaskOK, Slice
  <2> QED BY <1>3, <2>1 DEF Types, TaskOK, Slice, Spots, IsSub
<1> QED BY <1>1, <1>2, <1>3

\* Labels are written, the device gets on, the thread is to stop.
LEMMA OutsideStep ==
  ASSUME GpuInv, Wake \/ gpc' = gpc,
         UNCHANGED <<queues, commands, nextQueue, processing, idlers, task, run, trace, fresh,
                     guest, accepted>>,
         stopping' \in BOOLEAN, labels' \subseteq Labels,
         work' \in [recorded : BOOLEAN, submitted : BOOLEAN]
  PROVE  GpuInv'
<1>1. Types /\ TaskOK /\ CommandsOK /\ DonesOK
  BY DEF GpuInv
<1>2. /\ gpc' \in Spots /\ TaskOK' /\ (gpc' = "command" => gpc = "command")
      /\ (~IsSub(task) /\ ~IsSub(task)') \/ UNCHANGED <<gpc, task, run>>
  <2>1. CASE Wake
    BY <1>1, <2>1, WakeFacts
  <2>2. CASE gpc' = gpc
    BY <1>1, <2>2 DEF Types, TaskOK
  <2> QED BY <2>1, <2>2
<1>3. Types'
  BY <1>1, <1>2 DEF Types
<1>4. CommandsOK'
  BY <1>1, <1>2, CommandsStay
<1>5. DonesOK'
  BY <1>1 DEF DonesOK, NoSubmissions
<1> QED BY <1>2, <1>3, <1>4, <1>5, FrameStep

\* The device finishes.
LEMMA InvDeviceFinishes == ASSUME GpuInv, DeviceFinishes PROVE GpuInv'
<1>1. /\ work \in [recorded : BOOLEAN, submitted : BOOLEAN] /\ labels \subseteq Labels
      /\ stopping \in BOOLEAN
  BY DEF GpuInv, Types
<1>2. work' \in [recorded : BOOLEAN, submitted : BOOLEAN]
  BY <1>1 DEF DeviceFinishes
<1>3. UNCHANGED <<locked, gpc, task, run, labels, trace, fresh, guest, accepted>>
  BY DEF DeviceFinishes
<1> QED BY <1>1, <1>2, <1>3, OutsideStep DEF locked

\* The guest writes a label.
LEMMA InvWriteLabel == ASSUME GpuInv, NEW l \in GuestLabels, WriteLabel(l) PROVE GpuInv'
<1>1. /\ work \in [recorded : BOOLEAN, submitted : BOOLEAN] /\ labels \subseteq Labels
      /\ stopping \in BOOLEAN /\ l \in Labels
  BY GpuThreadAssumption DEF GpuInv, Types
<1>2. labels' \subseteq Labels
  BY <1>1 DEF WriteLabel
<1>3. UNCHANGED <<locked, gpc, task, run, work, trace, fresh, guest, accepted>>
  BY DEF WriteLabel
<1> QED BY <1>1, <1>2, <1>3, OutsideStep DEF locked

\* The thread is to stop.
LEMMA InvGpuShutdown == ASSUME GpuInv, GpuShutdown PROVE GpuInv'
<1>1. work \in [recorded : BOOLEAN, submitted : BOOLEAN] /\ labels \subseteq Labels
  BY DEF GpuInv, Types
<1>2. /\ stopping' = TRUE /\ Wake
      /\ UNCHANGED <<queues, commands, nextQueue, processing, idlers, task, run, work, labels,
                     trace, fresh, guest, accepted>>
  BY DEF GpuShutdown, engine
<1> QED BY <1>1, <1>2, OutsideStep

GuestSpots == {"free", "answer", "idle", "send", "flush"}

\* A guest thread goes on.
LEMMA WentTo ==
  ASSUME guest \in [Guests -> GuestSpots], NEW g \in Guests, NEW where \in GuestSpots,
         Goto(g, where)
  PROVE  /\ guest' \in [Guests -> GuestSpots] /\ guest'[g] = where
         /\ \A h \in Guests : h # g => guest'[h] = guest[h]
BY DEF Goto

\* A guest thread without a command goes on, to where no command is needed.
LEMMA GuestStep ==
  ASSUME GpuInv, NEW g \in Guests, NEW where \in GuestSpots, Goto(g, where),
         guest[g] \notin {"answer", "flush"},
         UNCHANGED <<queues, commands, nextQueue, processing, stopping, gpc, task, engine, fresh,
                     accepted>>,
         idlers' \subseteq Guests, where = "send" => NoSubmissions /\ ~IsSub(task), where # "flush"
  PROVE  GpuInv'
<1>1. Types /\ TaskOK /\ CommandsOK /\ DonesOK
  BY DEF GpuInv
<1>2. guest \in [Guests -> GuestSpots]
  BY <1>1 DEF Types, GuestSpots
<1>3. /\ guest' \in [Guests -> GuestSpots] /\ guest'[g] = where
      /\ \A h \in Guests : h # g => guest'[h] = guest[h]
  BY <1>2, WentTo
<1>4. Types'
  BY <1>1, <1>3 DEF Types, GuestSpots, engine
<1>5. TaskOK'
  BY <1>1 DEF TaskOK
<1>6. CommandsOK'
  <2>1. ASSUME NEW c \in Command, guest[c.from] = Reply(c) PROVE guest'[c.from] = Reply(c)
    <3>1. c.from \in Guests /\ c.from # g
      BY <2>1 DEF Command, Reply
    <3> QED BY <1>3, <2>1, <3>1
  <2>2. \A i \in 1..Len(commands) : commands[i] \in Command
    BY <1>1, ElementOfSeq DEF Types
  <2>3. gpc = "command" => task \in Command
    BY <1>1 DEF TaskOK
  <2> QED BY <1>1, <2>1, <2>2, <2>3 DEF CommandsOK, Reply
<1>7. DonesOK'
  BY <1>1, <1>3 DEF DonesOK, NoSubmissions
<1> QED BY <1>4, <1>5, <1>6, <1>7, FrameStep DEF engine

\* A guest thread calls Done.
LEMMA InvDone == ASSUME GpuInv, NEW g \in Guests, Done(g) PROVE GpuInv'
<1>1. /\ guest[g] = "free" /\ Goto(g, "idle")
      /\ UNCHANGED <<queues, commands, nextQueue, processing, stopping, gpc, task, engine, fresh,
                     accepted>>
      /\ idlers' = idlers
  BY DEF Done, locked
<1>2. idlers' \subseteq Guests
  BY <1>1 DEF GpuInv, Types
<1> QED BY <1>1, <1>2, GuestStep DEF GuestSpots

\* It finds the thread idle, or sleeps.
LEMMA InvWaitForIdle == ASSUME GpuInv, NEW g \in Guests, WaitForIdle(g) PROVE GpuInv'
<1>1. /\ guest[g] = "idle" /\ idlers \subseteq Guests /\ guest \in [Guests -> GuestSpots]
      /\ UNCHANGED <<queues, commands, nextQueue, processing, stopping, gpc, task, engine, fresh,
                     accepted>>
  BY DEF WaitForIdle, GpuInv, Types, GuestSpots
<1>2. CASE Idle
  <2>1. Goto(g, "send") /\ idlers' = idlers
    BY <1>2 DEF WaitForIdle
  <2>2. NoSubmissions /\ ~IsSub(task)
    BY <1>2 DEF Idle, NoWork, GpuInv, TaskOK
  <2> QED BY <1>1, <2>1, <2>2, GuestStep DEF GuestSpots
<1>3. CASE ~Idle
  <2>1. guest' = guest /\ idlers' = idlers \cup {g}
    BY <1>3 DEF WaitForIdle
  <2>2. Goto(g, "idle")
    BY <1>1, <2>1 DEF Goto
  <2> QED BY <1>1, <2>1, <2>2, GuestStep DEF GuestSpots
<1> QED BY <1>2, <1>3

\* A guest thread sends a command and waits for its answer.
LEMMA InvSend ==
  ASSUME GpuInv, NEW g \in Guests, NEW kind \in {"sync", "flush"}, NEW where,
         where = Reply([kind |-> kind, from |-> g]), Send(g, kind, where),
         guest[g] \in {"free", "send"}, kind = "flush" => guest[g] = "send"
  PROVE  GpuInv'
<1> DEFINE new == [kind |-> kind, from |-> g]
<1>1. Types /\ TaskOK /\ CommandsOK /\ DonesOK
  BY DEF GpuInv
<1>2. /\ commands' = Append(commands, new) /\ Goto(g, where) /\ Wake
      /\ UNCHANGED <<queues, nextQueue, processing, stopping, idlers, task, engine, fresh,
                     accepted>>
  BY DEF Send
<1>3. new \in Command /\ where = Reply(new) /\ new.from = g /\ new.kind = kind
  BY DEF Command
<1> HIDE DEF new
<1>4. where \in GuestSpots /\ (where = "flush" => kind = "flush") /\ where # "send"
  BY <1>3 DEF Reply, GuestSpots
<1>5. guest \in [Guests -> GuestSpots]
  BY <1>1 DEF Types, GuestSpots
<1>6. /\ guest' \in [Guests -> GuestSpots] /\ guest'[g] = where
      /\ \A h \in Guests : h # g => guest'[h] = guest[h]
  BY <1>2, <1>4, <1>5, WentTo
<1>7. /\ commands' \in Seq(Command) /\ Len(commands) \in Nat /\ Len(commands') = Len(commands) + 1
      /\ commands'[Len(commands) + 1] = new
      /\ \A i \in 1..Len(commands) : commands'[i] = commands[i]
      /\ \A i \in 1..Len(commands) : commands[i] \in Command
  BY <1>1, <1>2, <1>3, AppendedSeq, ElementOfSeq DEF Types
<1>8. /\ gpc' \in Spots /\ TaskOK' /\ (gpc' = "command" => gpc = "command")
      /\ (~IsSub(task) /\ ~IsSub(task)') \/ UNCHANGED <<gpc, task, run>>
  <2>1. UNCHANGED run
    BY <1>2 DEF engine
  <2> QED BY <1>1, <1>2, <2>1, WakeFacts
<1>9. Types'
  BY <1>1, <1>2, <1>6, <1>7, <1>8 DEF Types, GuestSpots, engine
<1>10. CommandsOK'
  <2>1. ASSUME NEW c \in Command, guest[c.from] = Reply(c)
        PROVE  guest'[c.from] = Reply(c) /\ c.from # g
    <3>1. c.from \in Guests /\ c.from # g
      BY <2>1 DEF Command, Reply
    <3> QED BY <1>6, <2>1, <3>1
  <2>2. ASSUME NEW i \in 1..Len(commands')
        PROVE  \/ i = Len(commands) + 1 /\ commands'[i] = new
               \/ i \in 1..Len(commands) /\ commands'[i] = commands[i]
    BY <1>7
  <2>3. \A i \in 1..Len(commands) :
          /\ guest'[commands[i].from] = Reply(commands[i]) /\ commands[i].from # g
    BY <1>1, <1>7, <2>1 DEF CommandsOK
  <2>4. gpc' = "command" => gpc = "command" /\ guest'[task.from] = Reply(task) /\ task.from # g
    BY <1>1, <1>8, <2>1 DEF CommandsOK, TaskOK
  <2>5. ASSUME NEW i \in 1..Len(commands')
        PROVE  /\ guest'[commands'[i].from] = Reply(commands'[i])
               /\ gpc' = "command" => commands'[i].from # task.from
    <3>1. CASE i = Len(commands) + 1 /\ commands'[i] = new
      BY <1>3, <1>6, <2>4, <3>1
    <3>2. CASE i \in 1..Len(commands) /\ commands'[i] = commands[i]
      BY <1>1, <2>3, <2>4, <3>2 DEF CommandsOK
    <3> QED BY <2>2, <3>1, <3>2
  <2>6. ASSUME NEW i \in 1..Len(commands'), NEW j \in 1..Len(commands'), i # j
        PROVE  commands'[i].from # commands'[j].from
    <3>1. CASE i \in 1..Len(commands) /\ j \in 1..Len(commands)
      <4>1. commands'[i] = commands[i] /\ commands'[j] = commands[j]
        BY <1>7, <3>1
      <4> QED BY <1>1, <2>6, <3>1, <4>1 DEF CommandsOK
    <3>2. CASE i \in 1..Len(commands) /\ j \notin 1..Len(commands)
      BY <1>3, <1>7, <2>2, <2>3, <3>2
    <3>3. CASE i \notin 1..Len(commands) /\ j \in 1..Len(commands)
      BY <1>3, <1>7, <2>2, <2>3, <3>3
    <3>4. CASE i \notin 1..Len(commands) /\ j \notin 1..Len(commands)
      BY <2>2, <2>6, <3>4
    <3> QED BY <3>1, <3>2, <3>3, <3>4
  <2> QED BY <1>2, <2>4, <2>5, <2>6 DEF CommandsOK, Reply
<1>11. DonesOK'
  <2>1. ASSUME NEW h \in Guests, guest'[h] \in {"send", "flush"} PROVE NoSubmissions /\ ~IsSub(task)
    <3>1. guest[h] \in {"send", "flush"}
      BY <1>4, <1>6, <2>1
    <3> QED BY <1>1, <3>1 DEF DonesOK
  <2> QED BY <1>2, <2>1 DEF DonesOK, NoSubmissions
<1>12. UNCHANGED <<queues, accepted, trace>>
  BY <1>2 DEF engine
<1> QED BY <1>8, <1>9, <1>10, <1>11, <1>12, FrameStep

\* One for a page fault or an unmap.
LEMMA InvSendCommandSync == ASSUME GpuInv, NEW g \in Guests, SendCommandSync(g) PROVE GpuInv'
<1>1. guest[g] = "free" /\ Send(g, "sync", "answer")
  BY DEF SendCommandSync
<1>2. "answer" = Reply([kind |-> "sync", from |-> g])
  BY DEF Reply
<1> QED BY <1>1, <1>2, InvSend

\* The one of Done.
LEMMA InvSendFlush == ASSUME GpuInv, NEW g \in Guests, SendFlush(g) PROVE GpuInv'
<1>1. guest[g] = "send" /\ Send(g, "flush", "flush")
  BY DEF SendFlush
<1>2. "flush" = Reply([kind |-> "flush", from |-> g])
  BY DEF Reply
<1> QED BY <1>1, <1>2, InvSend

-----------------------------------------------------------------------------
(* The steps that change the queues.                                       *)

\* A command is under way or none is, and nobody is in Done.
LEMMA QueueStep ==
  ASSUME GpuInv, Types', TaskOK', QueuesOK', Histories',
         UNCHANGED <<commands, guest>>,
         gpc' = "command" => gpc = "command" /\ UNCHANGED task,
         \/ (\A q \in Queues : queues[q] = <<>> => queues'[q] = <<>>)
           /\ (IsSub(task)' => IsSub(task))
         \/ \A g \in Guests : guest[g] \notin {"send", "flush"}
  PROVE  GpuInv'
<1>1. CommandsOK /\ DonesOK
  BY DEF GpuInv
<1>2. CommandsOK'
  BY <1>1 DEF CommandsOK
<1>3. DonesOK'
  BY <1>1 DEF DonesOK, NoSubmissions
<1> QED BY <1>2, <1>3 DEF GpuInv

\* A submission that joins its queue.
LEMMA NewSubmission ==
  ASSUME NEW p \in DOMAIN Programs, fresh \in BOOLEAN
  PROVE  NewSub(p) \in Submissions /\ NewSub(p).prog = p /\ NewSub(p).stack = <<>>
BY DEF NewSub, Submissions

\* A guest thread submits a program.
LEMMA InvEnqueue ==
  ASSUME GpuInv, NEW g \in Guests, NEW p \in DOMAIN Programs, Enqueue(g, p)
  PROVE  GpuInv'
<1> DEFINE q == Programs[p].queue
           sub == NewSub(p)
           a == [prog |-> p, due |-> Ordered(q) \o FlatProgram[p]]
<1>1. Types /\ TaskOK /\ QueuesOK /\ Histories
  BY DEF GpuInv
<1>2. /\ SubmissionFree /\ Wake
      /\ queues' = [queues EXCEPT ![q] = Append(queues[q], sub)] /\ fresh' = (fresh /\ q # 0)
      /\ accepted' = [accepted EXCEPT ![q] = Append(accepted[q], a)]
      /\ UNCHANGED <<commands, nextQueue, processing, stopping, idlers, task, engine, guest>>
  BY DEF Enqueue
<1>3. q \in Queues /\ fresh \in BOOLEAN /\ FlatProgram[p] \in Texts
  BY <1>1, GpuThreadAssumption, ProgramFacts DEF Types
<1>4. sub \in Submissions /\ sub.prog = p /\ sub.stack = <<>> /\ QueueOf(sub) = q
  BY <1>3, NewSubmission DEF QueueOf
<1>5. /\ queues \in [Queues -> Seq(Submissions)] /\ accepted \in [Queues -> Seq(Acceptances)]
      /\ queues[q] \in Seq(Submissions) /\ accepted[q] \in Seq(Acceptances)
  BY <1>1, <1>3 DEF Types
<1>6. Ordered(q) = DueTo(accepted[q], Len(accepted[q])) /\ Ordered(q) \in Texts
  <2>1. accepted[q] = <<>> <=> Len(accepted[q]) = 0
    BY <1>5
  <2>2. Ordered(q) = DueTo(accepted[q], Len(accepted[q]))
    BY <2>1 DEF Ordered, DueTo
  <2>3. Len(accepted[q]) \in 0..Len(accepted[q])
    BY <1>5
  <2> QED BY <1>5, <2>2, <2>3, DueFacts
<1>7. a \in Acceptances /\ a.prog = p
        /\ a.due = DueTo(accepted[q], Len(accepted[q])) \o FlatProgram[a.prog]
  <2>1. Ordered(q) \o FlatProgram[p] \in Texts
    BY <1>3, <1>6, TextsFacts
  <2> QED BY <1>6, <2>1 DEF Acceptances
<1> HIDE DEF q, sub, a
<1>8. /\ gpc' \in Spots /\ TaskOK' /\ (gpc' = "command" => gpc = "command")
      /\ (~IsSub(task) /\ ~IsSub(task)') \/ UNCHANGED <<gpc, task, run>>
  <2>1. UNCHANGED run
    BY <1>2 DEF engine
  <2> QED BY <1>1, <1>2, <2>1, WakeFacts
<1>9. /\ queues' \in [Queues -> Seq(Submissions)] /\ queues'[q] = Append(queues[q], sub)
      /\ accepted' \in [Queues -> Seq(Acceptances)] /\ accepted'[q] = Append(accepted[q], a)
      /\ \A r \in Queues : r # q => queues'[r] = queues[r] /\ accepted'[r] = accepted[r]
      /\ Append(queues[q], sub) \in Seq(Submissions)
  <2>1. Append(queues[q], sub) \in Seq(Submissions) /\ Append(accepted[q], a) \in Seq(Acceptances)
    BY <1>4, <1>5, <1>7, AppendedSeq
  <2> QED BY <1>2, <1>3, <1>5, <2>1
<1>10. Types'
  <2>1. fresh' \in BOOLEAN
    BY <1>2, <1>3
  <2> QED BY <1>1, <1>2, <1>8, <1>9, <2>1 DEF Types, engine
<1>11. QueuesOK'
  <2> SUFFICES ASSUME NEW r \in Queues, NEW i \in 1..Len(queues'[r])
               PROVE  QueueOf(queues'[r][i]) = r
    BY DEF QueuesOK, QueueOf
  <2>1. CASE r # q
    BY <1>1, <1>9, <2>1 DEF QueuesOK
  <2>2. CASE r = q
    <3>1. /\ Len(queues'[r]) = Len(queues[r]) + 1 /\ Len(queues[r]) \in Nat
          /\ queues'[r][Len(queues[r]) + 1] = sub
          /\ \A j \in 1..Len(queues[r]) : queues'[r][j] = queues[r][j]
      BY <1>4, <1>5, <1>9, <2>2, AppendedSeq
    <3>2. CASE i = Len(queues[r]) + 1
      BY <1>4, <2>2, <3>1, <3>2
    <3>3. CASE i # Len(queues[r]) + 1
      <4>1. i \in 1..Len(queues[r])
        BY <3>1, <3>3
      <4> QED BY <1>1, <3>1, <4>1 DEF QueuesOK
    <3> QED BY <3>2, <3>3
  <2> QED BY <2>1, <2>2
<1>12. Histories'
  <2> SUFFICES ASSUME NEW r \in Queues
               PROVE  HistoryOK(accepted'[r], queues'[r], InWork(r)', gpc', task', run'.base,
                                trace'[r])
    BY DEF Histories
  <2>1. HistoryOK(accepted[r], queues[r], InWork(r), gpc, task, run.base, trace[r])
    BY <1>1 DEF Histories
  <2>2. trace' = trace /\ task' = task /\ run' = run /\ InWork(r)' = InWork(r)
          /\ InWork(r) \in {0, 1}
    BY <1>2 DEF engine, InWork, IsSub, QueueOf
  <2>3. HistoryOK(accepted[r], queues[r], InWork(r), gpc', task', run'.base, trace[r])
    <3>1. CASE UNCHANGED <<gpc, task, run>>
      BY <2>1, <3>1
    <3>2. CASE ~IsSub(task)
      <4>1. InWork(r) = 0
        BY <3>2 DEF InWork
      <4> QED BY <2>1, <4>1, HistoryElsewhere
    <3> QED BY <1>8, <3>1, <3>2
  <2>4. CASE r # q
    BY <1>9, <2>2, <2>3, <2>4
  <2>5. CASE r = q
    <3>1. HistoryOK(Append(accepted[r], a), Append(queues[r], sub), InWork(r), gpc', task',
                    run'.base,
                    trace[r])
      BY <1>4, <1>5, <1>7, <2>2, <2>3, <2>5, HistoryAccepts
    <3> QED BY <1>9, <2>2, <2>5, <3>1
  <2> QED BY <2>4, <2>5
<1>13. \A h \in Guests : guest[h] \notin {"send", "flush"}
  BY <1>2 DEF SubmissionFree
<1> QED BY <1>2, <1>8, <1>10, <1>11, <1>12, <1>13, QueueStep

\* The thread takes the head of a queue.
LEMMA InvTakeSubmission ==
  ASSUME GpuInv, NEW q \in Queues, TakeSubmission(q)
  PROVE  GpuInv'
<1>1. Types /\ TaskOK /\ QueuesOK /\ Histories /\ DonesOK
  BY DEF GpuInv
<1>2. /\ gpc = "select" /\ queues[q] # <<>> /\ task' = Head(queues[q])
      /\ queues' = [queues EXCEPT ![q] = Tail(queues[q])]
      /\ nextQueue' = (q + 1) % Cardinality(Queues) /\ processing' = TRUE /\ gpc' = "begin"
      /\ UNCHANGED <<commands, stopping, idlers, engine, fresh, guest, accepted>>
  BY DEF TakeSubmission, Selected, Open
<1>3. /\ queues \in [Queues -> Seq(Submissions)] /\ accepted \in [Queues -> Seq(Acceptances)]
      /\ queues[q] \in Seq(Submissions) /\ accepted[q] \in Seq(Acceptances)
  BY <1>1 DEF Types
<1>4. /\ Tail(queues[q]) \in Seq(Submissions) /\ Len(queues[q]) \in Nat /\ Len(queues[q]) >= 1
      /\ Head(queues[q]) = queues[q][1] /\ Len(Tail(queues[q])) = Len(queues[q]) - 1
      /\ \A i \in 1..Len(Tail(queues[q])) : Tail(queues[q])[i] = queues[q][i + 1]
  BY <1>2, <1>3
<1>5. 1 \in 1..Len(queues[q]) /\ task' \in Submissions /\ QueueOf(task') = q
  <2>1. 1 \in 1..Len(queues[q])
    BY <1>4
  <2>2. queues[q][1] \in Submissions
    BY <1>3, <2>1, ElementOfSeq
  <2>3. QueueOf(queues[q][1]) = q
    BY <1>1, <2>1 DEF QueuesOK
  <2> QED BY <1>2, <1>4, <2>1, <2>2, <2>3
<1>6. /\ queues' \in [Queues -> Seq(Submissions)] /\ queues'[q] = Tail(queues[q])
      /\ \A r \in Queues : r # q => queues'[r] = queues[r]
  BY <1>2, <1>3, <1>4
<1>7. nextQueue' \in Queues
  <2> DEFINE n == Cardinality(Queues)
  <2>1. Queues = 0..(n - 1) /\ n \in Nat /\ q \in Queues /\ 0 \in Queues
    BY GpuThreadAssumption, FS_CardinalityType
  <2>2. nextQueue' = (q + 1) % n
    BY <1>2
  <2> HIDE DEF n
  <2>3. n >= 1 /\ q \in Nat
    BY <2>1
  <2>4. (q + 1) % n \in 0..(n - 1)
    BY <2>1, <2>3
  <2> QED BY <2>1, <2>2, <2>4
<1>8. Types'
  BY <1>1, <1>2, <1>6, <1>7 DEF Types, Spots, Slice, engine
<1>9. IsSub(task') /\ ~IsSub(task)
  BY <1>1, <1>2, <1>5 DEF TaskOK, Slice, Submissions, IsSub
<1>10. TaskOK'
  BY <1>2, <1>5, <1>9 DEF TaskOK, Slice, IsSub
<1>11. QueuesOK'
  <2> SUFFICES ASSUME NEW r \in Queues, NEW i \in 1..Len(queues'[r])
               PROVE  QueueOf(queues'[r][i]) = r
    BY DEF QueuesOK, QueueOf
  <2>1. CASE r # q
    BY <1>1, <1>6, <2>1 DEF QueuesOK
  <2>2. CASE r = q
    <3>1. queues'[q] = Tail(queues[q]) /\ i \in 1..Len(Tail(queues[q]))
      BY <1>6, <2>2
    <3>2. queues'[q][i] = queues[q][i + 1] /\ i + 1 \in 1..Len(queues[q])
      BY <1>4, <3>1
    <3> QED BY <1>1, <2>2, <3>2 DEF QueuesOK
  <2> QED BY <2>1, <2>2
<1>12. Histories'
  <2> SUFFICES ASSUME NEW r \in Queues
               PROVE  HistoryOK(accepted[r], queues'[r], InWork(r)', gpc', task', run'.base,
                                trace[r])
    BY <1>2 DEF Histories, engine
  <2>1. HistoryOK(accepted[r], queues[r], 0, gpc, task, run.base, trace[r])
    <3>1. InWork(r) = 0
      BY <1>9 DEF InWork
    <3>2. HistoryOK(accepted[r], queues[r], InWork(r), gpc, task, run.base, trace[r])
      BY <1>1 DEF Histories
    <3> QED BY <3>1, <3>2
  <2>2. CASE r # q
    <3>1. InWork(r)' = 0
      BY <1>5, <2>2 DEF InWork, QueueOf
    <3> QED BY <1>6, <2>1, <2>2, <3>1, HistoryElsewhere
  <2>3. CASE r = q
    <3>1. InWork(r)' = 1
      BY <1>5, <1>9, <2>3 DEF InWork, QueueOf, IsSub
    <3>2. HistoryOK(accepted[r], Tail(queues[r]), 1, "begin", Head(queues[r]), run.base, trace[r])
      BY <1>2, <1>3, <2>1, <2>3, HistoryTakes
    <3>3. run' = run
      BY <1>2 DEF engine
    <3> QED BY <1>2, <1>6, <2>3, <3>1, <3>2, <3>3
  <2> QED BY <2>2, <2>3
<1>13. \A h \in Guests : guest[h] \notin {"send", "flush"}
  BY <1>1, <1>2 DEF DonesOK, NoSubmissions
<1> QED BY <1>2, <1>8, <1>10, <1>11, <1>12, <1>13, QueueStep

\* What Unblocked leaves as it is.
LEMMA UnblockedSame ==
  ASSUME queues \in [Queues -> Seq(Submissions)], NEW next, next = Unblocked(queues)
  PROVE  /\ next \in [Queues -> Seq(Submissions)]
         /\ \A q \in Queues :
              /\ Len(next[q]) = Len(queues[q]) /\ (queues[q] = <<>> => next[q] = <<>>)
              /\ \A i \in 1..Len(queues[q]) : /\ next[q][i].prog = queues[q][i].prog
                                              /\ next[q][i].stack = queues[q][i].stack
<1> DEFINE other(s) == IF s = <<>> THEN <<>>
                   ELSE [s EXCEPT ![1] = [Head(s) EXCEPT !.blocked = FALSE]]
<1>1. ASSUME NEW s \in Seq(Submissions)
      PROVE  /\ other(s) \in Seq(Submissions) /\ Len(other(s)) = Len(s)
             /\ \A i \in 1..Len(s) : other(s)[i].prog = s[i].prog /\ other(s)[i].stack = s[i].stack
  <2>1. CASE s = <<>>
    BY <2>1
  <2>2. CASE s # <<>>
    <3> DEFINE head == [Head(s) EXCEPT !.blocked = FALSE]
    <3>1. Len(s) \in Nat /\ Len(s) >= 1 /\ Head(s) = s[1] /\ 1 \in 1..Len(s)
      BY <2>2
    <3>2. s[1] \in Submissions
      BY <3>1, ElementOfSeq
    <3>3. head \in Submissions /\ head.prog = s[1].prog /\ head.stack = s[1].stack
      BY <3>1, <3>2 DEF Submissions
    <3>4. other(s) = [s EXCEPT ![1] = head]
      BY <2>2
    <3> HIDE DEF head, other
    <3>5. other(s) \in Seq(Submissions) /\ Len(other(s)) = Len(s)
      BY <3>1, <3>3, <3>4, ExceptSeq
    <3>6. \A i \in 1..Len(s) : other(s)[i] = IF i = 1 THEN head ELSE s[i]
      BY <3>1, <3>4
    <3> QED BY <3>3, <3>5, <3>6
  <2> QED BY <2>1, <2>2
<1>2. next = [q \in Queues |-> other(queues[q])]
  BY DEF Unblocked
<1>3. \A q \in Queues : queues[q] = <<>> => other(queues[q]) = <<>>
  OBVIOUS
<1> HIDE DEF other
<1> QED BY <1>1, <1>2, <1>3

\* The heads may be tried again; where a queue's work stands does not change.
LEMMA UnblockedStep ==
  ASSUME Types, QueuesOK, queues' = Unblocked(queues), UNCHANGED <<accepted, trace>>,
         NEW spot, NEW x, NEW base,
         \A q \in Queues : HistoryOK(accepted[q], queues[q], 0, spot, x, base, trace[q]),
         ~IsSub(task)'
  PROVE  queues' \in [Queues -> Seq(Submissions)] /\ QueuesOK' /\ Histories'
<1>1. queues \in [Queues -> Seq(Submissions)] /\ accepted \in [Queues -> Seq(Acceptances)]
  BY DEF Types
<1>2. /\ queues' \in [Queues -> Seq(Submissions)]
      /\ \A q \in Queues :
           /\ Len(queues'[q]) = Len(queues[q])
           /\ \A i \in 1..Len(queues[q]) : /\ queues'[q][i].prog = queues[q][i].prog
                                           /\ queues'[q][i].stack = queues[q][i].stack
  BY <1>1, UnblockedSame
<1>3. QueuesOK'
  BY <1>2 DEF QueuesOK, QueueOf
<1>4. ASSUME NEW q \in Queues
      PROVE  HistoryOK(accepted[q], queues'[q], InWork(q)', gpc', task', run'.base, trace[q])
  <2>1. InWork(q)' = 0
    BY DEF InWork
  <2>2. HistoryOK(accepted[q], queues'[q], 0, spot, x, base, trace[q])
    <3>1. queues[q] \in Seq(Submissions) /\ accepted[q] \in Seq(Acceptances)
      BY <1>1
    <3>2. queues'[q] \in Seq(Submissions)
      BY <1>2
    <3>3. HistoryOK(accepted[q], queues[q], 0, spot, x, base, trace[q])
      OBVIOUS
    <3> QED BY <1>2, <3>1, <3>2, <3>3, HistoryUnblocks
  <2> QED BY <2>1, <2>2, HistoryElsewhere
<1> QED BY <1>2, <1>3, <1>4 DEF Histories

\* The nap ends.
LEMMA InvNapEnds == ASSUME GpuInv, NapEnds PROVE GpuInv'
<1>1. Types /\ TaskOK /\ QueuesOK /\ Histories
  BY DEF GpuInv
<1>2. /\ gpc = "nap" /\ gpc' = "select" /\ queues' = Unblocked(queues)
      /\ UNCHANGED <<commands, nextQueue, processing, stopping, idlers, task, engine, fresh,
                     guest, accepted>>
  BY DEF NapEnds
<1>3. ~IsSub(task) /\ ~IsSub(task)'
  BY <1>1, <1>2 DEF TaskOK, Slice, IsSub
<1>4. \A q \in Queues : HistoryOK(accepted[q], queues[q], 0, gpc, task, run.base, trace[q])
  <2>1. \A q \in Queues : InWork(q) = 0
    BY <1>3 DEF InWork
  <2> QED BY <1>1, <2>1 DEF Histories
<1>5. UNCHANGED <<accepted, trace>>
  BY <1>2 DEF engine
<1>6. queues' \in [Queues -> Seq(Submissions)] /\ QueuesOK' /\ Histories'
  BY <1>1, <1>2, <1>3, <1>4, <1>5, UnblockedStep
<1>7. Types'
  BY <1>1, <1>2, <1>6 DEF Types, Spots, engine
<1>8. TaskOK'
  BY <1>1, <1>2, <1>3 DEF TaskOK, Slice
<1>9. \A q \in Queues : queues[q] = <<>> => queues'[q] = <<>>
  BY <1>1, <1>2, UnblockedSame DEF Types
<1> QED BY <1>2, <1>3, <1>6, <1>7, <1>8, <1>9, QueueStep

\* A submission that waits.
LEMMA BlockedTask ==
  ASSUME NEW x \in Submissions, NEW y, y = [x EXCEPT !.blocked = TRUE]
  PROVE  y \in Submissions /\ y.prog = x.prog /\ y.stack = x.stack
BY DEF Submissions

\* A sequence with a new head.
LEMMA PutInFront ==
  ASSUME NEW S, NEW y \in S, NEW s \in Seq(S)
  PROVE  /\ <<y>> \o s \in Seq(S) /\ Len(<<y>> \o s) = Len(s) + 1 /\ Len(s) \in Nat
         /\ (<<y>> \o s)[1] = y /\ \A i \in 1..Len(s) : (<<y>> \o s)[i + 1] = s[i]
<1>1. <<y>> \in Seq(S) /\ Len(<<y>>) = 1
  OBVIOUS
<1> QED BY <1>1

\* A slice ends: the submission is complete or goes back to its queue.
LEMMA InvEndSlice == ASSUME GpuInv, EndSlice PROVE GpuInv'
<1> DEFINE q == QueueOf(task)
           back == [task EXCEPT !.blocked = TRUE]
<1>1. Types /\ TaskOK /\ QueuesOK /\ Histories /\ DonesOK
  BY DEF GpuInv
<1>2. /\ gpc = "finish" /\ gpc' = "select" /\ task' = Nothing /\ processing' = FALSE
      /\ queues' = IF task.stack = <<>> THEN Unblocked(queues)
                   ELSE [queues EXCEPT ![q] = <<back>> \o queues[q]]
      /\ UNCHANGED <<commands, nextQueue, stopping, engine, fresh, guest, accepted>>
  BY DEF EndSlice, Rested
<1>3. idlers' \subseteq Guests
  BY <1>1 DEF EndSlice, Rested, Types
<1>4. IsSub(task) /\ ~IsSub(task)' /\ gpc \in Slice
  BY <1>1, <1>2 DEF TaskOK, Slice, Nothing, IsSub
<1>5. task \in Submissions /\ q \in Queues
  BY <1>4, TaskFacts
<1>6. back \in Submissions /\ back.prog = task.prog /\ back.stack = task.stack /\ QueueOf(back) = q
  BY <1>5, BlockedTask DEF QueueOf
<1>7. /\ queues \in [Queues -> Seq(Submissions)] /\ accepted \in [Queues -> Seq(Acceptances)]
      /\ trace \in [Queues -> Texts] /\ UNCHANGED <<accepted, trace>>
  BY <1>1, <1>2 DEF Types, engine
<1>8. \A r \in Queues : InWork(r) = IF r = q THEN 1 ELSE 0
  BY <1>4 DEF InWork
<1> HIDE DEF q, back
<1>9. \A r \in Queues : HistoryOK(accepted[r], queues[r], IF r = q THEN 1 ELSE 0, "finish", task,
                                  run.base, trace[r])
  BY <1>1, <1>2, <1>8 DEF Histories
<1>10. queues' \in [Queues -> Seq(Submissions)] /\ QueuesOK' /\ Histories'
  <2>1. CASE task.stack = <<>>
    <3>1. ASSUME NEW r \in Queues
          PROVE  HistoryOK(accepted[r], queues[r], 0, "select", Nothing, 0, trace[r])
      <4>1. queues[r] \in Seq(Submissions) /\ accepted[r] \in Seq(Acceptances) /\ trace[r] \in Texts
        BY <1>7
      <4>2. CASE r = q
        <5>1. HistoryOK(accepted[r], queues[r], 1, "finish", task, run.base, trace[r])
          BY <1>9, <4>2
        <5> QED BY <2>1, <4>1, <5>1, HistoryEnds
      <4>3. CASE r # q
        <5>1. HistoryOK(accepted[r], queues[r], 0, "finish", task, run.base, trace[r])
          BY <1>9, <4>3
        <5> QED BY <5>1, HistoryElsewhere
      <4> QED BY <4>2, <4>3
    <3>2. queues' = Unblocked(queues)
      BY <1>2, <2>1
    <3> QED BY <1>1, <1>4, <1>7, <3>1, <3>2, UnblockedStep
  <2>2. CASE task.stack # <<>>
    <3>1. /\ <<back>> \o queues[q] \in Seq(Submissions) /\ Len(queues[q]) \in Nat
          /\ Len(<<back>> \o queues[q]) = Len(queues[q]) + 1 /\ (<<back>> \o queues[q])[1] = back
          /\ \A i \in 1..Len(queues[q]) : (<<back>> \o queues[q])[i + 1] = queues[q][i]
      <4>1. queues[q] \in Seq(Submissions)
        BY <1>5, <1>7
      <4> QED BY <1>6, <4>1, PutInFront
    <3>2. /\ queues' \in [Queues -> Seq(Submissions)] /\ queues'[q] = <<back>> \o queues[q]
          /\ \A r \in Queues : r # q => queues'[r] = queues[r]
      BY <1>2, <1>5, <1>7, <2>2, <3>1
    <3>3. QueuesOK'
      <4> SUFFICES ASSUME NEW r \in Queues, NEW i \in 1..Len(queues'[r])
                   PROVE  QueueOf(queues'[r][i]) = r
        BY DEF QueuesOK, QueueOf
      <4>1. CASE r # q
        BY <1>1, <3>2, <4>1 DEF QueuesOK
      <4>2. CASE r = q /\ i = 1
        BY <1>6, <3>1, <3>2, <4>2
      <4>3. CASE r = q /\ i # 1
        <5>1. i \in 1..(Len(queues[q]) + 1)
          BY <3>1, <3>2, <4>3
        <5>2. i - 1 \in 1..Len(queues[q]) /\ (i - 1) + 1 = i
          BY <3>1, <4>3, <5>1
        <5>3. queues'[q][i] = queues[q][i - 1]
          BY <3>1, <3>2, <5>2
        <5> QED BY <1>1, <1>5, <4>3, <5>2, <5>3 DEF QueuesOK
      <4> QED BY <4>1, <4>2, <4>3
    <3>4. ASSUME NEW r \in Queues
          PROVE  HistoryOK(accepted[r], queues'[r], InWork(r)', gpc', task', run'.base, trace[r])
      <4>1. InWork(r)' = 0
        BY <1>4 DEF InWork
      <4>2. queues[r] \in Seq(Submissions) /\ accepted[r] \in Seq(Acceptances) /\ trace[r] \in Texts
        BY <1>7
      <4>3. CASE r = q
        <5>1. HistoryOK(accepted[r], queues[r], 1, "finish", task, run.base, trace[r])
          BY <1>9, <4>3
        <5>2. HistoryOK(accepted[r], <<back>> \o queues[r], 0, gpc', task', run'.base, trace[r])
          BY <1>6, <2>2, <4>2, <5>1, HistoryBlocks
        <5> QED BY <3>2, <4>1, <4>3, <5>2
      <4>4. CASE r # q
        <5>1. HistoryOK(accepted[r], queues[r], 0, "finish", task, run.base, trace[r])
          BY <1>9, <4>4
        <5> QED BY <3>2, <4>1, <4>4, <5>1, HistoryElsewhere
      <4> QED BY <4>3, <4>4
    <3> QED BY <1>7, <3>2, <3>3, <3>4 DEF Histories
  <2> QED BY <2>1, <2>2
<1>11. Types'
  BY <1>1, <1>2, <1>3, <1>10 DEF Types, Spots, engine
<1>12. TaskOK'
  BY <1>2, <1>4 DEF TaskOK, Slice
<1>13. \A h \in Guests : guest[h] \notin {"send", "flush"}
  BY <1>1, <1>4 DEF DonesOK
<1> QED BY <1>2, <1>10, <1>11, <1>12, <1>13, QueueStep

-----------------------------------------------------------------------------
(* The theorems.                                                           *)

\* No step at all.
LEMMA GpuInvStays == GpuInv /\ UNCHANGED gpuVars => GpuInv'
<1> SUFFICES ASSUME GpuInv, UNCHANGED gpuVars
             PROVE  GpuInv'
  OBVIOUS
<1> USE DEF gpuVars, locked, engine
<1>1. Types' /\ TaskOK' /\ QueuesOK'
  BY DEF GpuInv, Types, TaskOK, QueuesOK, QueueOf
<1>2. CommandsOK' /\ DonesOK'
  BY DEF GpuInv, CommandsOK, DonesOK, NoSubmissions
<1> QED BY <1>1, <1>2, FrameStep

\* The thread's steps keep the invariant.
LEMMA ThreadStep == GpuInv /\ Thread => GpuInv'
BY InvRest, InvStop, InvTakeCommand, InvTakeSubmission, InvNap, InvNapEnds, InvRunCommand,
   InvEndCommand, InvExit, InvBegin, InvPrepareCpuFlip, InvEnterPass, InvEndPass, InvEndSlice,
   InvDraw, InvWriteData, InvWaitRegMem, InvProcessIndirectBuffer, InvDeferredAdvance,
   InvPopBuffer, InvComplete DEF Thread

\* And so does every step.
LEMMA GpuInvStep == GpuInv /\ [GpuNext]_gpuVars => GpuInv'
<1> SUFFICES ASSUME GpuInv, [GpuNext]_gpuVars
             PROVE  GpuInv'
  OBVIOUS
<1>1. CASE UNCHANGED gpuVars
  BY <1>1, GpuInvStays
<1>2. CASE Thread
  BY <1>2, ThreadStep
<1>3. CASE DeviceFinishes \/ GpuShutdown
  BY <1>3, InvDeviceFinishes, InvGpuShutdown
<1>4. CASE \E l \in GuestLabels : WriteLabel(l)
  BY <1>4, InvWriteLabel
<1>5. ASSUME NEW g \in Guests, NEW p \in DOMAIN Programs, Enqueue(g, p) PROVE GpuInv'
  BY <1>5, InvEnqueue
<1>6. ASSUME NEW g \in Guests, SendCommandSync(g) \/ Done(g) \/ WaitForIdle(g) \/ SendFlush(g)
      PROVE  GpuInv'
  BY <1>6, InvSendCommandSync, InvDone, InvWaitForIdle, InvSendFlush
<1> QED BY <1>1, <1>2, <1>3, <1>4, <1>5, <1>6 DEF GpuNext

\* GpuState's thread: what it works on, where it stands in nested buffers and what it
\* has executed agree, whatever the guest submits and whenever a packet has to wait.
THEOREM GpuInvariant == GpuSpec => []GpuInv
<1>1. GpuInit => GpuInv
  BY GpuInvInit
<1>2. GpuInv /\ [GpuNext]_gpuVars => GpuInv'
  BY GpuInvStep
<1> QED BY <1>1, <1>2, PTL DEF GpuSpec

\* Every reachable state of the thread, its queues and its callers has the types declared.
THEOREM GpuTypeCorrect == GpuSpec => []GpuTypeOK
<1>1. GpuInv => GpuTypeOK
  <2> SUFFICES ASSUME GpuInv
               PROVE  GpuTypeOK
    OBVIOUS
  <2>1. Types /\ TaskOK /\ QueuesOK
    BY DEF GpuInv
  <2>2. ASSUME NEW q \in Queues, NEW i \in DOMAIN queues[q]
        PROVE  IsSub(queues[q][i]) /\ QueueOf(queues[q][i]) = q
    <3>1. queues[q] \in Seq(Submissions) /\ i \in 1..Len(queues[q])
      BY <2>1 DEF Types
    <3>2. queues[q][i] \in Submissions
      BY <3>1, ElementOfSeq
    <3> QED BY <2>1, <3>1, <3>2, QueueFacts DEF QueuesOK
  <2>3. IsSub(task) => task.stack \in Seq(Cursor)
    BY TaskFacts, QueueFacts
  <2> QED BY <2>1, <2>2, <2>3 DEF GpuTypeOK, Types, Spots, Slice
<1> QED BY <1>1, GpuInvariant, PTL

\* All that was submitted to a queue, as the inductive invariant counts it.
LEMMA OrderedIsDue ==
  ASSUME Types, NEW q \in Queues
  PROVE  Ordered(q) = DueTo(accepted[q], Len(accepted[q]))
<1>1. accepted[q] \in Seq(Acceptances)
  BY DEF Types
<1>2. accepted[q] = <<>> <=> Len(accepted[q]) = 0
  BY <1>1
<1> QED BY <1>2 DEF Ordered, DueTo

\* The invariant gives the property.
LEMMA InOrder == GpuInv => ExecutedInOrder
<1> SUFFICES ASSUME GpuInv, NEW q \in Queues
             PROVE  /\ IsPrefix(trace[q], Ordered(q))
                    /\ queues[q] = <<>> /\ ~(IsSub(task) /\ QueueOf(task) = q)
                         => trace[q] = Ordered(q)
  BY DEF ExecutedInOrder
<1>1. Types /\ HistoryOK(accepted[q], queues[q], InWork(q), gpc, task, run.base, trace[q])
  BY DEF GpuInv, Histories
<1>2. /\ accepted[q] \in Seq(Acceptances) /\ queues[q] \in Seq(Submissions) /\ trace[q] \in Texts
      /\ InWork(q) \in {0, 1}
  BY <1>1 DEF Types, InWork
<1>3. /\ IsPrefix(trace[q], DueTo(accepted[q], Len(accepted[q])))
      /\ queues[q] = <<>> /\ InWork(q) = 0 => trace[q] = DueTo(accepted[q], Len(accepted[q]))
  BY <1>1, <1>2, HistoryInOrder
<1>4. ~(IsSub(task) /\ QueueOf(task) = q) => InWork(q) = 0
  BY DEF InWork
<1> QED BY <1>1, <1>3, <1>4, OrderedIsDue

\* ProcessPm4 executes a queue's packets once each and in the order of submission,
\* however deep in nested buffers a wait suspended it, for all programs.
THEOREM PacketsRunInOrder == GpuSpec => []ExecutedInOrder
BY GpuInvariant, InOrder, PTL

\* Only the command that a Done sent releases it, and only what the device has finished.
LEMMA DoneStep ==
  ASSUME GpuInv, [GpuNext]_gpuVars, NEW g \in Guests, guest[g] = "flush", guest'[g] = "free"
  PROVE  Drained /\ \A q \in Queues : trace[q] = Ordered(q)
<1>1. Types /\ TaskOK /\ CommandsOK /\ DonesOK
  BY DEF GpuInv
<1>2. guest \in [Guests -> GuestSpots]
  BY <1>1 DEF Types, GuestSpots
<1>3. RunCommand
  <2>1. guest' # guest
    OBVIOUS
  <2>2. ASSUME NEW h \in Guests, NEW where \in GuestSpots, Goto(h, where), where # "free"
        PROVE  guest'[g] # "free"
    BY <1>2, <2>2 DEF Goto
  <2>3. ~UNCHANGED gpuVars /\ ~DeviceFinishes /\ ~GpuShutdown
          /\ ~\E l \in GuestLabels : WriteLabel(l)
    BY <2>1 DEF gpuVars, DeviceFinishes, GpuShutdown, WriteLabel
  <2>4. \A h \in Guests : /\ \A p \in DOMAIN Programs : ~Enqueue(h, p)
                          /\ ~SendCommandSync(h) /\ ~Done(h) /\ ~SendFlush(h)
    <3>1. \A h \in Guests, p \in DOMAIN Programs : ~Enqueue(h, p)
      BY <2>1 DEF Enqueue
    <3>2. \A h \in Guests : ~SendCommandSync(h) /\ ~Done(h) /\ ~SendFlush(h)
      BY <2>2 DEF SendCommandSync, Done, SendFlush, Send, GuestSpots
    <3> QED BY <3>1, <3>2
  <2>5. \A h \in Guests : ~WaitForIdle(h)
    BY <2>1, <2>2 DEF WaitForIdle, GuestSpots
  <2>6. Thread
    BY <2>3, <2>4, <2>5 DEF GpuNext
  <2>7. ~(Rest \/ Stop \/ TakeCommand \/ (\E q \in Queues : TakeSubmission(q)) \/ Nap \/ NapEnds)
    BY <2>1 DEF Rest, Stop, TakeCommand, TakeSubmission, Nap, NapEnds
  <2>8. ~(EndCommand \/ Exit \/ Begin \/ PrepareCpuFlip \/ EnterPass \/ EndPass \/ EndSlice)
    BY <2>1 DEF EndCommand, Exit, Begin, PrepareCpuFlip, EnterPass, EndPass, EndSlice
  <2>9. ~(Draw \/ WriteData \/ WaitRegMem \/ ProcessIndirectBuffer \/ DeferredAdvance
            \/ PopBuffer \/ Complete)
    BY <2>1 DEF Draw, WriteData, WaitRegMem, ProcessIndirectBuffer, DeferredAdvance, PopBuffer,
                Complete
  <2> QED BY <2>6, <2>7, <2>8, <2>9 DEF Thread
<1>4. task \in Command /\ g = task.from
  <2>1. task \in Command
    BY <1>1, <1>3 DEF RunCommand, TaskOK
  <2> QED BY <1>2, <1>3, <2>1 DEF RunCommand, Goto
<1>5. task.kind = "flush" /\ ~IsSub(task) /\ NoSubmissions
  <2>1. guest[g] = Reply(task)
    BY <1>1, <1>3, <1>4 DEF CommandsOK, RunCommand
  <2>2. task.kind = "flush"
    BY <2>1, <1>4 DEF Reply, Command
  <2> QED BY <1>1, <2>2 DEF DonesOK
<1>6. ExecutedInOrder
  BY InOrder
<1> QED BY <1>3, <1>5, <1>6 DEF RunCommand, ExecutedInOrder, NoSubmissions

\* GpuState::Done returns when all that was submitted before has been executed and the
\* device has finished it, for every number of threads and whatever commands come between.
THEOREM DoneCoversAll == GpuSpec => DoneCovers
<1>1. GpuInv /\ [GpuNext]_gpuVars =>
        [\A g \in Guests : guest[g] = "flush" /\ guest'[g] = "free" =>
           Drained /\ \A q \in Queues : trace[q] = Ordered(q)]_gpuVars
  BY DoneStep
<1> QED BY <1>1, GpuInvariant, PTL DEF GpuSpec, DoneCovers
=============================================================================
