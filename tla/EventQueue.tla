----------------------------- MODULE EventQueue ------------------------------
(***************************************************************************)
(* The kernel event queue: KernelEqueuePrivate and its registry in         *)
(* kernel/eventQueue.cpp, with the trigger and reset callbacks that        *)
(* kernel/eventQueue.cpp, graphics/host_gpu/renderer/sync.cpp and          *)
(* graphics/presentation/videoOut.cpp attach to its events.                *)
(*                                                                         *)
(* A call first pins the queue, by a lookup under the registry's lock,     *)
(* and then runs a method under m_mutex: two steps, with a deletion        *)
(* possible in between.  WaitForEvents gives m_mutex up while it sleeps.   *)
(* A thread asleep is told apart from one that has been woken and has yet  *)
(* to take m_mutex.  Every sleep ends by itself in the end: it is cut      *)
(* short by the 10 ms poll, the caller's limit, a timer's deadline or      *)
(* UINT32_MAX microseconds.                                                *)
(*                                                                         *)
(* An event's data is the number of its trigger, so that what was          *)
(* delivered can be compared with what was triggered.                      *)
(***************************************************************************)
EXTENDS Integers, Sequences, FiniteSets, SequencesExt

CONSTANTS
  Threads,        \* guest threads and the emulator's own
  Keys,           \* (ident, filter) pairs
  Kinds,          \* Kinds[k]: the kinds of event that may be added as k
  Nums,           \* capacities of the array a waiting thread passes
  SentMax         \* bound: triggers of an event between its addition and its end

\* level:  KernelAddUserEvent, the reset callback leaves it triggered;
\* edge:   KernelAddUserEventEdge, triggers coalesce;
\* queued: AMPR, end-of-pipe and video-out events, triggers queue up;
\* timer:  KernelAddHRTimerEvent, one shot.
AllKinds == {"level", "edge", "queued", "timer"}

ASSUME EventQueueAssumption ==
  /\ IsFiniteSet(Threads) /\ IsFiniteSet(Keys)
  /\ Kinds \in [Keys -> SUBSET AllKinds]
  /\ Nums \subseteq Nat \ {0}
  /\ SentMax \in Nat \ {0}

VARIABLES
  registered,     \* the handle is a key of g_equeues
  closed,         \* m_closed
  order,          \* m_events, as the keys in list order
  ev,             \* the event of each key, see Event
  pc,             \* where each thread is
  call,           \* the arguments of each thread's wait
  ret,            \* code returned by the call that ended last
  plain           \* history: the queue never held a level or a timer event

vars == <<registered, closed, order, ev, pc, call, ret, plain>>

\* fifo holds the data of the event itself, when it is triggered, followed by
\* pending_events; sent and got are history: the number of triggers so far and
\* the data delivered last.
Event == [kind : AllKinds \cup {"none"}, deadline : {"none", "armed", "due"},
          fifo : Seq(1..SentMax), sent : 0..SentMax, got : 0..SentMax]
NoEvent == [kind |-> "none", deadline |-> "none", fifo |-> <<>>, sent |-> 0, got |-> 0]

Call == [num : Nums \cup {0}, limit : {"none", "zero", "time"}]
NoCall == [num |-> 0, limit |-> "none"]

Codes == {"OK", "EBADF", "ENOENT", "ETIMEDOUT"}

Asleep == {t \in Threads : pc[t] = "asleep"}
Awake  == {t \in Threads : pc[t] = "awake"}

\* m_events has one entry for each event, and no key twice.
TypeOK ==
  /\ registered \in BOOLEAN /\ closed \in BOOLEAN
  /\ order \in Seq(Keys) /\ IsInjective(order)
  /\ ev \in [Keys -> Event]
  /\ \A k \in Keys : k \in ToSet(order) <=> ev[k].kind # "none"
  /\ pc \in [Threads -> {"run", "pinned", "asleep", "awake", "closing"}]
  /\ call \in [Threads -> Call]
  /\ ret \in Codes /\ plain \in BOOLEAN

Init ==
  /\ registered = TRUE /\ closed = FALSE
  /\ order = <<>> /\ ev = [k \in Keys |-> NoEvent]
  /\ pc = [t \in Threads |-> "run"]
  /\ call = [t \in Threads |-> NoCall]
  /\ ret = "OK" /\ plain = TRUE

Goto(t, where) == pc' = [pc EXCEPT ![t] = where]
Exists(k) == ev[k].kind # "none"

-----------------------------------------------------------------------------
(* The registry                                                            *)

\* KernelPinEqueue.
Pin(t) ==
  /\ pc[t] = "run"
  /\ IF registered THEN Goto(t, "pinned") /\ ret' = ret
                   ELSE ret' = "EBADF" /\ pc' = pc
  /\ UNCHANGED <<registered, closed, order, ev, call, plain>>

\* KernelCreateEqueue, once the queue before is gone; handles are not reused.
Create(t) ==
  /\ pc[t] = "run" /\ ~registered /\ closed
  /\ \A u \in Threads : pc[u] = "run"
  /\ registered' = TRUE /\ closed' = FALSE /\ ret' = "OK" /\ plain' = TRUE
  /\ UNCHANGED <<order, ev, pc, call>>

\* KernelDeleteEqueue takes the queue from the registry, then closes it.
Unregister(t) ==
  /\ pc[t] = "run" /\ registered
  /\ registered' = FALSE /\ Goto(t, "closing")
  /\ UNCHANGED <<closed, order, ev, call, ret, plain>>

Close(t) ==
  /\ pc[t] = "closing"
  /\ closed' = TRUE
  /\ order' = <<>> /\ ev' = [k \in Keys |-> NoEvent]
  /\ pc' = [u \in Threads |-> IF u = t THEN "run"
                              ELSE IF u \in Asleep THEN "awake" ELSE pc[u]]
  /\ ret' = "OK"
  /\ UNCHANGED <<registered, call, plain>>

-----------------------------------------------------------------------------
(* Changing the events                                                     *)

Before(k, l) == \E i, j \in DOMAIN order : i < j /\ order[i] = k /\ order[j] = l

\* Of m_events the entries of left stay, in the order in which they are.
Keep(left) ==
  /\ order' \in [1..Cardinality(left) -> left]
  /\ \A i, j \in DOMAIN order' : i < j => Before(order'[i], order'[j])

\* The pinned method of t returns code and m_cond_var.Signal wakes a sleeper.
NotifyOne(t) ==
  /\ IF Asleep = {}
     THEN Goto(t, "run")
     ELSE \E u \in Asleep : pc' = [pc EXCEPT ![t] = "run", ![u] = "awake"]
  /\ ret' = "OK"

Refuse(t, code) ==
  Goto(t, "run") /\ ret' = code /\ UNCHANGED <<order, ev>>

\* An event as it is added; a video-out mode event starts out triggered.
NewEvent(kind, on) ==
  [NoEvent EXCEPT !.kind = kind,
                  !.deadline = IF kind = "timer" THEN "armed" ELSE "none",
                  !.fifo = IF on THEN <<1>> ELSE <<>>,
                  !.sent = IF on THEN 1 ELSE 0]

\* Adding a key again only moves the deadline: callbacks, data and pending
\* triggers stay those of the first addition.
AddEvent(t, k, kind, on) ==
  /\ pc[t] = "pinned" /\ kind \in Kinds[k] /\ (on => kind = "queued")
  /\ \/ closed /\ Refuse(t, "EBADF")
     \/ /\ ~closed /\ ~Exists(k)
        /\ order' = Append(order, k)
        /\ ev' = [ev EXCEPT ![k] = NewEvent(kind, on)]
        /\ NotifyOne(t)
     \/ /\ ~closed /\ Exists(k)
        /\ ev' = [ev EXCEPT ![k].deadline = NewEvent(kind, on).deadline]
        /\ order' = order
        /\ NotifyOne(t)
  /\ plain' = (plain /\ (closed \/ kind \in {"edge", "queued"}))
  /\ UNCHANGED <<registered, closed, call>>

\* Seeded defect: a trigger that finds the event triggered replaces its data.
TriggeredLast(e) == [e EXCEPT !.sent = @ + 1, !.fifo = <<e.sent + 1>>]

\* UserEventTriggerFunc overwrites; AmprEventTriggerFunc, EopEventTriggerFunc
\* and TriggerVideoOutEvent queue behind an event already triggered.
Triggered(e) ==
  [e EXCEPT !.sent = @ + 1,
            !.fifo = IF e.kind = "queued" THEN Append(@, e.sent + 1) ELSE <<e.sent + 1>>]

\* Seeded defect: only the trigger of an idle event wakes a sleeper.
TriggerEventQuiet(t, k) ==
  /\ pc[t] = "pinned" /\ ~closed /\ Exists(k) /\ ev[k].sent < SentMax
  /\ ev' = [ev EXCEPT ![k] = Triggered(@)] /\ order' = order
  /\ IF ev[k].fifo = <<>> THEN NotifyOne(t) ELSE Goto(t, "run") /\ ret' = "OK"
  /\ UNCHANGED <<registered, closed, call, plain>>

TriggerEvent(t, k) ==
  /\ pc[t] = "pinned" /\ "timer" \notin Kinds[k]
  /\ \/ closed /\ Refuse(t, "EBADF")
     \/ ~closed /\ ~Exists(k) /\ Refuse(t, "ENOENT")
     \/ /\ ~closed /\ Exists(k) /\ ev[k].sent < SentMax
        /\ ev' = [ev EXCEPT ![k] = Triggered(@)] /\ order' = order
        /\ NotifyOne(t)
  /\ UNCHANGED <<registered, closed, call, plain>>

DeleteEvent(t, k) ==
  /\ pc[t] = "pinned"
  /\ \/ closed /\ Refuse(t, "EBADF")
     \/ ~closed /\ ~Exists(k) /\ Refuse(t, "ENOENT")
     \/ /\ ~closed /\ Exists(k)
        /\ Keep(ToSet(order) \ {k})
        /\ ev' = [ev EXCEPT ![k] = NoEvent]
        /\ Goto(t, "run") /\ ret' = "OK"
  /\ UNCHANGED <<registered, closed, call, plain>>

\* Time passes a deadline.
Expire(k) ==
  /\ ev[k].deadline = "armed"
  /\ ev' = [ev EXCEPT ![k].deadline = "due"]
  /\ UNCHANGED <<registered, closed, order, pc, call, ret, plain>>

-----------------------------------------------------------------------------
(* GetTriggeredEvents and WaitForEvents                                    *)

\* Seeded defect: deadlines are not looked at.
FiredNever(e) == e

\* TriggerExpiredTimers.
Fired(e) ==
  IF e.fifo = <<>> /\ e.deadline = "due" THEN Triggered(e) ELSE e

\* How many entries of the array an event fills when n are left.
Supply(e, n) ==
  IF e.kind = "level" /\ e.fifo # <<>>
  THEN n
  ELSE IF Len(e.fifo) < n THEN Len(e.fifo) ELSE n

\* left[i] entries of an array of n are left after the i-th event.
Batch(left, n) ==
  /\ left[0] = n
  /\ \A i \in 1..Len(order) :
       left[i] = left[i - 1] - Supply(Fired(ev[order[i]]), left[i - 1])

\* The event with c of its entries delivered: a timer is erased, the reset
\* callback clears the others and the next pending trigger takes their place.
Delivered(e, c) ==
  IF c = 0 THEN e
  ELSE CASE e.kind = "timer" -> NoEvent
         [] e.kind = "level" -> [e EXCEPT !.got = e.fifo[1]]
         [] OTHER            -> [e EXCEPT !.got = e.fifo[c],
                                          !.fifo = SubSeq(e.fifo, c + 1, Len(e.fifo))]

\* The events once left describes what was delivered.  TriggerExpiredTimers
\* has run over all of them, also those behind a full array.
Taken(left) ==
  [k \in Keys |->
     IF k \notin ToSet(order) THEN ev[k]
     ELSE LET i == CHOOSE j \in 1..Len(order) : order[j] = k
          IN  Delivered(Fired(ev[k]), left[i - 1] - left[i])]

\* A look at the queue by t for the call c: the call ends or t sleeps.
Look(t, c) ==
  \/ /\ closed /\ Refuse(t, "EBADF")
     /\ call' = [call EXCEPT ![t] = NoCall]
  \/ /\ ~closed
     /\ \E left \in [0..Len(order) -> 0..c.num] :
          /\ Batch(left, c.num)
          /\ ev' = Taken(left)
          /\ Keep({k \in ToSet(order) : Taken(left)[k].kind # "none"})
          /\ IF left[Len(order)] < c.num
             THEN Goto(t, "run") /\ ret' = "OK" /\ call' = [call EXCEPT ![t] = NoCall]
             ELSE \/ /\ c.limit = "zero" \/ (c.limit = "time" /\ pc[t] = "awake")
                     /\ Goto(t, "run") /\ ret' = "ETIMEDOUT"
                     /\ call' = [call EXCEPT ![t] = NoCall]
                  \/ /\ c.limit # "zero"
                     /\ Goto(t, "asleep") /\ ret' = ret
                     /\ call' = [call EXCEPT ![t] = c]

\* KernelWaitEqueue with the queue pinned.
WaitEqueue(t, num, limit) ==
  /\ pc[t] = "pinned" /\ Look(t, [num |-> num, limit |-> limit])
  /\ UNCHANGED <<registered, closed, plain>>

\* A sleeper is back under m_mutex.
LookAgain(t) ==
  /\ pc[t] = "awake" /\ Look(t, call[t])
  /\ UNCHANGED <<registered, closed, plain>>

\* A sleep ends by itself.
Wake(t) ==
  /\ pc[t] = "asleep" /\ Goto(t, "awake")
  /\ UNCHANGED <<registered, closed, order, ev, call, ret, plain>>

Next ==
  \/ \E k \in Keys : Expire(k)
  \/ \E t \in Threads :
       \/ Pin(t) \/ Create(t) \/ Unregister(t) \/ Close(t)
       \/ \E k \in Keys :
            \/ \E kind \in AllKinds, on \in BOOLEAN : AddEvent(t, k, kind, on)
            \/ TriggerEvent(t, k) \/ DeleteEvent(t, k)
       \/ \E n \in Nums, limit \in {"none", "zero", "time"} : WaitEqueue(t, n, limit)
       \/ LookAgain(t) \/ Wake(t)

\* Sleeps end and a thread out of its sleep gets the mutex; a deletion under
\* way goes on.  Nothing is assumed of the guest.
Fairness ==
  \A t \in Threads : WF_vars(LookAgain(t)) /\ WF_vars(Wake(t)) /\ WF_vars(Close(t))

Spec == Init /\ [][Next]_vars /\ Fairness

-----------------------------------------------------------------------------
(* Properties                                                              *)

\* Triggers of a queued event reach waiters once each and in order, however
\* many threads take batches of whatever size; a coalescing event shows its
\* newest trigger until somebody has seen it.
DeliveredInOrder ==
  \A k \in Keys :
    /\ ev[k].kind = "queued" =>
         ev[k].fifo = [i \in 1..(ev[k].sent - ev[k].got) |-> ev[k].got + i]
    /\ ev[k].kind \in {"edge", "level"} =>
         IF ev[k].fifo = <<>> THEN ev[k].got = ev[k].sent ELSE ev[k].fifo = <<ev[k].sent>>

\* The triggers not yet delivered.
Untaken == UNION {{k} \X DOMAIN ev[k].fifo : k \in Keys}

\* While a thread sleeps, every trigger not yet delivered is matched by a
\* woken thread on its way, although each trigger wakes one thread only and
\* batches may be short.  It needs a queue that never held a level or a timer
\* event: those let a woken thread return with something else.
TriggersAreCovered ==
  plain /\ Asleep # {} => Cardinality(Untaken) <= Cardinality(Awake)

\* The event of k can be delivered: it is triggered or past its deadline.
Ready(k) == ev[k].fifo # <<>> \/ ev[k].deadline = "due"
Waiting == {t \in Threads : pc[t] \in {"asleep", "awake"}}

\* An event that is ready while somebody waits is delivered or the wait ends
\* otherwise, whichever thread the additions and triggers have woken.
ReadyIsDelivered ==
  \A k \in Keys : (Ready(k) /\ Waiting # {}) ~> (~Ready(k) \/ Waiting = {})
=============================================================================
