-------------------------- MODULE EventQueueProofs ---------------------------
(***************************************************************************)
(* Proofs about the kernel event queue, for any threads, events and        *)
(* capacities of arrays and any number of triggers.                        *)
(***************************************************************************)
EXTENDS EventQueue, TLAPS, WellFoundedInduction, FiniteSetTheorems

\* An event without the bound on its triggers.
AnyEvent ==
  [kind : AllKinds \cup {"none"}, deadline : {"none", "armed", "due"},
   fifo : Seq(Nat), sent : Nat, got : Nat]

\* The triggers of e that wait are those after the last one delivered; of a
\* coalescing event the newest.
InOrder(e) ==
  /\ e.kind = "queued" =>
       e.got <= e.sent /\ e.fifo = [i \in 1..(e.sent - e.got) |-> e.got + i]
  /\ e.kind \in {"edge", "level"} =>
       IF e.fifo = <<>> THEN e.got = e.sent ELSE e.fifo = <<e.sent>>

Good(e) == e \in AnyEvent /\ InOrder(e)

\* The list and the arguments of a wait need their types only.
QueueInv ==
  /\ order \in Seq(Keys) /\ DOMAIN ev = Keys
  /\ \A k \in Keys : Good(ev[k])
  /\ call \in [Threads -> [num : Nat, limit : {"none", "zero", "time"}]]

LEMMA NoEventGood == Good(NoEvent)
BY DEF Good, InOrder, AnyEvent, NoEvent, AllKinds

LEMMA NewEventGood ==
  ASSUME NEW kind \in AllKinds
  PROVE  Good(NewEvent(kind, FALSE)) /\ Good(NewEvent("queued", TRUE))
<1>1. NoEvent \in AnyEvent /\ NoEvent.got = 0
  BY DEF AnyEvent, NoEvent
<1>2. Good(NewEvent("queued", TRUE))
  <2> DEFINE one == <<1>>
             new == NewEvent("queued", TRUE)
  <2>1. one \in Seq(Nat) /\ one = [i \in 1..(1 - 0) |-> 0 + i]
    OBVIOUS
  <2>2. new = [NoEvent EXCEPT !.kind = "queued", !.deadline = "none", !.fifo = one,
                                    !.sent = 1]
    BY DEF NewEvent
  <2> HIDE DEF one, new
  <2>3. "queued" \in AllKinds
    BY DEF AllKinds
  <2>4. new \in AnyEvent /\ new.kind = "queued" /\ new.fifo = one /\ new.sent = 1 /\ new.got = 0
    BY <1>1, <2>1, <2>2, <2>3 DEF AnyEvent
  <2>5. Good(new)
    BY <2>1, <2>4 DEF Good, InOrder
  <2> QED BY <2>5 DEF new
<1>3. Good(NewEvent(kind, FALSE))
  <2> DEFINE d   == IF kind = "timer" THEN "armed" ELSE "none"
             new == NewEvent(kind, FALSE)
  <2>1. new = [NoEvent EXCEPT !.kind = kind, !.deadline = d, !.fifo = <<>>, !.sent = 0]
    BY DEF NewEvent
  <2>2. d \in {"none", "armed", "due"}
    OBVIOUS
  <2> HIDE DEF d, new
  <2>3. <<>> \in Seq(Nat) /\ <<>> = [i \in 1..(0 - 0) |-> 0 + i]
    OBVIOUS
  <2>4. new \in AnyEvent /\ new.kind = kind /\ new.fifo = <<>> /\ new.sent = 0 /\ new.got = 0
    BY <1>1, <2>1, <2>2, <2>3 DEF AnyEvent
  <2>5. Good(new)
    BY <2>3, <2>4 DEF Good, InOrder
  <2> QED BY <2>5 DEF new
<1> QED BY <1>2, <1>3

\* The deadline plays no part.
LEMMA DeadlineGood ==
  ASSUME NEW e, Good(e), NEW d \in {"none", "armed", "due"}
  PROVE  Good([e EXCEPT !.deadline = d])
BY DEF Good, InOrder, AnyEvent

LEMMA TriggeredGood ==
  ASSUME NEW e, Good(e)
  PROVE  Good(Triggered(e))
<1> DEFINE fifo == IF e.kind = "queued" THEN Append(e.fifo, e.sent + 1) ELSE <<e.sent + 1>>
           next == e.sent + 1
<1>1. e \in AnyEvent /\ e.got \in Nat /\ e.sent \in Nat /\ e.fifo \in Seq(Nat)
  BY DEF Good, AnyEvent
<1>2. fifo \in Seq(Nat) /\ next \in Nat
  BY <1>1
<1>3. Triggered(e) = [e EXCEPT !.sent = next, !.fifo = fifo]
  BY DEF Triggered
<1>4. e.kind = "queued" =>
        /\ e.got <= next
        /\ fifo = [i \in 1..(next - e.got) |-> e.got + i]
  <2> SUFFICES ASSUME e.kind = "queued"
               PROVE  e.got <= next /\ fifo = [i \in 1..(next - e.got) |-> e.got + i]
    OBVIOUS
  <2>1. e.got <= e.sent /\ e.fifo = [i \in 1..(e.sent - e.got) |-> e.got + i]
    BY DEF Good, InOrder
  <2>2. Len(e.fifo) = e.sent - e.got
    BY <1>1, <2>1
  <2>3. e.got <= next /\ next - e.got = e.sent - e.got + 1
    BY <1>1, <2>1
  <2>4. fifo = Append(e.fifo, e.sent + 1)
    OBVIOUS
  <2>5. /\ Append(e.fifo, e.sent + 1) \in Seq(Nat)
        /\ Len(Append(e.fifo, e.sent + 1)) = e.sent - e.got + 1
        /\ \A i \in 1..(e.sent - e.got + 1) : Append(e.fifo, e.sent + 1)[i] = e.got + i
    BY <1>1, <2>1, <2>2
  <2>6. fifo = [i \in 1..(e.sent - e.got + 1) |-> e.got + i]
    <3> HIDE DEF fifo
    <3> QED BY <2>4, <2>5
  <2> QED BY <2>3, <2>6
<1>5. e.kind # "queued" => fifo # <<>> /\ fifo = <<next>>
  OBVIOUS
<1> HIDE DEF fifo, next
<1>6. /\ Triggered(e) \in AnyEvent
      /\ Triggered(e).kind = e.kind /\ Triggered(e).got = e.got
      /\ Triggered(e).sent = next /\ Triggered(e).fifo = fifo
  BY <1>1, <1>2, <1>3 DEF AnyEvent
<1> QED BY <1>4, <1>5, <1>6 DEF Good, InOrder

LEMMA FiredGood ==
  ASSUME NEW e, Good(e)
  PROVE  Good(Fired(e))
BY TriggeredGood DEF Fired

\* A batch takes an event's triggers from the front.
LEMMA DeliveredGood ==
  ASSUME NEW e, Good(e), NEW n \in Nat
  PROVE  Good(Delivered(e, Supply(e, n)))
<1> DEFINE c == Supply(e, n)
           d == Delivered(e, c)
<1> SUFFICES Good(d)
  OBVIOUS
<1>1. e \in AnyEvent /\ e.got \in Nat /\ e.sent \in Nat /\ e.fifo \in Seq(Nat)
  BY DEF Good, AnyEvent
<1>2. c \in Nat /\ (e.kind # "level" => c <= Len(e.fifo)) /\ (e.fifo = <<>> => c = 0)
  BY <1>1 DEF Supply
<1> HIDE DEF c
<1>3. CASE c = 0
  BY <1>3 DEF Delivered
<1>4. CASE c # 0 /\ e.kind = "timer"
  BY <1>4, NoEventGood DEF Delivered
<1>5. CASE c # 0 /\ e.kind = "level"
  <2>1. e.fifo = <<e.sent>>
    BY <1>2, <1>5 DEF Good, InOrder
  <2>2. d = [e EXCEPT !.got = e.fifo[1]]
    BY <1>5 DEF Delivered
  <2>3. d \in AnyEvent /\ d.kind = "level" /\ d.fifo = <<e.sent>> /\ d.sent = e.sent
    BY <1>1, <1>5, <2>1, <2>2 DEF AnyEvent
  <2> QED BY <2>3 DEF Good, InOrder
<1>6. CASE c # 0 /\ e.kind \notin {"timer", "level"}
  <2> DEFINE rest == SubSeq(e.fifo, c + 1, Len(e.fifo))
  <2>1. d = [e EXCEPT !.got = e.fifo[c], !.fifo = rest]
    BY <1>6 DEF Delivered
  <2>2. c \in 1..Len(e.fifo) /\ Len(e.fifo) \in Nat
    BY <1>1, <1>2, <1>6
  <2>3. /\ rest \in Seq(Nat) /\ e.fifo[c] \in Nat
        /\ rest = [i \in 1..(Len(e.fifo) - c) |-> e.fifo[c + i]]
    <3>1. rest \in Seq(Nat) /\ e.fifo[c] \in Nat
      BY <1>1, <2>2
    <3>2. rest = [i \in 1..(Len(e.fifo) - c) |-> e.fifo[c + i]]
      <4>1. rest = [i \in 1..(Len(e.fifo) - (c + 1) + 1) |-> e.fifo[c + 1 + i - 1]]
        BY <1>1, <2>2
      <4>2. /\ Len(e.fifo) - (c + 1) + 1 = Len(e.fifo) - c
            /\ \A i \in 1..(Len(e.fifo) - c) : c + 1 + i - 1 = c + i
        BY <2>2
      <4> QED BY <4>1, <4>2
    <3> QED BY <3>1, <3>2
  <2> HIDE DEF rest
  <2>4. /\ d \in AnyEvent /\ d.kind = e.kind /\ d.sent = e.sent
        /\ d.got = e.fifo[c] /\ d.fifo = rest
    BY <1>1, <2>1, <2>3 DEF AnyEvent
  <2>5. CASE e.kind = "queued"
    <3>1. e.got <= e.sent /\ e.fifo = [i \in 1..(e.sent - e.got) |-> e.got + i]
      BY <2>5 DEF Good, InOrder
    <3>2. Len(e.fifo) = e.sent - e.got
      BY <1>1, <3>1
    <3>3. e.fifo[c] = e.got + c
      BY <2>2, <3>1, <3>2
    <3>4. rest = [i \in 1..(e.sent - (e.got + c)) |-> e.got + c + i]
      <4>1. Len(e.fifo) - c = e.sent - (e.got + c)
        BY <1>1, <2>2, <3>2
      <4>2. ASSUME NEW i \in 1..(Len(e.fifo) - c)
            PROVE  e.fifo[c + i] = e.got + c + i
        <5>1. c + i \in 1..(e.sent - e.got)
          BY <1>1, <2>2, <3>2
        <5> QED BY <1>1, <2>2, <3>1, <5>1
      <4> QED BY <2>3, <4>1, <4>2
    <3> QED BY <1>1, <2>2, <2>4, <2>5, <3>2, <3>3, <3>4 DEF Good, InOrder
  <2>6. CASE e.kind = "edge"
    <3>1. e.fifo = <<e.sent>>
      BY <1>2, <1>6, <2>6 DEF Good, InOrder
    <3>2. c = 1
      BY <2>2, <3>1
    <3>3. rest = <<>>
      BY <1>1, <2>3, <3>1, <3>2
    <3> QED BY <2>4, <2>6, <3>1, <3>2, <3>3 DEF Good, InOrder
  <2>7. CASE e.kind \notin {"queued", "edge"}
    BY <1>6, <2>4, <2>7 DEF Good, InOrder
  <2> QED BY <2>5, <2>6, <2>7
<1> QED BY <1>3, <1>4, <1>5, <1>6

-----------------------------------------------------------------------------
LEMMA KeepFacts ==
  ASSUME order \in Seq(Keys),
         NEW S \in SUBSET ToSet(order), Keep(S)
  PROVE  order' \in Seq(Keys)
<1>1. S \subseteq Keys
  BY DEF ToSet
<1>2. IsFiniteSet(Keys)
  BY EventQueueAssumption
<1>3. Cardinality(S) \in Nat
  BY <1>1, <1>2, FS_Subset, FS_CardinalityType
<1> QED BY <1>1, <1>3 DEF Keep

LEMMA QueueStarts ==
  Init => QueueInv
BY NoEventGood DEF Init, QueueInv, NoCall

\* Only the events change, each in one of the ways above.
LEMMA EventChanges ==
  ASSUME QueueInv, order' \in Seq(Keys), UNCHANGED call,
         NEW k \in Keys, NEW e, Good(e), ev' = [ev EXCEPT ![k] = e]
  PROVE  QueueInv'
<1>1. DOMAIN ev' = Keys /\ \A l \in Keys : ev'[l] = IF l = k THEN e ELSE ev[l]
  BY DEF QueueInv
<1>2. \A l \in Keys : Good(ev'[l])
  BY <1>1 DEF QueueInv
<1> QED BY <1>1, <1>2 DEF QueueInv, Good, InOrder

LEMMA QueueUntouched ==
  ASSUME QueueInv, UNCHANGED <<order, ev, call>>
  PROVE  QueueInv'
BY DEF QueueInv

\* A look delivers a batch: each event in the list gives what Supply allows.
LEMMA LookKeeps ==
  ASSUME QueueInv, NEW t \in Threads,
         NEW c \in [num : Nat, limit : {"none", "zero", "time"}], Look(t, c)
  PROVE  QueueInv'
<1>1. call' \in [Threads -> [num : Nat, limit : {"none", "zero", "time"}]]
  <2>1. call' = call \/ call' = [call EXCEPT ![t] = NoCall] \/ call' = [call EXCEPT ![t] = c]
    BY DEF Look
  <2>2. NoCall \in [num : Nat, limit : {"none", "zero", "time"}]
    BY DEF NoCall
  <2> QED BY <2>1, <2>2 DEF QueueInv
<1>2. CASE UNCHANGED <<order, ev>>
  BY <1>1, <1>2 DEF QueueInv
<1>3. ASSUME NEW left \in [0..Len(order) -> 0..c.num], Batch(left, c.num),
             ev' = Taken(left),
             Keep({k \in ToSet(order) : Taken(left)[k].kind # "none"})
      PROVE  QueueInv'
  <2>1. order' \in Seq(Keys)
    BY <1>3, KeepFacts DEF QueueInv
  <2>2. DOMAIN ev' = Keys
    BY <1>3 DEF Taken
  <2>3. ASSUME NEW k \in Keys PROVE Good(ev'[k])
    <3>1. Good(ev[k])
      BY DEF QueueInv
    <3>2. CASE k \notin ToSet(order)
      BY <1>3, <3>1, <3>2 DEF Taken
    <3>3. CASE k \in ToSet(order)
      <4> DEFINE i == CHOOSE j \in 1..Len(order) : order[j] = k
      <4>1. i \in 1..Len(order) /\ order[i] = k
        <5>1. \E j \in 1..Len(order) : order[j] = k
          BY <3>3 DEF ToSet, QueueInv
        <5> QED BY <5>1
      <4>2. ev'[k] = Delivered(Fired(ev[k]), left[i - 1] - left[i])
        BY <1>3, <3>3 DEF Taken
      <4> HIDE DEF i
      <4>3. left[i - 1] \in Nat /\ left[i] \in Nat
        <5>1. i \in 0..Len(order) /\ i - 1 \in 0..Len(order) /\ c.num \in Nat
          BY <4>1 DEF QueueInv
        <5> QED BY <5>1
      <4>4. left[i] = left[i - 1] - Supply(Fired(ev[k]), left[i - 1])
        BY <1>3, <4>1 DEF Batch
      <4>5. Good(Fired(ev[k]))
        BY <3>1, FiredGood
      <4>6. Supply(Fired(ev[k]), left[i - 1]) \in Nat
        BY <4>3, <4>5 DEF Supply, Good, AnyEvent
      <4>7. left[i - 1] - left[i] = Supply(Fired(ev[k]), left[i - 1])
        BY <4>3, <4>4, <4>6
      <4> QED BY <4>2, <4>3, <4>5, <4>7, DeliveredGood
    <3> QED BY <3>2, <3>3
  <2> QED BY <1>1, <2>1, <2>2, <2>3 DEF QueueInv, Good, InOrder
<1> QED BY <1>2, <1>3 DEF Look, Refuse

LEMMA QueueSteps ==
  ASSUME QueueInv, Next
  PROVE  QueueInv'
<1>1. ASSUME NEW k \in Keys, Expire(k) PROVE QueueInv'
  <2> DEFINE e == [ev[k] EXCEPT !.deadline = "due"]
  <2>1. Good(ev[k])
    BY DEF QueueInv
  <2>2. Good(e)
    BY <2>1, DeadlineGood
  <2>3. ev' = [ev EXCEPT ![k] = e]
    BY <1>1 DEF Expire
  <2> HIDE DEF e
  <2> QED BY <1>1, <2>2, <2>3, EventChanges DEF Expire, QueueInv
<1>2. ASSUME NEW t \in Threads, Pin(t) PROVE QueueInv'
  BY <1>2, QueueUntouched DEF Pin
<1>3. ASSUME NEW t \in Threads, Create(t) PROVE QueueInv'
  BY <1>3, QueueUntouched DEF Create
<1>4. ASSUME NEW t \in Threads, Unregister(t) PROVE QueueInv'
  BY <1>4, QueueUntouched DEF Unregister
<1>5. ASSUME NEW t \in Threads, Close(t) PROVE QueueInv'
  <2>1. order' = <<>> /\ ev' = [k \in Keys |-> NoEvent] /\ call' = call
    BY <1>5 DEF Close
  <2>2. \A k \in Keys : Good(ev'[k])
    BY <2>1, NoEventGood
  <2>3. order' \in Seq(Keys) /\ DOMAIN ev' = Keys
    BY <2>1
  <2> QED BY <2>1, <2>2, <2>3 DEF QueueInv, Good, InOrder
<1>6. ASSUME NEW t \in Threads, NEW k \in Keys, NEW kind \in AllKinds,
             NEW on \in BOOLEAN, AddEvent(t, k, kind, on)
      PROVE  QueueInv'
  <2>1. CASE UNCHANGED <<order, ev>>
    BY <1>6, <2>1, QueueUntouched DEF AddEvent
  <2>2. CASE order' = Append(order, k) /\ ev' = [ev EXCEPT ![k] = NewEvent(kind, on)]
    <3>1. Good(NewEvent(kind, on))
      <4>1. CASE on = TRUE
        BY <1>6, <4>1, NewEventGood DEF AddEvent
      <4>2. CASE on = FALSE
        BY <4>2, NewEventGood
      <4> QED BY <4>1, <4>2
    <3>2. order' \in Seq(Keys) /\ call' = call
      BY <1>6, <2>2 DEF QueueInv, AddEvent
    <3> QED BY <2>2, <3>1, <3>2, EventChanges
  <2>3. CASE /\ ev' = [ev EXCEPT ![k].deadline = NewEvent(kind, on).deadline]
             /\ order' = order
    <3> DEFINE d == NewEvent(kind, on).deadline
               e == [ev[k] EXCEPT !.deadline = d]
    <3>1. d \in {"none", "armed", "due"}
      BY DEF NewEvent, NoEvent
    <3> HIDE DEF d
    <3>2. Good(ev[k])
      BY DEF QueueInv
    <3>3. Good(e)
      BY <3>1, <3>2, DeadlineGood
    <3>4. ev' = [ev EXCEPT ![k] = e]
      BY <2>3 DEF d
    <3> HIDE DEF e
    <3> QED BY <1>6, <2>3, <3>3, <3>4, EventChanges DEF QueueInv, AddEvent
  <2> QED BY <1>6, <2>1, <2>2, <2>3 DEF AddEvent, Refuse
<1>7. ASSUME NEW t \in Threads, NEW k \in Keys, TriggerEvent(t, k) PROVE QueueInv'
  <2>1. CASE UNCHANGED <<order, ev>>
    BY <1>7, <2>1, QueueUntouched DEF TriggerEvent
  <2>2. CASE ev' = [ev EXCEPT ![k] = Triggered(ev[k])] /\ order' = order
    <3>1. Good(Triggered(ev[k]))
      BY TriggeredGood DEF QueueInv
    <3>2. order' \in Seq(Keys) /\ call' = call
      BY <1>7, <2>2 DEF QueueInv, TriggerEvent
    <3> QED BY <2>2, <3>1, <3>2, EventChanges
  <2> QED BY <1>7, <2>1, <2>2 DEF TriggerEvent, Refuse
<1>8. ASSUME NEW t \in Threads, NEW k \in Keys, DeleteEvent(t, k) PROVE QueueInv'
  <2>1. CASE UNCHANGED <<order, ev>>
    BY <1>8, <2>1, QueueUntouched DEF DeleteEvent
  <2>2. CASE Keep(ToSet(order) \ {k}) /\ ev' = [ev EXCEPT ![k] = NoEvent]
    <3>1. order' \in Seq(Keys)
      BY <2>2, KeepFacts DEF QueueInv
    <3> QED BY <1>8, <2>2, <3>1, NoEventGood, EventChanges DEF DeleteEvent
  <2> QED BY <1>8, <2>1, <2>2 DEF DeleteEvent, Refuse
<1>9. ASSUME NEW t \in Threads, NEW n \in Nums, NEW limit \in {"none", "zero", "time"},
             WaitEqueue(t, n, limit)
      PROVE  QueueInv'
  BY <1>9, EventQueueAssumption, LookKeeps DEF WaitEqueue
<1>10. ASSUME NEW t \in Threads, LookAgain(t) PROVE QueueInv'
  BY <1>10, LookKeeps DEF LookAgain, QueueInv
<1>11. ASSUME NEW t \in Threads, Wake(t) PROVE QueueInv'
  BY <1>11, QueueUntouched DEF Wake
<1> QED
  BY <1>1, <1>2, <1>3, <1>4, <1>5, <1>6, <1>7, <1>8, <1>9, <1>10, <1>11 DEF Next

\* However many threads take batches of whatever size from a queue, and
\* whatever is added, triggered, deleted and closed in between, the triggers of
\* an event reach waiters once each and in order.
THEOREM TriggersArriveInOrder == Spec => []DeliveredInOrder
<1>1. QueueInv /\ [Next]_vars => QueueInv'
  <2>1. CASE Next
    BY <2>1, QueueSteps
  <2>2. CASE UNCHANGED vars
    BY <2>2, QueueUntouched DEF vars
  <2> QED BY <2>1, <2>2
<1>2. QueueInv => DeliveredInOrder
  BY DEF QueueInv, Good, InOrder, DeliveredInOrder
<1> QED BY <1>1, <1>2, QueueStarts, PTL DEF Spec
\* Every set of naturals with an element has a least one.
LEMMA LeastNat ==
  ASSUME NEW T, T \subseteq Nat, T # {}
  PROVE  \E x \in T : \A y \in T : x <= y
<1>1. PICK x \in T : \A y \in T : ~(<<y, x>> \in OpToRel(<, Nat))
  BY NatLessThanWellFounded, WFMin
<1>2. ASSUME NEW y \in T PROVE ~(y < x)
  <2>1. y < x => <<y, x>> \in OpToRel(<, Nat)
    BY DEF OpToRel
  <2> QED BY <1>1, <2>1
<1> QED BY <1>2

\* A function that never increases ends at or below each of its values.
LEMMA NonIncreasing ==
  ASSUME NEW n \in Nat, NEW f, \A i \in 0..n : f[i] \in Int,
         \A i \in 1..n : f[i] <= f[i - 1],
         NEW k \in 0..n
  PROVE  f[n] <= f[k]
<1> DEFINE T == {d \in Nat : k + d <= n /\ ~(f[k + d] <= f[k])}
<1>1. SUFFICES ASSUME T # {} PROVE FALSE
  <2>1. T = {} => n - k \notin T
    OBVIOUS
  <2>2. n - k \in Nat /\ k + (n - k) = n
    OBVIOUS
  <2> QED BY <2>1, <2>2
<1>2. PICK d \in T : \A e \in T : d <= e
  BY <1>1, LeastNat
<1>3. d # 0
  OBVIOUS
<1>4. d - 1 \in Nat /\ k + (d - 1) <= n /\ k + d \in 1..n /\ k + (d - 1) \in 0..n
  BY <1>3
<1>5. d - 1 \notin T
  BY <1>2, <1>4
<1>6. f[k + (d - 1)] <= f[k]
  BY <1>4, <1>5
<1>7. f[k + d] <= f[(k + d) - 1] /\ (k + d) - 1 = k + (d - 1)
  BY <1>4
<1>8. f[k + d] \in Int /\ f[k + (d - 1)] \in Int /\ f[k] \in Int
  BY <1>4
<1>9. f[k + d] <= f[k]
  BY <1>6, <1>7, <1>8
<1> QED BY <1>9

-----------------------------------------------------------------------------
(* Wakeups are enough: what is counted, and how a batch changes it.        *)

\* The triggers that wait when e gives the events.
Pending(e) == UNION {{k} \X DOMAIN e[k].fifo : k \in Keys}

LEMMA PendingPairs ==
  ASSUME NEW e, NEW p
  PROVE  p \in Pending(e) <=> \E k \in Keys : \E i \in DOMAIN e[k].fifo : p = <<k, i>>
BY DEF Pending

LEMMA PendingFinite ==
  ASSUME IsFiniteSet(Keys), NEW e, \A k \in Keys : e[k].fifo \in Seq(Nat)
  PROVE  IsFiniteSet(Pending(e)) /\ Cardinality(Pending(e)) \in Nat
<1> DEFINE f == [k \in Keys |-> {k} \X DOMAIN e[k].fifo]
           S == {f[k] : k \in Keys}
<1>1. IsFiniteSet(S)
  <2>1. f \in Surjection(Keys, S)
    BY DEF Surjection
  <2> QED BY <2>1, FS_Surjection
<1>2. ASSUME NEW k \in Keys PROVE IsFiniteSet(f[k])
  <2>1. DOMAIN e[k].fifo = 1..Len(e[k].fifo) /\ Len(e[k].fifo) \in Nat
    OBVIOUS
  <2>2. IsFiniteSet(1..Len(e[k].fifo))
    BY <2>1, FS_Interval
  <2> QED BY <2>1, <2>2, FS_Singleton, FS_Product
<1>3. IsFiniteSet(UNION S)
  BY <1>1, <1>2, FS_UNION
<1>4. Pending(e) = UNION S
  BY DEF Pending
<1> QED BY <1>3, <1>4, FS_CardinalityType

\* With no event's list longer, no more triggers wait; with one shorter, fewer.
LEMMA PendingShrinks ==
  ASSUME IsFiniteSet(Keys), NEW e, NEW f,
         \A k \in Keys : e[k].fifo \in Seq(Nat) /\ f[k].fifo \in Seq(Nat),
         \A k \in Keys : Len(f[k].fifo) <= Len(e[k].fifo)
  PROVE  /\ Cardinality(Pending(f)) <= Cardinality(Pending(e))
         /\ (\E k \in Keys : Len(f[k].fifo) < Len(e[k].fifo)) =>
              Cardinality(Pending(f)) <= Cardinality(Pending(e)) - 1
<1>1. IsFiniteSet(Pending(e)) /\ Cardinality(Pending(e)) \in Nat
  BY PendingFinite
<1>2. IsFiniteSet(Pending(f)) /\ Cardinality(Pending(f)) \in Nat
  BY PendingFinite
<1>3. Pending(f) \subseteq Pending(e)
  <2>1. ASSUME NEW k \in Keys, NEW i \in DOMAIN f[k].fifo PROVE i \in DOMAIN e[k].fifo
    OBVIOUS
  <2> QED BY <2>1, PendingPairs
<1>4. ASSUME NEW k \in Keys, Len(f[k].fifo) < Len(e[k].fifo)
      PROVE  Cardinality(Pending(f)) <= Cardinality(Pending(e)) - 1
  <2> DEFINE last == <<k, Len(e[k].fifo)>>
  <2>1. Len(e[k].fifo) \in DOMAIN e[k].fifo /\ Len(e[k].fifo) \notin DOMAIN f[k].fifo
    BY <1>4
  <2>2. last \in Pending(e) /\ last \notin Pending(f)
    BY <2>1, PendingPairs
  <2>3. Pending(f) \subseteq Pending(e) \ {last}
    BY <1>3, <2>2
  <2> HIDE DEF last
  <2>4. /\ IsFiniteSet(Pending(e) \ {last})
        /\ Cardinality(Pending(e) \ {last}) = Cardinality(Pending(e)) - 1
    BY <1>1, <2>2, FS_RemoveElement
  <2> QED BY <2>3, <2>4, FS_Subset
<1>5. Cardinality(Pending(f)) <= Cardinality(Pending(e))
  BY <1>1, <1>3, FS_Subset
<1> QED BY <1>4, <1>5

\* One event with one trigger more.
LEMMA PendingGrows ==
  ASSUME IsFiniteSet(Keys), NEW e, NEW f, NEW k \in Keys,
         \A l \in Keys : e[l].fifo \in Seq(Nat) /\ f[l].fifo \in Seq(Nat),
         \A l \in Keys : l # k => f[l].fifo = e[l].fifo,
         Len(f[k].fifo) <= Len(e[k].fifo) + 1
  PROVE  Cardinality(Pending(f)) <= Cardinality(Pending(e)) + 1
<1> DEFINE new == <<k, Len(e[k].fifo) + 1>>
<1>1. IsFiniteSet(Pending(e)) /\ Cardinality(Pending(e)) \in Nat
  BY PendingFinite
<1>2. Pending(f) \subseteq Pending(e) \union {new}
  <2>1. ASSUME NEW i \in DOMAIN f[k].fifo PROVE i \in DOMAIN e[k].fifo \/ i = Len(e[k].fifo) + 1
    <3>1. /\ DOMAIN f[k].fifo = 1..Len(f[k].fifo) /\ Len(f[k].fifo) \in Nat
          /\ DOMAIN e[k].fifo = 1..Len(e[k].fifo) /\ Len(e[k].fifo) \in Nat
      OBVIOUS
    <3> DEFINE m == Len(f[k].fifo)
               n == Len(e[k].fifo)
    <3>2. m \in Nat /\ n \in Nat /\ m <= n + 1 /\ i \in 1..m /\ DOMAIN e[k].fifo = 1..n
      BY <2>1, <3>1
    <3> HIDE DEF m, n
    <3>3. i \in 1..n \/ i = n + 1
      BY <3>2
    <3> QED BY <3>2, <3>3 DEF n
  <2> QED BY <2>1, PendingPairs
<1> HIDE DEF new
<1>3. /\ IsFiniteSet(Pending(e) \union {new})
      /\ Cardinality(Pending(e) \union {new}) \in Nat
      /\ Cardinality(Pending(e) \union {new}) <= Cardinality(Pending(e)) + 1
  <2>1. /\ IsFiniteSet(Pending(e) \union {new})
        /\ Cardinality(Pending(e) \union {new}) =
             IF new \in Pending(e) THEN Cardinality(Pending(e)) ELSE Cardinality(Pending(e)) + 1
    BY <1>1, FS_AddElement
  <2> QED BY <1>1, <2>1
<1>4. Cardinality(Pending(f)) <= Cardinality(Pending(e) \union {new}) /\ IsFiniteSet(Pending(f))
  BY <1>2, <1>3, FS_Subset
<1>5. Cardinality(Pending(f)) \in Nat
  BY <1>4, FS_CardinalityType
<1> QED BY <1>1, <1>3, <1>4, <1>5

LEMMA NothingPending ==
  ASSUME NEW e, \A k \in Keys : e[k].fifo = <<>>
  PROVE  Cardinality(Pending(e)) = 0
<1>1. Pending(e) = {}
  BY DEF Pending
<1> QED BY <1>1, FS_EmptySet

\* The list has each event once.
ListOK ==
  /\ \A i, j \in DOMAIN order : order[i] = order[j] => i = j
  /\ \A k \in Keys : k \in ToSet(order) <=> ev[k].kind # "none"

\* Nothing is left of an event that is gone, and no event in a closed queue.
GoneOK ==
  /\ \A k \in Keys : ev[k].kind = "none" => ev[k] = NoEvent
  /\ closed => \A k \in Keys : ev[k].kind = "none"

PlainOK ==
  plain => \A k \in Keys : ev[k].kind \in {"none", "edge", "queued"} /\ ev[k].deadline = "none"

\* A thread in a wait has an array that is not empty.
CallOK ==
  /\ pc \in [Threads -> {"run", "pinned", "asleep", "awake", "closing"}]
  /\ \A t \in Threads : pc[t] \in {"asleep", "awake"} => call[t].num >= 1

Covered ==
  plain /\ Asleep # {} => Cardinality(Pending(ev)) <= Cardinality(Awake)

LEMMA AwakeFinite ==
  /\ IsFiniteSet(Keys) /\ IsFiniteSet(Threads)
  /\ IsFiniteSet(Awake) /\ Cardinality(Awake) \in Nat
<1>1. IsFiniteSet(Keys) /\ IsFiniteSet(Threads)
  BY EventQueueAssumption
<1>2. Awake \subseteq Threads
  BY DEF Awake
<1> QED BY <1>1, <1>2, FS_Subset, FS_CardinalityType

LEMMA PendingNat ==
  ASSUME QueueInv
  PROVE  /\ \A k \in Keys : ev[k].fifo \in Seq(Nat)
         /\ Cardinality(Pending(ev)) \in Nat
<1>1. \A k \in Keys : ev[k].fifo \in Seq(Nat)
  BY DEF QueueInv, Good, AnyEvent
<1> QED BY <1>1, AwakeFinite, PendingFinite

\* Whoever adds at most one trigger and notifies leaves it covered.
LEMMA NotifyCovers ==
  ASSUME CallOK, Covered, plain, NEW t \in Threads,
         pc[t] = "pinned", NotifyOne(t), Asleep' # {},
         Cardinality(Pending(ev)) \in Nat, NEW n \in Nat, n <= Cardinality(Pending(ev)) + 1
  PROVE  n <= Cardinality(Awake')
<1>1. Asleep # {}
  <2>1. Asleep = {} => pc' = [pc EXCEPT ![t] = "run"]
    BY DEF NotifyOne, Goto
  <2>2. pc' = [pc EXCEPT ![t] = "run"] => Asleep' \subseteq Asleep
    BY DEF Asleep, CallOK
  <2> QED BY <2>1, <2>2
<1>2. PICK u \in Asleep : pc' = [pc EXCEPT ![t] = "run", ![u] = "awake"]
  BY <1>1 DEF NotifyOne
<1>3. u \in Threads /\ pc[u] = "asleep" /\ u # t
  BY DEF Asleep
<1>4. Awake' = Awake \union {u} /\ u \notin Awake
  BY <1>2, <1>3 DEF Awake, CallOK
<1>5. Cardinality(Awake') = Cardinality(Awake) + 1 /\ Cardinality(Awake) \in Nat
  BY <1>4, AwakeFinite, FS_AddElement
<1>6. Cardinality(Pending(ev)) <= Cardinality(Awake)
  BY <1>1 DEF Covered
<1> QED BY <1>5, <1>6

\* Whoever was neither asleep nor awake and goes elsewhere changes nothing.
LEMMA AsideCovers ==
  ASSUME CallOK, Covered, plain, NEW t \in Threads,
         pc[t] \notin {"asleep", "awake"}, NEW w \in {"run", "pinned", "closing"},
         pc' = [pc EXCEPT ![t] = w], Asleep' # {},
         Cardinality(Pending(ev)) \in Nat, NEW n \in Nat, n <= Cardinality(Pending(ev))
  PROVE  n <= Cardinality(Awake')
<1>1. Awake' = Awake /\ Asleep' = Asleep
  BY DEF Awake, Asleep, CallOK
<1>2. Cardinality(Pending(ev)) <= Cardinality(Awake) /\ Cardinality(Awake) \in Nat
  BY <1>1, AwakeFinite DEF Covered
<1> QED BY <1>1, <1>2

\* Keep leaves the entries it is given, each where it was relative to the rest.
LEMMA KeepExact ==
  ASSUME order \in Seq(Keys), ListOK,
         NEW S \in SUBSET ToSet(order), Keep(S)
  PROVE  /\ \A i, j \in DOMAIN order' : order'[i] = order'[j] => i = j
         /\ ToSet(order') = S
<1> DEFINE n == Cardinality(S)
<1>1. IsFiniteSet(S)
  <2>1. S \subseteq Keys
    BY DEF ToSet
  <2> QED BY <2>1, AwakeFinite, FS_Subset
<1>2. order' \in [1..n -> S]
  BY DEF Keep
<1>3. n \in Nat
  BY <1>1, FS_CardinalityType
<1> HIDE DEF n
<1>4. ASSUME NEW i \in 1..n, NEW j \in 1..n, i < j PROVE order'[i] # order'[j]
  <2>3. Before(order'[i], order'[j])
    BY <1>2, <1>4 DEF Keep
  <2>1. PICK a, b \in DOMAIN order : a < b /\ order[a] = order'[i] /\ order[b] = order'[j]
    BY <2>3 DEF Before
  <2>2. a # b
    BY <2>1
  <2> QED BY <2>1, <2>2 DEF ListOK
<1>5. \A i, j \in 1..n : order'[i] = order'[j] => i = j
  BY <1>3, <1>4
<1>6. order' \in Injection(1..n, S)
  BY <1>2, <1>5 DEF Injection, IsInjective
<1>7. Cardinality(1..n) = n
  BY <1>3, FS_Interval
<1>8. order' \in Surjection(1..n, S)
  BY <1>1, <1>6, <1>7, FS_Injection DEF n
<1> QED BY <1>2, <1>5, <1>8 DEF Surjection, ToSet

\* What a batch does to one event of a plain queue when room entries are left.
LEMMA PlainTake ==
  ASSUME NEW e \in AnyEvent, e.kind \in {"edge", "queued"}, e.deadline = "none",
         NEW room \in Nat, NEW c, c = Supply(Fired(e), room),
         NEW d, d = Delivered(Fired(e), c)
  PROVE  /\ d.fifo \in Seq(Nat) /\ d.kind = e.kind /\ d.deadline = "none"
         /\ c \in Nat /\ c <= room /\ Len(d.fifo) <= Len(e.fifo)
         /\ c > 0 => Len(d.fifo) < Len(e.fifo)
         /\ c = 0 /\ room >= 1 => d.fifo = <<>>
<1> DEFINE n == Len(e.fifo)
<1>1. e.fifo \in Seq(Nat) /\ n \in Nat
  BY DEF AnyEvent
<1>2. Fired(e) = e
  BY DEF Fired
<1>3. Supply(e, room) = IF n < room THEN n ELSE room
  BY DEF Supply
<1> HIDE DEF n
<1>4. c \in Nat /\ c <= n /\ c <= room /\ (c = 0 /\ room >= 1 => n = 0)
  BY <1>1, <1>2, <1>3
<1>5. d = Delivered(e, c)
  BY <1>2
<1>6. CASE c = 0
  <2>1. d = e
    BY <1>5, <1>6 DEF Delivered
  <2>2. n = 0 => d.fifo = <<>>
    BY <1>1, <2>1 DEF n
  <2> QED BY <1>1, <1>4, <1>6, <2>1, <2>2 DEF n
<1>7. CASE c # 0
  <2> DEFINE rest == SubSeq(e.fifo, c + 1, n)
  <2>1. d = [e EXCEPT !.got = e.fifo[c], !.fifo = rest]
    BY <1>5, <1>7 DEF Delivered, n
  <2>2. rest \in Seq(Nat) /\ Len(rest) = n - c
    <3>1. c + 1 \in 1..(n + 1) /\ n = Len(e.fifo)
      BY <1>1, <1>4, <1>7 DEF n
    <3>2. Len(rest) = IF c + 1 <= n THEN n - (c + 1) + 1 ELSE 0
      BY <1>1, <3>1
    <3>3. rest \in Seq(Nat)
      BY <1>1, <3>1
    <3> HIDE DEF rest
    <3> QED BY <1>1, <1>4, <3>2, <3>3
  <2> HIDE DEF rest
  <2>3. d.fifo = rest /\ d.kind = e.kind /\ d.deadline = "none"
    BY <2>1 DEF AnyEvent
  <2>4. n # 0 /\ n - c < n
    BY <1>1, <1>4, <1>7
  <2> QED BY <1>1, <1>4, <2>2, <2>3, <2>4 DEF n
<1> QED BY <1>6, <1>7

\* A batch of a plain queue: nothing is added to any event's list, and unless
\* the array stays empty something is taken.
LEMMA PlainBatch ==
  ASSUME QueueInv, ListOK, GoneOK, PlainOK, plain,
         NEW num \in Nat, num >= 1, NEW left \in [0..Len(order) -> 0..num],
         Batch(left, num), ev' = Taken(left)
  PROVE  /\ \A k \in Keys : Len(ev'[k].fifo) <= Len(ev[k].fifo)
         /\ \A k \in Keys : ev'[k].kind = ev[k].kind /\ ev'[k].deadline = "none"
         /\ left[Len(order)] < num => \E k \in Keys : Len(ev'[k].fifo) < Len(ev[k].fifo)
         /\ left[Len(order)] = num => \A k \in Keys : ev'[k].fifo = <<>>
<1> DEFINE n == Len(order)
<1>1. n \in Nat /\ DOMAIN order = 1..n
  BY DEF QueueInv
<1>2. \A i \in 0..n : left[i] \in Nat /\ left[i] \in Int /\ left[i] <= num
  OBVIOUS
<1>3. left[0] = num
  BY DEF Batch
<1> HIDE DEF n
<1>4. ASSUME NEW i \in 1..n
      PROVE  /\ i - 1 \in 0..n /\ order[i] \in Keys /\ Len(ev[order[i]].fifo) \in Nat
             /\ ev'[order[i]].fifo \in Seq(Nat) /\ ev'[order[i]].kind = ev[order[i]].kind
             /\ ev'[order[i]].deadline = "none"
             /\ left[i] <= left[i - 1]
             /\ Len(ev'[order[i]].fifo) <= Len(ev[order[i]].fifo)
             /\ left[i] < left[i - 1] => Len(ev'[order[i]].fifo) < Len(ev[order[i]].fifo)
             /\ left[i] = left[i - 1] /\ left[i - 1] >= 1 => ev'[order[i]].fifo = <<>>
  <2> DEFINE e == ev[order[i]]
             d == ev'[order[i]]
  <2>1. order[i] \in Keys /\ order[i] \in ToSet(order)
    BY <1>1 DEF QueueInv, ToSet
  <2>2. /\ e \in AnyEvent /\ e.kind \in {"edge", "queued"} /\ e.deadline = "none"
        /\ Len(e.fifo) \in Nat
    BY <2>1 DEF QueueInv, Good, AnyEvent, PlainOK, ListOK
  <2>3. i - 1 \in 0..n /\ left[i - 1] \in Nat /\ i \in 0..n /\ left[i] \in Nat
    BY <1>1, <1>2
  <2>4. left[i] = left[i - 1] - Supply(Fired(e), left[i - 1])
    BY <1>1 DEF Batch, n
  <2>5. (CHOOSE j \in 1..n : order[j] = order[i]) = i
    BY <1>1 DEF ListOK
  <2>6. d = Delivered(Fired(e), left[i - 1] - left[i])
    BY <2>1, <2>5 DEF Taken, n
  <2> DEFINE room == left[i - 1]
             c    == Supply(Fired(e), room)
             next == Delivered(Fired(e), c)
  <2> HIDE DEF e, d
  <2>7. /\ next.fifo \in Seq(Nat) /\ next.kind = e.kind /\ next.deadline = "none"
        /\ c \in Nat /\ c <= room /\ Len(next.fifo) <= Len(e.fifo)
        /\ c > 0 => Len(next.fifo) < Len(e.fifo)
        /\ c = 0 /\ room >= 1 => next.fifo = <<>>
    <3>1. \A r, x, y : (r \in Nat /\ x = Supply(Fired(e), r) /\ y = Delivered(Fired(e), x)) =>
             /\ y.fifo \in Seq(Nat) /\ y.kind = e.kind /\ y.deadline = "none"
             /\ x \in Nat /\ x <= r /\ Len(y.fifo) <= Len(e.fifo)
             /\ x > 0 => Len(y.fifo) < Len(e.fifo)
             /\ x = 0 /\ r >= 1 => y.fifo = <<>>
      BY <2>2, PlainTake
    <3>2. room \in Nat
      BY <2>3
    <3> HIDE DEF room
    <3> QED BY <3>1, <3>2
  <2> HIDE DEF c, room
  <2>8. left[i] = room - c /\ room - left[i] = c /\ room \in Nat
    BY <2>3, <2>4, <2>7 DEF c, room
  <2>9. d = next
    BY <2>6, <2>8 DEF room
  <2> HIDE DEF next
  <2>10. /\ d.fifo \in Seq(Nat) /\ d.kind = e.kind /\ d.deadline = "none"
         /\ left[i] <= room /\ Len(d.fifo) <= Len(e.fifo)
         /\ left[i] < room => Len(d.fifo) < Len(e.fifo)
         /\ left[i] = room /\ room >= 1 => d.fifo = <<>>
    BY <2>3, <2>7, <2>8, <2>9
  <2> QED BY <2>1, <2>2, <2>3, <2>10 DEF e, d, room
<1>5. ASSUME NEW k \in Keys, \A i \in 1..n : order[i] # k
      PROVE  ev'[k] = ev[k] /\ ev[k] = NoEvent
  <2>1. k \notin ToSet(order)
    BY <1>1, <1>5 DEF ToSet
  <2> QED BY <2>1 DEF Taken, ListOK, GoneOK
<1>6. NoEvent.fifo = <<>> /\ NoEvent.deadline = "none" /\ Len(<<>>) = 0
  BY DEF NoEvent
<1>7. ASSUME NEW k \in Keys
      PROVE  /\ ev'[k].fifo \in Seq(Nat) /\ Len(ev'[k].fifo) <= Len(ev[k].fifo)
             /\ ev'[k].kind = ev[k].kind /\ ev'[k].deadline = "none"
  <2>1. CASE \A i \in 1..n : order[i] # k
    BY <1>5, <1>6, <2>1
  <2>2. CASE \E i \in 1..n : order[i] = k
    BY <1>4, <2>2
  <2> QED BY <2>1, <2>2
<1>8. \A i \in 0..n : left[i] <= num /\ left[n] <= left[i]
  <2>1. n \in 0..n /\ \A i \in 0..n : left[i] \in Int
    BY <1>1, <1>2
  <2>2. \A i \in 1..n : left[i] <= left[i - 1]
    BY <1>4
  <2>3. \A i \in 0..n : i <= n
    BY <1>1
  <2>4. \A i \in 0..n : left[n] <= left[i]
    BY <1>1, <2>1, <2>2, <2>3, NonIncreasing
  <2> QED BY <1>2, <2>4
<1>9. ASSUME left[n] < num PROVE \E k \in Keys : Len(ev'[k].fifo) < Len(ev[k].fifo)
  <2>1. PICK i \in 1..n : left[i] # left[i - 1]
    <3> SUFFICES ASSUME \A i \in 1..n : left[i] = left[i - 1] PROVE FALSE
      OBVIOUS
    <3> DEFINE f == [i \in 0..n |-> 0 - left[i]]
    <3>1. \A i \in 0..n : f[i] \in Int
      BY <1>2
    <3>2. \A i \in 1..n : f[i] <= f[i - 1]
      BY <1>1, <1>2, <1>4
    <3>3. 0 \in 0..n /\ n \in 0..n /\ 0 <= n
      BY <1>1
    <3>4. f[n] = 0 - left[n] /\ f[0] = 0 - left[0] /\ left[n] \in Nat /\ left[0] \in Nat
      BY <1>2, <3>3
    <3> HIDE DEF f
    <3>5. f[n] <= f[0]
      BY <1>1, <3>1, <3>2, <3>3, NonIncreasing
    <3> QED BY <1>3, <1>9, <3>4, <3>5
  <2>2. i \in 0..n /\ left[i] \in Nat /\ left[i - 1] \in Nat
    BY <1>1, <1>2, <1>4
  <2>3. left[i] < left[i - 1]
    BY <1>4, <2>1, <2>2
  <2> QED BY <1>4, <2>3
<1>10. ASSUME left[n] = num, NEW k \in Keys PROVE ev'[k].fifo = <<>>
  <2>1. CASE \A i \in 1..n : order[i] # k
    BY <1>5, <1>6, <2>1
  <2>2. ASSUME NEW i \in 1..n, order[i] = k PROVE ev'[k].fifo = <<>>
    <3>1. i \in 0..n /\ i - 1 \in 0..n
      BY <1>1, <1>4
    <3>2. left[i] \in Nat /\ left[i - 1] \in Nat
      BY <1>2, <3>1
    <3>3. left[i] = num /\ left[i - 1] = num
      BY <1>8, <1>10, <3>1, <3>2
    <3> QED BY <1>4, <2>2, <3>3
  <2> QED BY <2>1, <2>2
<1> QED BY <1>7, <1>9, <1>10 DEF n

-----------------------------------------------------------------------------
(* Wakeups are enough: the steps.                                          *)

LEMMA KindKept ==
  ASSUME NEW e \in AnyEvent, e.kind # "none"
  PROVE  /\ Triggered(e).kind = e.kind /\ Triggered(e).deadline = e.deadline
         /\ Fired(e) \in AnyEvent /\ Fired(e).kind = e.kind
         /\ \A c : LET d == Delivered(Fired(e), c)
                   IN  d.kind = "none" => d = NoEvent
<1>1. ASSUME NEW f \in AnyEvent, f.kind # "none"
      PROVE  /\ Triggered(f).kind = f.kind /\ Triggered(f).deadline = f.deadline
  BY <1>1 DEF Triggered, AnyEvent
<1>2. Fired(e) \in AnyEvent /\ Fired(e).kind = e.kind
  <2>1. Triggered(e) \in AnyEvent
    <3> DEFINE s == IF e.kind = "queued" THEN Append(e.fifo, e.sent + 1) ELSE <<e.sent + 1>>
    <3>1. e.fifo \in Seq(Nat) /\ e.sent + 1 \in Nat
      BY DEF AnyEvent
    <3>2. s \in Seq(Nat)
      BY <3>1
    <3>3. Triggered(e) = [e EXCEPT !.sent = e.sent + 1, !.fifo = s]
      BY DEF Triggered
    <3> HIDE DEF s
    <3> QED BY <3>1, <3>2, <3>3 DEF AnyEvent
  <2> QED BY <1>1, <2>1 DEF Fired
<1>3. ASSUME NEW c, NEW f \in AnyEvent, f.kind # "none", Delivered(f, c).kind = "none"
      PROVE  Delivered(f, c) = NoEvent
  <2>1. CASE c = 0
    BY <1>3, <2>1 DEF Delivered
  <2>2. CASE c # 0 /\ f.kind = "timer"
    BY <2>2 DEF Delivered
  <2>3. CASE c # 0 /\ f.kind = "level"
    <3>1. Delivered(f, c) = [f EXCEPT !.got = f.fifo[1]]
      BY <2>3 DEF Delivered
    <3> QED BY <1>3, <3>1 DEF AnyEvent
  <2>4. CASE c # 0 /\ f.kind \notin {"timer", "level"}
    <3> DEFINE rest == SubSeq(f.fifo, c + 1, Len(f.fifo))
    <3>1. Delivered(f, c) = [f EXCEPT !.got = f.fifo[c], !.fifo = rest]
      BY <2>4 DEF Delivered
    <3> HIDE DEF rest
    <3> QED BY <1>3, <3>1 DEF AnyEvent
  <2> QED BY <2>1, <2>2, <2>3, <2>4
<1> QED BY <1>1, <1>2, <1>3

Shape == ListOK /\ GoneOK /\ PlainOK /\ CallOK

LEMMA NoEventFields ==
  /\ NoEvent.kind = "none" /\ NoEvent.deadline = "none"
  /\ NoEvent.fifo = <<>> /\ NoEvent.sent = 0 /\ NoEvent.got = 0
BY DEF NoEvent

\* A step that leaves the events alone, and puts nobody into a wait.
LEMMA ShapeUntouched ==
  ASSUME Shape, UNCHANGED <<order, ev, closed>>, plain' => plain,
         pc' \in [Threads -> {"run", "pinned", "asleep", "awake", "closing"}],
         \A t \in Threads : pc'[t] \in {"asleep", "awake"} =>
           pc[t] \in {"asleep", "awake"} /\ call'[t] = call[t]
  PROVE  Shape'
<1>1. ListOK'
  BY DEF Shape, ListOK, ToSet
<1>2. GoneOK'
  BY DEF Shape, GoneOK
<1>3. PlainOK'
  BY DEF Shape, PlainOK
<1>4. CallOK'
  BY DEF Shape, CallOK
<1> QED BY <1>1, <1>2, <1>3, <1>4 DEF Shape

\* A step that gives the event of k another state, of the same kind.
LEMMA ShapeOfKind ==
  ASSUME Shape, QueueInv, UNCHANGED <<order, closed, call>>, NEW k \in Keys, NEW e,
         ev' = [ev EXCEPT ![k] = e], ev[k].kind # "none", e.kind = ev[k].kind,
         plain' => plain /\ e.deadline = "none",
         CallOK'
  PROVE  Shape'
<1>1. DOMAIN ev = Keys
  BY DEF QueueInv
<1>2. \A l \in Keys : ev'[l].kind = ev[l].kind
  BY <1>1
<1>3. ListOK'
  BY <1>2 DEF Shape, ListOK, ToSet
<1>4. GoneOK'
  BY <1>1, <1>2 DEF Shape, GoneOK
<1>5. PlainOK'
  BY <1>1 DEF Shape, PlainOK
<1> QED BY <1>3, <1>4, <1>5 DEF Shape

\* NotifyOne sends its caller on and may wake somebody; both have the call they had.
LEMMA NotifyCallOK ==
  ASSUME CallOK, NEW t \in Threads, NotifyOne(t), call' = call
  PROVE  CallOK'
<1>1. CASE pc' = [pc EXCEPT ![t] = "run"]
  BY <1>1 DEF CallOK
<1>2. ASSUME NEW u \in Asleep, pc' = [pc EXCEPT ![t] = "run", ![u] = "awake"]
      PROVE  CallOK'
  BY <1>2 DEF CallOK, Asleep
<1> QED BY <1>1, <1>2 DEF NotifyOne, Goto

LEMMA ShapeStarts ==
  ASSUME Init
  PROVE  Shape /\ Covered
<1>1. ListOK
  BY NoEventFields DEF ListOK, Init, ToSet
<1>2. GoneOK
  BY NoEventFields DEF GoneOK, Init
<1>3. PlainOK
  BY NoEventFields DEF PlainOK, Init
<1>4. CallOK
  BY DEF CallOK, Init
<1>5. Covered
  BY DEF Covered, Init, Asleep
<1> QED BY <1>1, <1>2, <1>3, <1>4, <1>5 DEF Shape

LEMMA AddShape ==
  ASSUME QueueInv, Shape, NEW t \in Threads, NEW k \in Keys,
         NEW kind \in AllKinds, NEW on \in BOOLEAN, AddEvent(t, k, kind, on)
  PROVE  Shape'
<1> DEFINE d   == NewEvent(kind, on).deadline
           new == NewEvent(kind, on)
<1>1. /\ kind # "none" /\ new.kind = kind /\ d = IF kind = "timer" THEN "armed" ELSE "none"
  BY DEF NewEvent, NoEvent, AllKinds
<1>2. closed' = closed /\ call' = call /\ pc[t] = "pinned"
  BY DEF AddEvent
<1>3. plain' => plain /\ (closed \/ (d = "none" /\ kind \in {"edge", "queued"}))
  <2>1. plain' = (plain /\ (closed \/ kind \in {"edge", "queued"}))
    BY DEF AddEvent
  <2> HIDE DEF d, new
  <2> QED BY <1>1, <2>1
<1>4. CASE closed /\ Refuse(t, "EBADF")
  <2>1. pc' = [pc EXCEPT ![t] = "run"] /\ UNCHANGED <<order, ev>>
    BY <1>4 DEF Refuse, Goto
  <2> QED BY <1>2, <1>3, <2>1, ShapeUntouched DEF Shape, CallOK
<1>5. CASE /\ ~closed /\ ~Exists(k) /\ order' = Append(order, k)
           /\ ev' = [ev EXCEPT ![k] = new] /\ NotifyOne(t)
  <2> HIDE DEF new, d
  <2>1. DOMAIN ev = Keys /\ order \in Seq(Keys)
    BY DEF QueueInv
  <2>2. k \notin ToSet(order)
    BY <1>5 DEF Shape, ListOK, Exists
  <2>3. CallOK'
    BY <1>2, <1>5, NotifyCallOK DEF Shape
  <2>4. \A l \in Keys : ev'[l] = IF l = k THEN new ELSE ev[l]
    BY <1>5, <2>1
  <2>5. ListOK'
    <3> DEFINE n == Len(order)
    <3>1. /\ n \in Nat /\ DOMAIN order = 1..n /\ DOMAIN order' = 1..(n + 1)
          /\ order'[n + 1] = k /\ \A i \in 1..n : order'[i] = order[i]
      BY <1>5, <2>1
    <3>2. \A i \in 1..n : order[i] # k
      BY <2>2, <3>1 DEF ToSet
    <3> HIDE DEF n
    <3>3. \A i \in 1..(n + 1) : i \in 1..n \/ i = n + 1
      BY <3>1
    <3>4. \A i, j \in 1..n : order[i] = order[j] => i = j
      BY <3>1 DEF Shape, ListOK
    <3>5. \A i, j \in DOMAIN order' : order'[i] = order'[j] => i = j
      BY <3>1, <3>2, <3>3, <3>4
    <3>6. ToSet(order') = ToSet(order) \union {k}
      <4>1. n + 1 \in 1..(n + 1) /\ 1..n \subseteq 1..(n + 1)
        BY <3>1
      <4> QED BY <3>1, <3>3, <4>1 DEF ToSet
    <3>7. \A l \in Keys : l \in ToSet(order') <=> ev'[l].kind # "none"
      BY <1>1, <2>4, <3>6 DEF Shape, ListOK, new
    <3> QED BY <3>5, <3>7 DEF ListOK
  <2>6. GoneOK'
    BY <1>1, <1>2, <1>5, <2>4 DEF Shape, GoneOK, new
  <2>7. PlainOK'
    BY <1>1, <1>3, <1>5, <2>4 DEF Shape, PlainOK, new, d
  <2> QED BY <2>3, <2>5, <2>6, <2>7 DEF Shape
<1>6. CASE /\ ~closed /\ Exists(k) /\ order' = order
           /\ ev' = [ev EXCEPT ![k].deadline = d] /\ NotifyOne(t)
  <2> HIDE DEF d
  <2> DEFINE e == [ev[k] EXCEPT !.deadline = d]
  <2>1. ev[k] \in AnyEvent /\ ev[k].kind # "none"
    BY <1>6 DEF QueueInv, Good, Exists
  <2>2. e.kind = ev[k].kind /\ e.deadline = d
    BY <2>1 DEF AnyEvent
  <2>3. ev' = [ev EXCEPT ![k] = e]
    BY <1>6
  <2>4. CallOK'
    BY <1>2, <1>6, NotifyCallOK DEF Shape
  <2> HIDE DEF e
  <2> QED BY <1>2, <1>3, <1>6, <2>1, <2>2, <2>3, <2>4, ShapeOfKind
<1> QED BY <1>4, <1>5, <1>6 DEF AddEvent

\* The calls after a look: the one of t goes on only as c.
LEMMA LookCallOK ==
  ASSUME QueueInv, CallOK, NEW t \in Threads, NEW c, c.num >= 1,
         \/ pc' = [pc EXCEPT ![t] = "run"] /\ call' = [call EXCEPT ![t] = NoCall]
         \/ pc' = [pc EXCEPT ![t] = "asleep"] /\ call' = [call EXCEPT ![t] = c]
  PROVE  CallOK'
<1>1. DOMAIN call = Threads
  BY DEF QueueInv
<1> QED BY <1>1 DEF CallOK

LEMMA LookShape ==
  ASSUME QueueInv, Shape, NEW t \in Threads, NEW c,
         c.num \in Nat, c.num >= 1, Look(t, c), closed' = closed, plain' = plain
  PROVE  Shape'
<1>1. DOMAIN ev = Keys /\ order \in Seq(Keys) /\ \A k \in Keys : ev[k] \in AnyEvent
  BY DEF QueueInv, Good
<1>2. CallOK'
  <2>1. \/ pc' = [pc EXCEPT ![t] = "run"] /\ call' = [call EXCEPT ![t] = NoCall]
        \/ pc' = [pc EXCEPT ![t] = "asleep"] /\ call' = [call EXCEPT ![t] = c]
    BY DEF Look, Refuse, Goto
  <2> QED BY <2>1, LookCallOK DEF Shape
<1>3. CASE UNCHANGED <<order, ev>>
  <2>1. ListOK' /\ GoneOK' /\ PlainOK'
    BY <1>3 DEF Shape, ListOK, GoneOK, PlainOK, ToSet
  <2> QED BY <1>2, <2>1 DEF Shape
<1>4. ASSUME ~closed, NEW left \in [0..Len(order) -> 0..c.num], Batch(left, c.num),
             ev' = Taken(left),
             Keep({k \in ToSet(order) : Taken(left)[k].kind # "none"})
      PROVE  Shape'
  <2> DEFINE S == {k \in ToSet(order) : Taken(left)[k].kind # "none"}
  <2>1. /\ \A i, j \in DOMAIN order' : order'[i] = order'[j] => i = j
        /\ ToSet(order') = S
    BY <1>1, <1>4, KeepExact DEF Shape
  <2>2. S = {k \in ToSet(order) : ev'[k].kind # "none"}
    BY <1>4
  <2> HIDE DEF S
  <2>3. ASSUME NEW k \in Keys, k \notin ToSet(order)
        PROVE  ev'[k] = ev[k] /\ ev[k].kind = "none"
    BY <1>4, <2>3 DEF Taken, Shape, ListOK
  <2>4. ASSUME NEW k \in Keys, ev'[k].kind = "none" PROVE ev'[k] = NoEvent
    <3>1. CASE k \notin ToSet(order)
      BY <2>3, <3>1 DEF Shape, GoneOK
    <3>2. CASE k \in ToSet(order)
      <4>1. ev[k].kind # "none" /\ ev[k] \in AnyEvent
        BY <1>1, <3>2 DEF Shape, ListOK
      <4>2. PICK i : ev'[k] = Delivered(Fired(ev[k]), left[i - 1] - left[i])
        BY <1>4, <3>2 DEF Taken
      <4> QED BY <2>4, <4>1, <4>2, KindKept
    <3> QED BY <3>1, <3>2
  <2>5. ListOK'
    BY <2>1, <2>2, <2>3 DEF ListOK
  <2>6. GoneOK'
    BY <1>4, <2>4 DEF GoneOK
  <2>7. PlainOK'
    <3> SUFFICES ASSUME plain' PROVE \A k \in Keys : /\ ev'[k].kind \in {"none", "edge", "queued"}
                                                     /\ ev'[k].deadline = "none"
      BY DEF PlainOK
    <3>1. \A k \in Keys : ev'[k].kind = ev[k].kind /\ ev'[k].deadline = "none"
      BY <1>4, PlainBatch DEF Shape
    <3> QED BY <3>1 DEF Shape, PlainOK
  <2> QED BY <1>2, <2>5, <2>6, <2>7 DEF Shape
<1> QED BY <1>3, <1>4 DEF Look, Refuse

LEMMA ShapeSteps ==
  ASSUME QueueInv, Shape, Next
  PROVE  Shape'
<1> USE DEF Goto
<1>1. ASSUME NEW k \in Keys, Expire(k) PROVE Shape'
  <2> DEFINE e == [ev[k] EXCEPT !.deadline = "due"]
  <2>1. ev[k] \in AnyEvent /\ ev[k].deadline = "armed"
    BY <1>1 DEF QueueInv, Good, Expire
  <2>2. ev[k].kind # "none"
    BY <2>1, NoEventFields DEF Shape, GoneOK
  <2>3. e.kind = ev[k].kind
    BY <2>1 DEF AnyEvent
  <2>4. ev' = [ev EXCEPT ![k] = e] /\ UNCHANGED <<order, closed, call, pc, plain>>
    BY <1>1 DEF Expire
  <2>5. ~plain
    BY <2>1 DEF Shape, PlainOK
  <2>6. CallOK'
    BY <2>4 DEF Shape, CallOK
  <2> HIDE DEF e
  <2> QED BY <2>2, <2>3, <2>4, <2>5, <2>6, ShapeOfKind
<1>2. ASSUME NEW t \in Threads, Pin(t) PROVE Shape'
  BY <1>2, ShapeUntouched DEF Pin, Shape, CallOK
<1>3. ASSUME NEW t \in Threads, Create(t) PROVE Shape'
  <2>1. /\ closed /\ closed' = FALSE /\ plain' = TRUE /\ UNCHANGED <<order, ev, pc, call>>
    BY <1>3 DEF Create
  <2>2. \A k \in Keys : ev[k].kind = "none" /\ ev[k] = NoEvent
    BY <2>1 DEF Shape, GoneOK
  <2>3. ListOK' /\ CallOK'
    BY <2>1 DEF Shape, ListOK, CallOK, ToSet
  <2>4. GoneOK' /\ PlainOK'
    BY <2>1, <2>2, NoEventFields DEF GoneOK, PlainOK
  <2> QED BY <2>3, <2>4 DEF Shape
<1>4. ASSUME NEW t \in Threads, Unregister(t) PROVE Shape'
  BY <1>4, ShapeUntouched DEF Unregister, Shape, CallOK
<1>5. ASSUME NEW t \in Threads, Close(t) PROVE Shape'
  <2>1. order' = <<>> /\ ev' = [k \in Keys |-> NoEvent] /\ call' = call
    BY <1>5 DEF Close
  <2>2. pc' = [u \in Threads |-> IF u = t THEN "run"
                                 ELSE IF u \in Asleep THEN "awake" ELSE pc[u]]
    BY <1>5 DEF Close
  <2>3. ListOK' /\ GoneOK' /\ PlainOK'
    BY <2>1, NoEventFields DEF ListOK, GoneOK, PlainOK, ToSet
  <2>4. CallOK'
    BY <2>1, <2>2 DEF Shape, CallOK, Asleep
  <2> QED BY <2>3, <2>4 DEF Shape
<1>6. ASSUME NEW t \in Threads, NEW k \in Keys, NEW kind \in AllKinds,
             NEW on \in BOOLEAN, AddEvent(t, k, kind, on)
      PROVE  Shape'
  BY <1>6, AddShape
<1>7. ASSUME NEW t \in Threads, NEW k \in Keys, TriggerEvent(t, k) PROVE Shape'
  <2>1. CASE UNCHANGED <<order, ev>> /\ pc' = [pc EXCEPT ![t] = "run"]
    BY <1>7, <2>1, ShapeUntouched DEF TriggerEvent, Shape, CallOK
  <2>2. CASE /\ Exists(k) /\ ev' = [ev EXCEPT ![k] = Triggered(ev[k])]
             /\ order' = order /\ NotifyOne(t)
    <3>1. ev[k] \in AnyEvent /\ ev[k].kind # "none"
      BY <2>2 DEF QueueInv, Good, Exists
    <3>2. UNCHANGED <<closed, call, plain>>
      BY <1>7 DEF TriggerEvent
    <3>3. CallOK'
      BY <2>2, <3>2, NotifyCallOK DEF Shape
    <3>4. plain => ev[k].deadline = "none"
      BY DEF Shape, PlainOK
    <3> QED BY <2>2, <3>1, <3>2, <3>3, <3>4, KindKept, ShapeOfKind
  <2> QED BY <1>7, <2>1, <2>2 DEF TriggerEvent, Refuse
<1>8. ASSUME NEW t \in Threads, NEW k \in Keys, DeleteEvent(t, k) PROVE Shape'
  <2>1. pc' = [pc EXCEPT ![t] = "run"] /\ UNCHANGED <<closed, call, plain>>
    BY <1>8 DEF DeleteEvent, Refuse
  <2>2. CASE UNCHANGED <<order, ev>>
    BY <2>1, <2>2, ShapeUntouched DEF Shape, CallOK
  <2>3. CASE /\ Keep(ToSet(order) \ {k}) /\ ev' = [ev EXCEPT ![k] = NoEvent]
             /\ ~closed
    <3>1. DOMAIN ev = Keys /\ order \in Seq(Keys)
      BY DEF QueueInv
    <3>2. /\ \A i, j \in DOMAIN order' : order'[i] = order'[j] => i = j
          /\ ToSet(order') = ToSet(order) \ {k}
      BY <2>3, <3>1, KeepExact DEF Shape
    <3>3. \A l \in Keys : ev'[l] = IF l = k THEN NoEvent ELSE ev[l]
      BY <2>3, <3>1
    <3>4. ListOK'
      BY <3>2, <3>3, NoEventFields DEF Shape, ListOK
    <3>5. GoneOK' /\ PlainOK'
      BY <2>1, <2>3, <3>3, NoEventFields DEF Shape, GoneOK, PlainOK
    <3>6. CallOK'
      BY <2>1 DEF Shape, CallOK
    <3> QED BY <3>4, <3>5, <3>6 DEF Shape
  <2> QED BY <1>8, <2>2, <2>3 DEF DeleteEvent, Refuse
<1>9. ASSUME NEW t \in Threads, NEW n \in Nums, NEW limit \in {"none", "zero", "time"},
             WaitEqueue(t, n, limit)
      PROVE  Shape'
  <2> DEFINE c == [num |-> n, limit |-> limit]
  <2>1. c.num \in Nat /\ c.num >= 1
    BY EventQueueAssumption
  <2>2. Look(t, c) /\ closed' = closed /\ plain' = plain
    BY <1>9 DEF WaitEqueue
  <2> HIDE DEF c
  <2> QED BY <2>1, <2>2, LookShape
<1>10. ASSUME NEW t \in Threads, LookAgain(t) PROVE Shape'
  <2>1. call[t].num \in Nat /\ call[t].num >= 1
    BY <1>10 DEF LookAgain, QueueInv, Shape, CallOK
  <2>2. Look(t, call[t]) /\ closed' = closed /\ plain' = plain
    BY <1>10 DEF LookAgain
  <2> QED BY <2>1, <2>2, LookShape
<1>11. ASSUME NEW t \in Threads, Wake(t) PROVE Shape'
  BY <1>11, ShapeUntouched DEF Wake, Shape, CallOK
<1> QED
  BY <1>1, <1>2, <1>3, <1>4, <1>5, <1>6, <1>7, <1>8, <1>9, <1>10, <1>11 DEF Next

\* A trigger adds one to what waits; so does an event that starts out triggered.
LEMMA TriggerAdds ==
  ASSUME NEW e \in AnyEvent
  PROVE  /\ Triggered(e).fifo \in Seq(Nat)
         /\ Len(Triggered(e).fifo) <= Len(e.fifo) + 1
<1>1. e.fifo \in Seq(Nat) /\ e.sent + 1 \in Nat /\ Len(e.fifo) \in Nat
  BY DEF AnyEvent
<1>2. CASE e.kind = "queued"
  <2>1. Triggered(e).fifo = Append(e.fifo, e.sent + 1)
    BY <1>2 DEF Triggered, AnyEvent
  <2> QED BY <1>1, <2>1
<1>3. CASE e.kind # "queued"
  <2>1. Triggered(e).fifo = <<e.sent + 1>>
    BY <1>3 DEF Triggered, AnyEvent
  <2> QED BY <1>1, <2>1
<1> QED BY <1>2, <1>3

LEMMA AddAdds ==
  ASSUME NEW kind, NEW on \in BOOLEAN
  PROVE  /\ NewEvent(kind, on).fifo \in Seq(Nat)
         /\ Len(NewEvent(kind, on).fifo) <= 1
<1>1. CASE on = TRUE
  <2>1. NewEvent(kind, on).fifo = <<1>>
    BY <1>1 DEF NewEvent, NoEvent
  <2> QED BY <2>1
<1>2. CASE on = FALSE
  <2>1. NewEvent(kind, on).fifo = <<>>
    BY <1>2 DEF NewEvent, NoEvent
  <2> QED BY <2>1
<1> QED BY <1>1, <1>2

LEMMA EveryFifo ==
  ASSUME QueueInv
  PROVE  \A k \in Keys : ev[k].fifo \in Seq(Nat) /\ Len(ev[k].fifo) \in Nat
BY DEF QueueInv, Good, AnyEvent

\* A look takes a trigger, or leaves none.
LEMMA LookCovers ==
  ASSUME QueueInv, QueueInv', Shape, Covered, plain,
         NEW t \in Threads, pc[t] \in {"pinned", "awake"},
         NEW c, c.num \in Nat, c.num >= 1, Look(t, c), Asleep' # {}
  PROVE  Cardinality(Pending(ev')) <= Cardinality(Awake')
<1>1. /\ IsFiniteSet(Keys) /\ IsFiniteSet(Awake) /\ Cardinality(Awake) \in Nat
      /\ IsFiniteSet(Awake') /\ Cardinality(Awake') \in Nat
  <2>1. Awake \subseteq Threads /\ Awake' \subseteq Threads
    BY DEF Awake
  <2> QED BY <2>1, AwakeFinite, FS_Subset, FS_CardinalityType
<1>2. Cardinality(Pending(ev)) \in Nat
  BY PendingNat
<1>3. \A k \in Keys : ev[k].fifo \in Seq(Nat) /\ ev'[k].fifo \in Seq(Nat)
  BY EveryFifo, QueueInv' DEF QueueInv, Good, AnyEvent
<1>4. CASE \A k \in Keys : ev'[k].fifo = <<>>
  <2>1. Cardinality(Pending(ev')) = 0
    BY <1>4, NothingPending
  <2> QED BY <1>1, <2>1
<1>5. CASE closed /\ UNCHANGED ev
  BY <1>4, <1>5, NoEventFields DEF Shape, GoneOK
<1>6. ASSUME NEW left \in [0..Len(order) -> 0..c.num], Batch(left, c.num),
             ev' = Taken(left), left[Len(order)] < c.num, pc' = [pc EXCEPT ![t] = "run"]
      PROVE  Cardinality(Pending(ev')) <= Cardinality(Awake')
  <2>1. /\ \A k \in Keys : Len(ev'[k].fifo) <= Len(ev[k].fifo)
        /\ \E k \in Keys : Len(ev'[k].fifo) < Len(ev[k].fifo)
    BY <1>6, PlainBatch DEF Shape
  <2>2. Cardinality(Pending(ev')) <= Cardinality(Pending(ev)) - 1
    BY <1>1, <1>3, <2>1, PendingShrinks
  <2>3. Cardinality(Pending(ev')) \in Nat
    BY <1>1, <1>3, PendingFinite
  <2>4. Asleep' = Asleep /\ Awake' = Awake \ {t}
    BY <1>6 DEF Asleep, Awake, Shape, CallOK
  <2>5. Cardinality(Pending(ev)) <= Cardinality(Awake)
    BY <2>4 DEF Covered
  <2>6. Cardinality(Awake') >= Cardinality(Awake) - 1
    <3>1. CASE t \in Awake
      <4>1. Cardinality(Awake') = Cardinality(Awake) - 1
        BY <1>1, <2>4, <3>1, FS_RemoveElement
      <4> QED BY <1>1, <4>1
    <3>2. CASE t \notin Awake
      <4>1. Awake' = Awake
        BY <2>4, <3>2
      <4> QED BY <1>1, <4>1
    <3> QED BY <3>1, <3>2
  <2> QED BY <1>1, <1>2, <2>2, <2>3, <2>5, <2>6
<1>7. ASSUME ~closed, NEW left \in [0..Len(order) -> 0..c.num], Batch(left, c.num),
             ev' = Taken(left),
             IF left[Len(order)] < c.num THEN pc' = [pc EXCEPT ![t] = "run"] ELSE TRUE
      PROVE  Cardinality(Pending(ev')) <= Cardinality(Awake')
  <2>1. CASE left[Len(order)] < c.num
    BY <1>6, <1>7, <2>1
  <2>2. CASE ~(left[Len(order)] < c.num)
    <3>1. Len(order) \in 0..Len(order)
      BY DEF QueueInv
    <3>2. left[Len(order)] = c.num
      BY <2>2, <3>1
    <3>3. \A k \in Keys : ev'[k].fifo = <<>>
      BY <1>7, <3>2, PlainBatch DEF Shape
    <3> QED BY <1>4, <3>3
  <2> QED BY <2>1, <2>2
<1> QED BY <1>5, <1>7 DEF Look, Refuse, Goto

LEMMA CoverSteps ==
  ASSUME QueueInv, QueueInv', Shape, Covered, Next
  PROVE  Covered'
<1> SUFFICES ASSUME plain', Asleep' # {}
             PROVE  Cardinality(Pending(ev')) <= Cardinality(Awake')
  BY DEF Covered
<1> DEFINE goal == Cardinality(Pending(ev')) <= Cardinality(Awake')
<1>a. /\ IsFiniteSet(Keys) /\ IsFiniteSet(Awake) /\ Cardinality(Awake) \in Nat
      /\ Cardinality(Pending(ev)) \in Nat /\ Cardinality(Pending(ev')) \in Nat
  <2>1. \A k \in Keys : ev'[k].fifo \in Seq(Nat)
    BY QueueInv' DEF QueueInv, Good, AnyEvent
  <2> QED BY <2>1, AwakeFinite, PendingNat, PendingFinite
<1>b. \A k \in Keys : ev[k].fifo \in Seq(Nat) /\ ev'[k].fifo \in Seq(Nat)
  BY QueueInv' DEF QueueInv, Good, AnyEvent
<1>c. ASSUME NEW t \in Threads, pc[t] \in {"run", "pinned"},
             NEW w \in {"run", "pinned", "closing"}, pc' = [pc EXCEPT ![t] = w], ev' = ev, plain
      PROVE  goal
  <2>1. Cardinality(Pending(ev')) <= Cardinality(Pending(ev))
    BY <1>a, <1>c
  <2> QED BY <1>a, <1>c, <2>1, AsideCovers DEF Shape
<1>d. ASSUME NEW t \in Threads, NEW k \in Keys, pc[t] = "pinned", NotifyOne(t), plain,
             \A l \in Keys : l # k => ev'[l].fifo = ev[l].fifo,
             Len(ev'[k].fifo) <= Len(ev[k].fifo) + 1
      PROVE  goal
  <2>1. Cardinality(Pending(ev')) <= Cardinality(Pending(ev)) + 1
    BY <1>a, <1>b, <1>d, PendingGrows
  <2> QED BY <1>a, <1>d, <2>1, NotifyCovers DEF Shape
<1>1. ASSUME NEW k \in Keys, Expire(k) PROVE goal
  BY <1>1 DEF Expire, Shape, PlainOK
<1>2. ASSUME NEW t \in Threads, Pin(t) PROVE goal
  <2>1. /\ pc[t] = "run" /\ (pc' = [pc EXCEPT ![t] = "pinned"] \/ pc' = pc)
        /\ ev' = ev /\ plain' = plain
    BY <1>2 DEF Pin, Goto
  <2>2. CASE pc' = [pc EXCEPT ![t] = "pinned"]
    BY <1>c, <2>1, <2>2
  <2>3. CASE pc' = pc
    <3>1. Awake' = Awake /\ Asleep' = Asleep
      BY <2>3 DEF Awake, Asleep
    <3> QED BY <2>1, <3>1 DEF Covered
  <2> QED BY <2>1, <2>2, <2>3
<1>3. ASSUME NEW t \in Threads, Create(t) PROVE goal
  BY <1>3 DEF Create, Asleep
<1>4. ASSUME NEW t \in Threads, Unregister(t) PROVE goal
  <2>1. pc[t] = "run" /\ pc' = [pc EXCEPT ![t] = "closing"] /\ ev' = ev /\ plain' = plain
    BY <1>4 DEF Unregister, Goto
  <2> QED BY <1>c, <2>1
<1>5. ASSUME NEW t \in Threads, Close(t) PROVE goal
  <2>1. pc' = [u \in Threads |-> IF u = t THEN "run"
                                 ELSE IF u \in Asleep THEN "awake" ELSE pc[u]]
    BY <1>5 DEF Close
  <2>2. Asleep' = {}
    BY <2>1 DEF Asleep
  <2> QED BY <2>2
<1>6. ASSUME NEW t \in Threads, NEW k \in Keys, NEW kind \in AllKinds,
             NEW on \in BOOLEAN, AddEvent(t, k, kind, on)
      PROVE  goal
  <2>1. plain /\ pc[t] = "pinned"
    <3>1. plain' = (plain /\ (closed \/ kind \in {"edge", "queued"})) /\ pc[t] = "pinned"
      BY <1>6 DEF AddEvent
    <3> QED BY <3>1
  <2>2. DOMAIN ev = Keys
    BY DEF QueueInv
  <2>3. CASE pc' = [pc EXCEPT ![t] = "run"] /\ ev' = ev
    BY <1>c, <2>1, <2>3
  <2>4. CASE /\ ~Exists(k) /\ NotifyOne(t)
             /\ ev' = [ev EXCEPT ![k] = NewEvent(kind, on)]
    <3>1. Len(ev[k].fifo) = 0
      BY <2>4, NoEventFields DEF Shape, GoneOK, Exists
    <3>2. ev'[k] = NewEvent(kind, on) /\ \A l \in Keys : l # k => ev'[l] = ev[l]
      BY <2>2, <2>4
    <3>3. Len(ev'[k].fifo) <= Len(ev[k].fifo) + 1
      BY <3>1, <3>2, AddAdds
    <3> QED BY <1>d, <2>1, <2>4, <3>2, <3>3
  <2>5. CASE /\ NotifyOne(t)
             /\ ev' = [ev EXCEPT ![k].deadline = NewEvent(kind, on).deadline]
    <3> DEFINE d == NewEvent(kind, on).deadline
    <3>1. ev[k] \in AnyEvent
      BY DEF QueueInv, Good
    <3>2. ev'[k] = [ev[k] EXCEPT !.deadline = d] /\ \A l \in Keys : l # k => ev'[l] = ev[l]
      BY <2>2, <2>5
    <3> HIDE DEF d
    <3>3. ev'[k].fifo = ev[k].fifo
      BY <3>1, <3>2 DEF AnyEvent
    <3>4. Len(ev'[k].fifo) <= Len(ev[k].fifo) + 1
      BY <1>b, <3>3
    <3> QED BY <1>d, <2>1, <2>5, <3>2, <3>4
  <2> QED BY <1>6, <2>3, <2>4, <2>5 DEF AddEvent, Refuse, Goto
<1>7. ASSUME NEW t \in Threads, NEW k \in Keys, TriggerEvent(t, k) PROVE goal
  <2>1. plain /\ pc[t] = "pinned"
    BY <1>7 DEF TriggerEvent
  <2>2. DOMAIN ev = Keys /\ ev[k] \in AnyEvent
    BY DEF QueueInv, Good
  <2>3. CASE pc' = [pc EXCEPT ![t] = "run"] /\ ev' = ev
    BY <1>c, <2>1, <2>3
  <2>4. CASE ev' = [ev EXCEPT ![k] = Triggered(ev[k])] /\ NotifyOne(t)
    <3>1. ev'[k] = Triggered(ev[k]) /\ \A l \in Keys : l # k => ev'[l] = ev[l]
      BY <2>2, <2>4
    <3>2. Len(ev'[k].fifo) <= Len(ev[k].fifo) + 1
      BY <2>2, <3>1, TriggerAdds
    <3> QED BY <1>d, <2>1, <2>4, <3>1, <3>2
  <2> QED BY <1>7, <2>3, <2>4 DEF TriggerEvent, Refuse, Goto
<1>8. ASSUME NEW t \in Threads, NEW k \in Keys, DeleteEvent(t, k) PROVE goal
  <2>1. plain /\ pc[t] = "pinned" /\ pc' = [pc EXCEPT ![t] = "run"]
    BY <1>8 DEF DeleteEvent, Refuse, Goto
  <2>2. CASE ev' = ev
    BY <1>c, <2>1, <2>2
  <2>3. CASE ev' = [ev EXCEPT ![k] = NoEvent]
    <3>1. DOMAIN ev = Keys
      BY DEF QueueInv
    <3>2. \A l \in Keys : ev'[l].fifo = IF l = k THEN <<>> ELSE ev[l].fifo
      BY <2>3, <3>1, NoEventFields
    <3>3. \A l \in Keys : Len(ev'[l].fifo) <= Len(ev[l].fifo)
      BY <3>2, EveryFifo
    <3>4. Cardinality(Pending(ev')) <= Cardinality(Pending(ev))
      BY <1>a, <1>b, <3>3, PendingShrinks
    <3> QED BY <1>a, <2>1, <3>4, AsideCovers DEF Shape
  <2> QED BY <1>8, <2>2, <2>3 DEF DeleteEvent, Refuse
<1>9. ASSUME NEW t \in Threads, NEW n \in Nums, NEW limit \in {"none", "zero", "time"},
             WaitEqueue(t, n, limit)
      PROVE  goal
  <2> DEFINE c == [num |-> n, limit |-> limit]
  <2>1. c.num \in Nat /\ c.num >= 1
    BY EventQueueAssumption
  <2>2. Look(t, c) /\ pc[t] = "pinned" /\ plain
    BY <1>9 DEF WaitEqueue
  <2> HIDE DEF c
  <2> QED BY <2>1, <2>2, LookCovers
<1>10. ASSUME NEW t \in Threads, LookAgain(t) PROVE goal
  <2>1. call[t].num \in Nat /\ call[t].num >= 1
    BY <1>10 DEF LookAgain, QueueInv, Shape, CallOK
  <2>2. Look(t, call[t]) /\ pc[t] = "awake" /\ plain
    BY <1>10 DEF LookAgain
  <2> QED BY <2>1, <2>2, LookCovers
<1>11. ASSUME NEW t \in Threads, Wake(t) PROVE goal
  <2>1. pc[t] = "asleep" /\ pc' = [pc EXCEPT ![t] = "awake"] /\ ev' = ev /\ plain' = plain
    BY <1>11 DEF Wake, Goto
  <2>2. t \in Asleep /\ t \notin Awake /\ Awake' = Awake \union {t}
    BY <2>1 DEF Asleep, Awake, Shape, CallOK
  <2>3. Cardinality(Awake') = Cardinality(Awake) + 1
    BY <1>a, <2>2, FS_AddElement
  <2>4. Cardinality(Pending(ev)) <= Cardinality(Awake)
    BY <2>1, <2>2 DEF Covered
  <2> QED BY <1>a, <2>1, <2>3, <2>4
<1> QED
  BY <1>1, <1>2, <1>3, <1>4, <1>5, <1>6, <1>7, <1>8, <1>9, <1>10, <1>11 DEF Next

\* In a queue that never held a level or a timer event, while a thread sleeps
\* every trigger not yet delivered has a woken thread of its own on the way,
\* although m_cond_var.Signal wakes one thread and a batch may stop short.
THEOREM WakeupsCoverTriggers == Spec => []TriggersAreCovered
<1> DEFINE Inv == QueueInv /\ Shape /\ Covered
<1>1. Init => Inv
  BY QueueStarts, ShapeStarts
<1>2. Inv /\ [Next]_vars => Inv'
  <2>1. ASSUME Inv, Next PROVE Inv'
    <3>1. QueueInv'
      BY <2>1, QueueSteps
    <3>2. Shape'
      BY <2>1, ShapeSteps
    <3>3. Covered'
      BY <2>1, <3>1, CoverSteps
    <3> QED BY <3>1, <3>2, <3>3
  <2>2. ASSUME Inv, UNCHANGED vars PROVE Inv'
    <3>1. UNCHANGED <<order, ev, closed, call, pc, plain>>
      BY <2>2 DEF vars
    <3>2. QueueInv'
      BY <2>2, <3>1, QueueUntouched
    <3>3. Shape'
      BY <2>2, <3>1, ShapeUntouched DEF Shape, CallOK
    <3>4. Covered'
      BY <2>2, <3>1 DEF Covered, Awake, Asleep
    <3> QED BY <3>2, <3>3, <3>4
  <2> QED BY <2>1, <2>2
<1>3. Inv => TriggersAreCovered
  BY DEF Covered, Pending, TriggersAreCovered, Untaken
<1> QED BY <1>1, <1>2, <1>3, PTL DEF Spec
=============================================================================
