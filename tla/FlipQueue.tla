------------------------------- MODULE FlipQueue -------------------------------
(***************************************************************************)
(* The video-out port and its flip queue.                                  *)
(*                                                                         *)
(* Guest threads open and close the port, register its buffers, set the    *)
(* flip rate and submit flips.  The GPU thread prepares the flips of the   *)
(* processor in the order in which they were handed to it, and executes    *)
(* the flip and wait packets of command buffers.  The end of pipe completes *)
(* the flips of the GPU in order.  The present thread shows the front of   *)
(* the queue once per vertical blank.                                      *)
(*                                                                         *)
(* Every critical section of FlipQueue::m_mutex is one action.  The lock   *)
(* of the port is kept by the present thread from the test whether a flip  *)
(* is due until it has been shown, the lock of the driver by a guest       *)
(* thread until its Close has returned.  EXIT ends the emulator: `failed'  *)
(* names the check that did, and nothing happens afterwards.               *)
(*                                                                         *)
(* m_requests is a sequence, since flips are shown from its front.  The    *)
(* other two lists are only searched by id, so they are sets.              *)
(***************************************************************************)
EXTENDS Naturals, Sequences, FiniteSets, SequencesExt

CONSTANTS
  Submitters,  \* guest threads that submit flips and set the port up
  Controllers, \* guest threads that open and close the port
  Indices,     \* buffer indices
  Special,     \* those that show a blank frame and need no buffer
  Capacity,    \* VIDEO_OUT_FLIP_QUEUE_CAPACITY
  Pool,        \* prepared frames, as many as the swapchain has images
  Rates,       \* flip rates the guest sets
  Cycle,       \* the vertical blanks are counted modulo this
  ReqMax,      \* bound: flips reserved
  GenMax       \* bound: Opens and Closes

ASSUME FlipAssumption ==
  /\ Capacity \in Nat \ {0} /\ Pool \in Nat \ {0}
  /\ Rates \subseteq 0..2 /\ Special \subseteq Indices
  /\ Cycle \in Nat \ {0} /\ \A r \in Rates : Cycle % (r + 1) = 0
  /\ ReqMax \in Nat /\ GenMax \in Nat
  /\ IsFiniteSet(Submitters \union Controllers)
  /\ {"gpu", "present"} \intersect (Submitters \union Controllers) = {}

VARIABLES
  opened, closing, gen,  \* VideoOutConfig
  rate, count,           \* flip_rate; vblank_status.count modulo Cycle
  registered,            \* the port has its buffers
  pending, gc,           \* flip_status: flipPendingNum, gcQueueNum
  requests, cpu, cancelled,  \* m_requests, m_cpu_requests, m_cancelled_requests
  processing,            \* m_processing
  doneWait, slotWait,    \* threads asleep on m_done_cond_var, on the slot's
  free,                  \* frames of the pool that are free
  jobs, eop,             \* preparations handed to the GPU thread; deferred completions
  pc,                    \* where each thread is
  call, packet, front,   \* and with what: a guest thread, the GPU thread, Flip
  nextId, shown, failed  \* m_next_request_id, flips shown, the EXIT reached

port   == <<opened, closing, gen, rate, count, registered, pending, gc>>
lists  == <<requests, cpu, cancelled, processing>>
sleep  == <<doneWait, slotWait>>
work   == <<jobs, eop>>
arg    == <<call, packet, front>>
vars   == <<port, lists, sleep, free, work, pc, arg, nextId, shown, failed>>

NoCall   == [op |-> "none", index |-> "none", n |-> 0]
NoPacket == [index |-> "none", id |-> 0, source |-> "none"]
NoFront  == [id |-> 0, gen |-> 0]

Gpu     == "gpu"
Present == "present"
Guests  == Submitters \union Controllers
Threads == Guests \union {Gpu, Present}

\* Checks that only a broken queue reaches, and those the guest can reach.
Internal == {"prepare", "changed", "complete", "active", "front", "presenting"}
OfGuest  == {"submission", "saturated", "unregistered", "waitdone", "flip_rate"}

Request == [id : 1..ReqMax, gen : Nat, index : Indices, source : {"Cpu", "GpuEop"},
            state : {"Reserved", "Recording", "Ready", "Presenting"}, frame : BOOLEAN]

GuestPcs   == {"free", "got", "submit", "cancel", "discard"}
GpuPcs     == {"idle", "get", "reserve", "slot", "prepare", "check", "cut", "frame",
               "store", "done", "getwait", "flipwait"}
PresentPcs == {"flip", "due", "undo", "show", "pop", "late", "blank", "vblank"}

TypeOK ==
  /\ opened \in BOOLEAN /\ closing \in BOOLEAN /\ gen \in 0..GenMax
  /\ rate \in 0..2 /\ count \in 0..(Cycle - 1) /\ registered \in BOOLEAN
  /\ pending \in 0..Capacity /\ gc \in 0..Capacity
  /\ requests \in Seq(Request) /\ cpu \subseteq Request /\ cancelled \subseteq Request
  /\ processing \in BOOLEAN
  /\ doneWait \subseteq Threads /\ slotWait \subseteq {Gpu}
  /\ free \in 0..Pool
  /\ jobs \in Seq(1..ReqMax) /\ eop \in Seq(1..ReqMax)
  /\ pc[Gpu] \in GpuPcs /\ pc[Present] \in PresentPcs
  /\ \A g \in Guests : pc[g] \in GuestPcs
  /\ nextId \in 1..(ReqMax + 1) /\ shown \in Seq(1..ReqMax)
  /\ failed \in {"none"} \union Internal \union OfGuest

Init ==
  /\ opened = FALSE /\ closing = FALSE /\ gen = 0
  /\ rate = 0 /\ count = 0 /\ registered = FALSE
  /\ pending = 0 /\ gc = 0
  /\ requests = <<>> /\ cpu = {} /\ cancelled = {} /\ processing = FALSE
  /\ doneWait = {} /\ slotWait = {}
  /\ free = Pool /\ jobs = <<>> /\ eop = <<>>
  /\ pc = [t \in Threads |-> IF t = Gpu THEN "idle"
                             ELSE IF t = Present THEN "flip" ELSE "free"]
  /\ call = [g \in Guests |-> NoCall] /\ packet = NoPacket /\ front = NoFront
  /\ nextId = 1 /\ shown = <<>> /\ failed = "none"

-----------------------------------------------------------------------------
DriverFree == \A g \in Guests : pc[g] \notin {"cancel", "discard"}
PortFree   == pc[Present] \notin {"show", "pop"}

Go(t, where) == pc' = [pc EXCEPT ![t] = where]

\* EXIT.
Fail(reason) ==
  /\ failed' = reason
  /\ UNCHANGED <<port, lists, sleep, free, work, pc, arg, nextId, shown>>

Ids(s)       == {r.id : r \in s}
Of(s, id)    == CHOOSE r \in s : r.id = id
Drop(s, id)  == {r \in s : r.id # id}
Swap(s, new) == Drop(s, new.id) \union {new}

\* The requests of m_requests; with the one of new's id replaced; without id.
Queued       == ToSet(requests)
Put(new)     == [i \in DOMAIN requests |-> IF requests[i].id = new.id THEN new ELSE requests[i]]
Without(id)  == RemoveAt(requests, CHOOSE i \in DOMAIN requests : requests[i].id = id)

Total == Len(requests) + Cardinality(cpu)
Full  == Total >= Capacity

-----------------------------------------------------------------------------
(* Open and Close.                                                         *)

\* Driver::Open; the port's leftovers are asserted away.
Open(g) ==
  /\ pc[g] = "free" /\ DriverFree /\ PortFree
  /\ ~opened /\ gen < GenMax
  /\ IF rate # 0
     THEN Fail("flip_rate")
     ELSE /\ opened' = TRUE /\ closing' = FALSE /\ gen' = gen + 1
          /\ pending' = 0 /\ gc' = 0 /\ count' = 0
          /\ UNCHANGED <<rate, registered, lists, sleep, free, work, pc, arg, nextId,
                         shown, failed>>

\* Driver::Close up to the call of Cancel.
Close(g) ==
  /\ pc[g] = "free" /\ DriverFree /\ PortFree
  /\ opened /\ gen < GenMax
  /\ opened' = FALSE /\ closing' = TRUE /\ gen' = gen + 1
  /\ rate' = 0 /\ registered' = FALSE
  /\ Go(g, "cancel")
  /\ UNCHANGED <<count, pending, gc, lists, sleep, free, work, arg, nextId, shown, failed>>

\* Cancel waits while the present thread works on the front request.
CancelWaits(g) ==
  /\ pc[g] = "cancel" /\ g \notin doneWait
  /\ processing /\ requests # <<>>
  /\ doneWait' = doneWait \union {g}
  /\ UNCHANGED <<port, lists, slotWait, free, work, pc, arg, nextId, shown, failed>>

\* Seeded defect: a request that waits for its preparation is forgotten.
Recorded(s) == {r \in s : r.state = "Recording"}

Unfinished(s) == {r \in s : r.state \in {"Reserved", "Recording"}}

\* g keeps a number for the rest of its call.
Hands(g, n) == call' = [call EXCEPT ![g].n = n] /\ UNCHANGED <<packet, front>>

HeldBy(s) == Cardinality({r \in s : r.frame})

\* Unfinished requests are kept aside for their Complete, ready ones go.
Cancel(g) ==
  /\ pc[g] = "cancel" /\ g \notin doneWait
  /\ ~(processing /\ requests # <<>>)
  /\ IF \E r \in Queued : r.state = "Presenting"
     THEN Fail("presenting")
     ELSE /\ requests' = <<>> /\ cpu' = {}
          /\ cancelled' = cancelled \union Unfinished(Queued) \union Unfinished(cpu)
          /\ Hands(g, HeldBy({r \in Queued : r.state = "Ready"}))
          /\ doneWait' = {} /\ slotWait' = {}
          /\ Go(g, "discard")
          /\ UNCHANGED <<port, processing, free, work, nextId, shown, failed>>

Ends(g) ==
  /\ Go(g, "free")
  /\ call' = [call EXCEPT ![g] = NoCall] /\ UNCHANGED <<packet, front>>

\* The frames of the ready requests go back and the status is cleared.
CloseReturns(g) ==
  /\ pc[g] = "discard" /\ PortFree
  /\ free' = free + call[g].n
  /\ pending' = 0 /\ gc' = 0
  /\ Ends(g)
  /\ UNCHANGED <<opened, closing, gen, rate, count, registered, lists, sleep, work, nextId,
                 shown, failed>>

-----------------------------------------------------------------------------
(* Calls of the guest: Get under the driver's lock, the rest under the     *)
(* port's.                                                                 *)

Calls == [op : {"flip"}, index : Indices, n : {0}]
           \union [op : {"rate"}, index : {"none"}, n : Rates]
           \union [op : {"register", "unregister"}, index : {"none"}, n : {0}]

\* The bound leaves room for one more flip.
MoreFlips ==
  LET asking == {g \in Guests : pc[g] = "got" /\ call[g].op = "flip"}
                  \union {t \in {Gpu} : pc[t] \in {"get", "reserve", "slot"}}
  IN nextId + Cardinality(asking) <= ReqMax

Get(g, c) ==
  /\ pc[g] = "free" /\ DriverFree /\ opened
  /\ c.op = "flip" => MoreFlips
  /\ call' = [call EXCEPT ![g] = c] /\ UNCHANGED <<packet, front>>
  /\ Go(g, "got")
  /\ UNCHANGED <<port, lists, sleep, free, work, nextId, shown, failed>>

Acceptable(index) == ~closing /\ (index \in Special \/ registered)

\* FlipQueue::Reserve.
Reserve(index, source) ==
  LET r == [id |-> nextId, gen |-> gen, index |-> index, source |-> source,
            state |-> "Reserved", frame |-> FALSE]
  IN /\ ~Full
     /\ nextId' = nextId + 1
     /\ pending' = Total + 1
     /\ \/ /\ source = "GpuEop"
           /\ requests' = Append(requests, r) /\ gc' = gc + 1 /\ UNCHANGED cpu
        \/ source = "Cpu" /\ cpu' = cpu \union {r} /\ UNCHANGED <<requests, gc>>
     /\ UNCHANGED <<opened, closing, gen, rate, count, registered, cancelled, processing>>

\* VideoOutSubmitFlip up to the reservation.
SubmitFlip(g) ==
  /\ pc[g] = "got" /\ call[g].op = "flip" /\ PortFree
  /\ \/ /\ ~Acceptable(call[g].index) \/ Full
        /\ Ends(g) /\ UNCHANGED <<port, lists, nextId>>
     \/ /\ Acceptable(call[g].index)
        /\ Reserve(call[g].index, "Cpu")
        /\ Hands(g, nextId)
        /\ Go(g, "submit")
  /\ UNCHANGED <<sleep, free, work, shown, failed>>

SubmitFlipPreparation(g) ==
  /\ pc[g] = "submit"
  /\ jobs' = Append(jobs, call[g].n)
  /\ Ends(g)
  /\ UNCHANGED <<port, lists, sleep, free, eop, nextId, shown, failed>>

\* VideoOutSetFlipRate asks neither whether the port is closing nor which
\* generation it has.
SetFlipRate(g) ==
  /\ pc[g] = "got" /\ call[g].op = "rate" /\ PortFree
  /\ rate' = call[g].n
  /\ Ends(g)
  /\ UNCHANGED <<opened, closing, gen, count, registered, pending, gc, lists, sleep, free,
                 work, nextId, shown, failed>>

\* VideoOutRegisterBuffers2 and VideoOutUnregisterBuffers of one group.
ChangeBuffers(g) ==
  /\ pc[g] = "got" /\ call[g].op \in {"register", "unregister"} /\ PortFree
  /\ registered' = IF closing THEN registered ELSE call[g].op = "register"
  /\ Ends(g)
  /\ UNCHANGED <<opened, closing, gen, rate, count, pending, gc, lists, sleep, free, work,
                 nextId, shown, failed>>

-----------------------------------------------------------------------------
(* The GPU thread.                                                         *)

GpuStep(where) == Go(Gpu, where) /\ UNCHANGED <<port, free, work, nextId, shown, failed>>

Works(p) == packet' = p /\ UNCHANGED <<call, front>>

\* A preparation the processor asked for: PrepareCpuFlip.
TakeJob ==
  /\ pc[Gpu] = "idle" /\ jobs # <<>>
  /\ jobs' = Tail(jobs)
  /\ Works([NoPacket EXCEPT !.id = Head(jobs), !.source = "Cpu"])
  /\ Go(Gpu, "prepare")
  /\ UNCHANGED <<port, lists, sleep, free, eop, nextId, shown, failed>>

\* A flip packet, and a packet that waits for the flips of a buffer.
StartPacket(index, where) ==
  /\ pc[Gpu] = "idle" /\ (where = "get" => MoreFlips)
  /\ Works([NoPacket EXCEPT !.index = index])
  /\ GpuStep(where) /\ UNCHANGED <<lists, sleep>>

\* The driver's Get in SubmitFlipFromGpu and in WaitFlipDone.
GpuGets ==
  /\ pc[Gpu] \in {"get", "getwait"} /\ DriverFree
  /\ IF opened
     THEN /\ GpuStep(IF pc[Gpu] = "get" THEN "reserve" ELSE "flipwait")
          /\ UNCHANGED <<lists, sleep, arg>>
     ELSE Fail(IF pc[Gpu] = "get" THEN "submission" ELSE "waitdone")

\* The reservation of a flip packet; a full queue is waited for.
GpuReserves ==
  /\ pc[Gpu] = "reserve" /\ PortFree
  /\ \/ ~Acceptable(packet.index) /\ Fail("submission")
     \/ /\ Acceptable(packet.index) /\ Full
        /\ GpuStep("slot") /\ UNCHANGED <<lists, sleep, arg>>
     \/ /\ Acceptable(packet.index)
        /\ Reserve(packet.index, "GpuEop")
        /\ Works([packet EXCEPT !.id = nextId, !.source = "GpuEop"])
        /\ Go(Gpu, "prepare")
        /\ UNCHANGED <<sleep, free, work, shown, failed>>

\* WaitForSubmitSlot; PrepareVideoOutFlip then tries again.
WaitForSubmitSlot ==
  /\ pc[Gpu] = "slot" /\ slotWait = {}
  /\ \/ ~Full /\ GpuStep("get") /\ UNCHANGED <<lists, sleep, arg>>
     \/ Full /\ requests = <<>> /\ Fail("saturated")
     \/ /\ Full /\ requests # <<>>
        /\ slotWait' = {Gpu}
        /\ UNCHANGED <<port, lists, doneWait, free, work, pc, arg, nextId, shown, failed>>

\* FlipQueue::Wait for the flips of a buffer.
WaitFlipDone ==
  /\ pc[Gpu] = "flipwait" /\ Gpu \notin doneWait
  /\ IF \E r \in Queued \union cpu : r.index = packet.index
     THEN /\ doneWait' = doneWait \union {Gpu}
          /\ UNCHANGED <<port, lists, slotWait, free, work, pc, arg, nextId, shown, failed>>
     ELSE GpuStep("idle") /\ Works(NoPacket) /\ UNCHANGED <<lists, sleep>>

Me == packet.id

\* Prepare, first section: the request starts recording, in its place or,
\* a flip of the processor, at the end of the queue.
Recording(r) == [r EXCEPT !.state = "Recording"]

PrepareStarts ==
  /\ pc[Gpu] = "prepare"
  /\ \/ /\ Me \in Ids(Queued) /\ Of(Queued, Me).state = "Reserved"
        /\ requests' = Put(Recording(Of(Queued, Me)))
        /\ GpuStep("check") /\ UNCHANGED <<cpu, cancelled, processing, sleep, arg>>
     \/ /\ Me \in Ids(cpu) /\ Of(cpu, Me).state = "Reserved"
        /\ requests' = Append(requests, Recording(Of(cpu, Me)))
        /\ cpu' = Drop(cpu, Me)
        /\ GpuStep("check") /\ UNCHANGED <<cancelled, processing, sleep, arg>>
     \/ /\ Me \in Ids(cancelled) /\ Of(cancelled, Me).state = "Reserved"
        /\ cancelled' = Swap(cancelled, Recording(Of(cancelled, Me)))
        /\ GpuStep("done") /\ UNCHANGED <<requests, cpu, processing, sleep, arg>>
     \/ /\ \A s \in {Queued, cpu, cancelled} :
             Me \in Ids(s) => Of(s, Me).state # "Reserved"
        /\ Fail("prepare")

\* The request as Prepare read it in its first section.
Current(r) == opened /\ ~closing /\ gen = r.gen

\* Second section, under the port's lock.
PrepareChecks ==
  /\ pc[Gpu] = "check" /\ PortFree
  /\ LET r == IF Me \in Ids(Queued) THEN Of(Queued, Me) ELSE Of(cancelled, Me) IN
       \/ ~Current(r) /\ GpuStep("cut") /\ UNCHANGED <<lists, sleep, arg>>
       \/ /\ Current(r) /\ (r.index \in Special \/ registered)
          /\ GpuStep("frame") /\ UNCHANGED <<lists, sleep, arg>>
       \/ /\ Current(r) /\ ~(r.index \in Special \/ registered)
          /\ Fail("unregistered")

\* The port was closed: the request leaves the queue, if Close was slower.
PrepareCuts ==
  /\ pc[Gpu] = "cut"
  /\ IF Me \in Ids(Queued)
     THEN /\ cancelled' = cancelled \union {Of(Queued, Me)}
          /\ requests' = Without(Me)
     ELSE UNCHANGED <<requests, cancelled>>
  /\ GpuStep("done") /\ UNCHANGED <<cpu, processing, sleep, arg>>

\* PrepareFrame waits for a free frame of the pool.
PrepareFrame ==
  /\ pc[Gpu] = "frame" /\ free > 0
  /\ free' = free - 1
  /\ Go(Gpu, "store")
  /\ UNCHANGED <<port, lists, sleep, work, arg, nextId, shown, failed>>

\* Seeded defect: the frame is stored only if the request is still queued.
PrepareStoresQueued ==
  /\ pc[Gpu] = "store"
  /\ IF Me \in Ids(Queued)
     THEN requests' = Put([Of(Queued, Me) EXCEPT !.frame = TRUE])
     ELSE UNCHANGED requests
  /\ GpuStep("done") /\ UNCHANGED <<cpu, cancelled, processing, sleep, arg>>

\* The request is among s, recording and without a frame.
Unframed(s) ==
  Me \in Ids(s) /\ Of(s, Me).state = "Recording" /\ ~Of(s, Me).frame

\* Last section: the frame is stored in the request wherever it is now.
PrepareStores ==
  /\ pc[Gpu] = "store"
  /\ \/ /\ Unframed(Queued)
        /\ requests' = Put([Of(Queued, Me) EXCEPT !.frame = TRUE])
        /\ GpuStep("done") /\ UNCHANGED <<cpu, cancelled, processing, sleep, arg>>
     \/ /\ Me \notin Ids(Queued) /\ Unframed(cancelled)
        /\ cancelled' = Swap(cancelled, [Of(cancelled, Me) EXCEPT !.frame = TRUE])
        /\ GpuStep("done") /\ UNCHANGED <<requests, cpu, processing, sleep, arg>>
     \/ /\ ~Unframed(IF Me \in Ids(Queued) THEN Queued ELSE cancelled)
        /\ Fail("changed")

-----------------------------------------------------------------------------
(* Complete: by the GPU thread for a flip of the processor, at the end of  *)
(* the pipe for the others.                                                *)

Completes(id) ==
  \/ /\ id \in Ids(Queued)
     /\ Of(Queued, id).state = "Recording" /\ Of(Queued, id).frame
     /\ requests' = Put([Of(Queued, id) EXCEPT !.state = "Ready"])
     /\ UNCHANGED <<cpu, cancelled, processing, sleep, free, failed>>
  \/ /\ id \notin Ids(Queued)
     /\ id \in Ids(cancelled) /\ Of(cancelled, id).state = "Recording"
     /\ cancelled' = Drop(cancelled, id)
     /\ free' = IF Of(cancelled, id).frame THEN free + 1 ELSE free
     /\ doneWait' = {}
     /\ UNCHANGED <<requests, cpu, processing, slotWait, failed>>
  \/ /\ IF id \in Ids(Queued)
        THEN ~(Of(Queued, id).state = "Recording" /\ Of(Queued, id).frame)
        ELSE id \in Ids(cancelled) => Of(cancelled, id).state # "Recording"
     /\ failed' = "complete"
     /\ UNCHANGED <<lists, sleep, free>>

\* A prepared flip packet defers its completion and flushes; a flip of the
\* processor flushes and completes.
Prepared ==
  /\ pc[Gpu] = "done"
  /\ IF packet.source = "Cpu"
     THEN Completes(Me) /\ UNCHANGED eop
     ELSE eop' = Append(eop, Me) /\ UNCHANGED <<lists, sleep, free, failed>>
  /\ Go(Gpu, "idle") /\ Works(NoPacket)
  /\ UNCHANGED <<port, jobs, nextId, shown>>

EndOfPipe ==
  /\ eop # <<>> /\ Completes(Head(eop))
  /\ eop' = Tail(eop)
  /\ UNCHANGED <<port, jobs, pc, arg, nextId, shown>>

-----------------------------------------------------------------------------
(* The present thread.                                                     *)

PresentGoes(where) ==
  /\ Go(Present, where)
  /\ UNCHANGED <<port, requests, cpu, cancelled, free, work, arg, nextId, shown, failed>>

\* Flip: is there a request to show.
FlipLooks ==
  /\ pc[Present] = "flip"
  /\ \/ /\ requests # <<>> => ~processing /\ Head(requests).state # "Ready"
        /\ PresentGoes("late") /\ UNCHANGED <<processing, sleep>>
     \/ requests # <<>> /\ processing /\ Fail("active")
     \/ /\ requests # <<>> /\ ~processing /\ Head(requests).state = "Ready"
        /\ processing' = TRUE
        /\ front' = [id |-> Head(requests).id, gen |-> Head(requests).gen]
        /\ Go(Present, "due")
        /\ UNCHANGED <<port, requests, cpu, cancelled, sleep, free, work, call, packet,
                       nextId, shown, failed>>

\* Seeded defect: a flip of a closed port is due.
IsDueAnyway(r) == count % (rate + 1) = 0

IsFlipDue(r) == Current(r) /\ count % (rate + 1) = 0

\* The port's lock is taken; it is kept if the flip is due.
FlipTests ==
  /\ pc[Present] = "due"
  /\ PresentGoes(IF IsFlipDue(front) THEN "show" ELSE "undo")
  /\ UNCHANGED <<processing, sleep>>

\* Seeded defect: nobody is told that the front request is left alone.
FlipUndoesQuietly ==
  /\ pc[Present] = "undo"
  /\ processing' = FALSE
  /\ PresentGoes("late") /\ UNCHANGED sleep

FlipUndoes ==
  /\ pc[Present] = "undo"
  /\ processing' = FALSE
  /\ doneWait' = {}
  /\ PresentGoes("late") /\ UNCHANGED slotWait

IsFront(state) ==
  /\ requests # <<>> /\ Head(requests).id = front.id
  /\ Head(requests).state = state

FlipShows ==
  /\ pc[Present] = "show"
  /\ IF IsFront("Ready") /\ processing
     THEN /\ requests' = Put([Head(requests) EXCEPT !.state = "Presenting"])
          /\ Go(Present, "pop")
          /\ UNCHANGED <<port, cpu, cancelled, processing, sleep, free, work, arg, nextId,
                         shown, failed>>
     ELSE Fail("front")

\* Seeded defect: the pending number counts the queue before the removal.
FlipPopsStale ==
  /\ pc[Present] = "pop" /\ IsFront("Presenting")
  /\ requests' = Tail(requests)
  /\ shown' = Append(shown, Head(requests).id)
  /\ pending' = Total
  /\ gc' = IF Head(requests).source = "GpuEop" /\ gc > 0 THEN gc - 1 ELSE gc
  /\ free' = free + 1
  /\ processing' = FALSE
  /\ doneWait' = {} /\ slotWait' = {}
  /\ Go(Present, "vblank")
  /\ UNCHANGED <<opened, closing, gen, rate, count, registered, cpu, cancelled, work, arg,
                 nextId, failed>>

\* Presented: the frame is back in the pool, the request leaves the queue,
\* the status is updated and everyone is told.
FlipPops ==
  /\ pc[Present] = "pop"
  /\ IF IsFront("Presenting")
     THEN /\ requests' = Tail(requests)
          /\ shown' = Append(shown, Head(requests).id)
          /\ pending' = Total - 1
          /\ gc' = IF Head(requests).source = "GpuEop" /\ gc > 0 THEN gc - 1 ELSE gc
          /\ free' = free + 1
          /\ processing' = FALSE
          /\ doneWait' = {} /\ slotWait' = {}
          /\ Go(Present, "vblank")
          /\ UNCHANGED <<opened, closing, gen, rate, count, registered, cpu, cancelled,
                         work, arg, nextId, failed>>
     ELSE Fail("front")

\* Nothing was shown: a late loop shows a blank frame if no port is open.
PresentLate ==
  /\ pc[Present] = "late" /\ DriverFree /\ ~opened
  /\ PresentGoes("blank") /\ UNCHANGED <<processing, sleep>>

\* The blank frame is taken from the pool, presented and given back.
PresentBlank ==
  /\ pc[Present] = "blank" /\ free > 0
  /\ PresentGoes("vblank") /\ UNCHANGED <<processing, sleep>>

\* VblankEnd, and VblankBegin of the next round.
Vblank ==
  /\ pc[Present] \in {"late", "vblank"} /\ DriverFree
  /\ count' = IF opened THEN (count + 1) % Cycle ELSE count
  /\ Go(Present, "flip")
  /\ front' = NoFront /\ UNCHANGED <<call, packet>>
  /\ UNCHANGED <<opened, closing, gen, rate, registered, pending, gc, lists, sleep, free,
                 work, nextId, shown, failed>>

-----------------------------------------------------------------------------
\* What a guest thread does once a call has begun.
GuestStep(g) ==
  \/ CancelWaits(g) \/ Cancel(g) \/ CloseReturns(g)
  \/ SubmitFlip(g) \/ SubmitFlipPreparation(g) \/ SetFlipRate(g) \/ ChangeBuffers(g)

GuestCalls ==
  \/ \E g \in Controllers : Open(g) \/ Close(g)
  \/ \E g \in Submitters, c \in Calls : Get(g, c)

Packets == \E i \in Indices : StartPacket(i, "get") \/ StartPacket(i, "getwait")

GpuSteps ==
  \/ TakeJob \/ GpuGets \/ GpuReserves \/ WaitForSubmitSlot \/ WaitFlipDone
  \/ PrepareStarts \/ PrepareChecks \/ PrepareCuts \/ PrepareFrame \/ PrepareStores
  \/ Prepared

PresentSteps ==
  \/ FlipLooks \/ FlipTests \/ FlipUndoes \/ FlipShows \/ FlipPops
  \/ PresentLate \/ PresentBlank \/ Vblank

Next ==
  /\ failed = "none"
  /\ \/ GuestCalls \/ \E g \in Guests : GuestStep(g)
     \/ Packets \/ GpuSteps \/ EndOfPipe \/ PresentSteps

\* The threads run, the GPU reaches the end of the pipe, and a call that
\* has begun goes on; nobody has to call, and no packet has to arrive.
Fairness ==
  /\ \A g \in Guests : WF_vars(failed = "none" /\ GuestStep(g))
  /\ WF_vars(failed = "none" /\ GpuSteps)
  /\ WF_vars(failed = "none" /\ EndOfPipe)
  /\ WF_vars(failed = "none" /\ PresentSteps)

Spec == Init /\ [][Next]_vars /\ Fairness

-----------------------------------------------------------------------------
(* Properties.                                                             *)

\* No interleaving of Close with Prepare, Complete and Flip reaches one of
\* the EXITs by which the queue checks itself.
QueueStaysConsistent == failed \notin Internal

\* While the port is open flip_status tells the truth: flipPendingNum is
\* the number of flips not shown, gcQueueNum those of the GPU.
StatusExact ==
  opened => /\ pending = Total
            /\ gc = Cardinality({r \in Queued : r.source = "GpuEop"})

\* Frames that a thread has taken off the pool or a request and not yet put
\* elsewhere.
InHand == (IF pc[Gpu] = "store" THEN 1 ELSE 0)
            + (IF \E g \in Guests : pc[g] = "discard"
               THEN call[CHOOSE g \in Guests : pc[g] = "discard"].n ELSE 0)

\* No frame of the pool is lost or given back twice, whatever Close cancels
\* between PrepareFrame and Complete.
FramesAccounted ==
  free + HeldBy(Queued) + HeldBy(cpu) + HeldBy(cancelled) + InHand = Pool

QueueIds == [i \in DOMAIN requests |-> requests[i].id]

Service == INSTANCE FlipService WITH
  Flips <- 1..ReqMax,
  open <- opened,
  reserved <- IF opened THEN Ids(cpu) ELSE {},
  queue <- IF opened THEN QueueIds ELSE <<>>,
  issued <- 1..(nextId - 1)

\* The queue of the open port is what FlipService promises: Flip shows each
\* flip at most once, in the order of m_requests, and never after Close.
ImplementsFlipService == Service!Spec

\* SetFlipRate never leaves a closed port with a rate, which Open asserts.
PortReopens == failed # "flip_rate"

\* The present thread waits for a frame that the flips of the port hold.
Starved == pc[Present] = "blank" /\ free = 0

\* The GPU thread waits for a flip whose preparation is queued behind its
\* own wait.
BehindItself ==
  pc[Gpu] = "flipwait" /\ \E r \in cpu : r.index = packet.index

\* Every Close returns although it waits for the present thread under the
\* driver's lock, the GPU thread gets its slot, its frame and its finished
\* flip, and every flip that is ready is shown or cancelled whatever flip
\* rate is set; but for the two waits above and for an EXIT.
WorkDrains ==
  /\ []<>(failed # "none" \/ DriverFree)
  /\ []<>(failed # "none" \/ Starved \/ BehindItself \/ pc[Gpu] = "idle")
  /\ []<>(failed # "none" \/ Starved \/ requests = <<>> \/ Head(requests).state # "Ready")

=============================================================================
