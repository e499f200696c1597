------------------------------- MODULE GpuThread -------------------------------
(***************************************************************************)
(* GpuState of graphics/guest_gpu/graphicsRun.cpp: the thread that runs    *)
(* the guest's command buffers, its queues, and the loop that interprets   *)
(* PM4 packets.                                                            *)
(*                                                                         *)
(* A packet that has to wait suspends the interpreter: the submission goes *)
(* back to the front of its queue, to be taken up again later, in the      *)
(* middle of nested indirect buffers if need be.  Guest threads submit     *)
(* buffers, have commands run on the thread and wait for them (a page      *)
(* fault, an unmap), wait for the thread to be idle (Done), and write the  *)
(* memory a packet waits for.                                              *)
(*                                                                         *)
(* Every critical section of m_queue_mutex is one action, and so is every  *)
(* packet.  m_submission_mutex is kept through the whole of Done.  agc.cpp *)
(* never submits a constant buffer, so its stream is left out: it is       *)
(* complete from the start.                                                *)
(***************************************************************************)
EXTENDS Naturals, Sequences, FiniteSets, SequencesExt

CONSTANTS
  Guests,      \* guest threads
  Queues,      \* 0..QueueCount-1; queue 0 is the graphics queue
  Buffers,     \* the packets [op, arg] of each buffer
  Programs,    \* what can be submitted, see NewSub
  Labels,      \* memory that packets wait for
  GuestLabels, \* what of it the guest writes; packets write the rest
  SubMax,      \* bound: submissions
  CallMax      \* bound: calls of Done and commands sent

Ops == {"draw", "write", "wait", "call"}

\* No buffer calls itself, not even through others: calls go down some ranking.
CallsEnd ==
  \E rank \in [DOMAIN Buffers -> 0..Cardinality(DOMAIN Buffers)] :
    \A b \in DOMAIN Buffers : \A i \in DOMAIN Buffers[b] :
      Buffers[b][i].op = "call" =>
        Buffers[b][i].arg \in DOMAIN Buffers /\ rank[Buffers[b][i].arg] < rank[b]

\* A flip preparation has no buffer; it joins the graphics queue.
ASSUME GpuThreadAssumption ==
  /\ IsFiniteSet(Queues) /\ 0 \in Queues /\ Queues = 0..(Cardinality(Queues) - 1)
  /\ IsFiniteSet(DOMAIN Buffers) /\ CallsEnd
  /\ \A b \in DOMAIN Buffers :
       /\ Buffers[b] \in Seq(ToSet(Buffers[b]))
       /\ \A i \in DOMAIN Buffers[b] :
            /\ Buffers[b][i].op \in Ops
            /\ Buffers[b][i].op = "write" => Buffers[b][i].arg \in Labels
  /\ \A p \in DOMAIN Programs :
       /\ Programs[p].queue \in Queues
       /\ Programs[p].type \in {"graphics", "compute", "flip"}
       /\ Programs[p].queue = 0 <=> Programs[p].type # "compute"
       /\ Programs[p].type = "flip" \/ Programs[p].buf \in DOMAIN Buffers
  /\ GuestLabels \subseteq Labels
  /\ SubMax \in Nat /\ CallMax \in Nat

VARIABLES
  queues,       \* m_queues: per queue, its submissions
  commands,     \* m_commands: who sent them and what they do
  nextQueue,    \* m_next_queue
  processing,   \* m_processing
  stopping,     \* m_stopping, and not m_accepting
  idlers,       \* guest threads asleep on m_idle
  gpc,          \* where the thread is
  task,         \* the submission or the command in work
  run,          \* the state of the interpreter's pass over it
  work,         \* draws recorded and not yet submitted, submitted and unfinished
  labels,       \* the labels written
  fresh,        \* m_graphics_done
  guest,        \* where each guest thread is
  accepted,     \* history: per queue, the programs submitted, each with the
                \* packets due by its end
  trace,        \* history: per queue, the packets that took effect
  calls         \* calls made, for the bound

locked  == <<queues, commands, nextQueue, processing, stopping, idlers>>
engine  == <<run, work, labels, trace>>
gpuVars == <<locked, gpc, task, engine, fresh, guest, accepted, calls>>

Nothing == [kind |-> "nothing"]
NoRun   == [base |-> 0, made |-> FALSE, progressed |-> FALSE]

\* A submission of program p.  stack is m_buffer_stack, innermost buffer last;
\* a cursor's deferred is deferred_advance_dw # 0.
NewSub(p) ==
  [kind |-> "sub", prog |-> p, started |-> FALSE, blocked |-> FALSE,
   reset |-> (Programs[p].queue = 0 /\ fresh), stack |-> <<>>]

Cursor  == [buf : DOMAIN Buffers, pos : Nat \ {0}, deferred : BOOLEAN]
Command == [kind : {"sync", "flush"}, from : Guests]

IsSub(x) == x.kind = "sub"
QueueOf(sub) == Programs[sub.prog].queue

GpuTypeOK ==
  /\ \A q \in Queues : \A i \in DOMAIN queues[q] :
       IsSub(queues[q][i]) /\ QueueOf(queues[q][i]) = q
  /\ commands \in Seq(Command) /\ nextQueue \in Queues
  /\ processing \in BOOLEAN /\ stopping \in BOOLEAN /\ idlers \subseteq Guests
  /\ gpc \in {"select", "asleep", "nap", "begin", "pass", "exec", "end", "finish",
              "command", "ran", "stopping", "stopped"}
  /\ IsSub(task) => task.stack \in Seq(Cursor)
  /\ work \in [recorded : BOOLEAN, submitted : BOOLEAN]
  /\ labels \subseteq Labels /\ fresh \in BOOLEAN
  /\ guest \in [Guests -> {"free", "answer", "idle", "send", "flush"}]

GpuInit ==
  /\ queues = [q \in Queues |-> <<>>] /\ commands = <<>>
  /\ nextQueue = 0 /\ processing = FALSE /\ stopping = FALSE /\ idlers = {}
  /\ gpc = "select" /\ task = Nothing
  /\ run = NoRun /\ work = [recorded |-> FALSE, submitted |-> FALSE] /\ labels = {}
  /\ trace = [q \in Queues |-> <<>>]
  /\ fresh = TRUE /\ guest = [g \in Guests |-> "free"]
  /\ accepted = [q \in Queues |-> <<>>] /\ calls = 0

-----------------------------------------------------------------------------
(* What the packets of a program come to.                                  *)

Places   == UNION {[buf : {b}, pos : 1..(Len(Buffers[b]) + 1)] : b \in DOMAIN Buffers}
EndOf(b) == [buf |-> b, pos |-> Len(Buffers[b]) + 1]

\* The packets of a buffer that lie before a place in it, with those of the
\* buffers they call.
Text[at \in Places] ==
  IF at.pos = 1 THEN <<>>
  ELSE LET last   == [at EXCEPT !.pos = @ - 1]
           packet == Buffers[last.buf][last.pos]
       IN  Text[last] \o IF packet.op = "call" THEN Text[EndOf(packet.arg)] ELSE <<packet>>

FlipPacket(p) == [op |-> "flip", arg |-> p]

FlatProgram ==
  [p \in DOMAIN Programs |->
     IF Programs[p].type = "flip" THEN <<FlipPacket(p)>> ELSE Text[EndOf(Programs[p].buf)]]

\* All that the programs submitted to a queue come to.
Ordered(q) == IF accepted[q] = <<>> THEN <<>> ELSE accepted[q][Len(accepted[q])].due

-----------------------------------------------------------------------------
(* Guest threads.                                                          *)

NoSubmissions == \A q \in Queues : queues[q] = <<>>
NoWork        == commands = <<>> /\ NoSubmissions

\* m_work_available.Signal: the thread, if asleep, looks again.
Wake == gpc' = IF gpc = "asleep" THEN "select" ELSE gpc

Goto(g, where) == guest' = [guest EXCEPT ![g] = where]

\* m_submission_mutex is free: nobody is in Done.
SubmissionFree == \A g \in Guests : guest[g] \in {"free", "answer"}

\* Submit, SubmitCompute and SubmitFlipPreparation, with Enqueue.  Only the
\* graphics queue looks at m_graphics_done.
Enqueue(g, p) ==
  LET q == Programs[p].queue IN
  /\ guest[g] = "free" /\ SubmissionFree /\ ~stopping
  /\ Len(FlattenSeq([i \in 1..Cardinality(Queues) |-> accepted[i - 1]])) < SubMax
  /\ queues' = [queues EXCEPT ![q] = Append(@, NewSub(p))]
  /\ fresh' = (fresh /\ q # 0)
  /\ LET new == [prog |-> p, due |-> Ordered(q) \o FlatProgram[p]]
     IN  accepted' = [accepted EXCEPT ![q] = Append(@, new)]
  /\ Wake
  /\ UNCHANGED <<commands, nextQueue, processing, stopping, idlers, task, engine, guest, calls>>

\* Seeded defect: the thread is not told.
SendQuietly(g, kind, where) ==
  /\ ~stopping /\ commands' = Append(commands, [kind |-> kind, from |-> g])
  /\ Goto(g, where) /\ gpc' = gpc
  /\ UNCHANGED <<queues, nextQueue, processing, stopping, idlers, task, engine, fresh, accepted>>

\* SendCommand; the sender goes on at `where', to wait for its answer.
Send(g, kind, where) ==
  /\ ~stopping
  /\ commands' = Append(commands, [kind |-> kind, from |-> g])
  /\ Goto(g, where) /\ Wake
  /\ UNCHANGED <<queues, nextQueue, processing, stopping, idlers, task, engine, fresh, accepted>>

\* SendCommandSync, from a page fault or an unmap.
SendCommandSync(g) ==
  /\ guest[g] = "free" /\ calls < CallMax /\ calls' = calls + 1
  /\ Send(g, "sync", "answer")

\* Done takes m_submission_mutex.
Done(g) ==
  /\ guest[g] = "free" /\ SubmissionFree /\ ~stopping /\ calls < CallMax
  /\ calls' = calls + 1 /\ Goto(g, "idle")
  /\ UNCHANGED <<locked, gpc, task, engine, fresh, accepted>>

\* Seeded defect: a submission in work is not seen, as it is in no queue.
IdleQueues == NoWork

\* The thread has nothing to do.
Idle == ~processing /\ NoWork

\* WaitForIdle, under m_queue_mutex.
WaitForIdle(g) ==
  /\ guest[g] = "idle" /\ g \notin idlers
  /\ IF Idle THEN Goto(g, "send") /\ idlers' = idlers
             ELSE idlers' = idlers \cup {g} /\ guest' = guest
  /\ UNCHANGED <<queues, commands, nextQueue, processing, stopping, gpc, task, engine, fresh,
                 accepted, calls>>

\* WaitLocked sends BufferWait to the thread, once it was idle.
SendFlush(g) == guest[g] = "send" /\ Send(g, "flush", "flush") /\ calls' = calls

\* A guest thread writes a label.
WriteLabel(l) ==
  /\ l \notin labels /\ labels' = labels \cup {l}
  /\ UNCHANGED <<locked, gpc, task, run, work, trace, fresh, guest, accepted, calls>>

\* Shutdown, when the guest's threads call no more: a call after it aborts.
GpuShutdown ==
  /\ ~stopping /\ \A g \in Guests : guest[g] = "free"
  /\ stopping' = TRUE /\ Wake
  /\ UNCHANGED <<queues, commands, nextQueue, processing, idlers, task, engine, fresh, guest,
                 accepted, calls>>

-----------------------------------------------------------------------------
(* The thread chooses its work, under m_queue_mutex.                       *)

\* The unblocked head that comes first from m_next_queue on.
Open(q)     == queues[q] # <<>> /\ ~Head(queues[q]).blocked
Distance(q) == (q + Cardinality(Queues) - nextQueue) % Cardinality(Queues)
Selected(q) == Open(q) /\ \A r \in Queues : Open(r) => Distance(q) <= Distance(r)

\* Every head may be tried again.
Unblocked(qs) ==
  [q \in Queues |-> IF qs[q] = <<>> THEN <<>>
                    ELSE [qs[q] EXCEPT ![1] = [Head(qs[q]) EXCEPT !.blocked = FALSE]]]

\* Nothing to do: m_idle.Signal, then sleep.
Rest ==
  /\ gpc = "select" /\ NoWork /\ ~stopping
  /\ processing' = FALSE /\ gpc' = "asleep"
  /\ IF idlers = {} THEN idlers' = {} ELSE \E g \in idlers : idlers' = idlers \ {g}
  /\ UNCHANGED <<queues, commands, nextQueue, stopping, task, engine, fresh, guest, accepted,
                 calls>>

Stop ==
  /\ gpc = "select" /\ NoWork /\ stopping
  /\ processing' = FALSE /\ idlers' = {} /\ gpc' = "stopping"
  /\ UNCHANGED <<queues, commands, nextQueue, stopping, task, engine, fresh, guest, accepted,
                 calls>>

\* Commands come before submissions.
TakeCommand ==
  /\ gpc = "select" /\ commands # <<>>
  /\ task' = Head(commands) /\ commands' = Tail(commands)
  /\ processing' = TRUE /\ gpc' = "command"
  /\ UNCHANGED <<queues, nextQueue, stopping, idlers, engine, fresh, guest, accepted, calls>>

TakeSubmission(q) ==
  /\ gpc = "select" /\ commands = <<>> /\ Selected(q)
  /\ task' = Head(queues[q]) /\ queues' = [queues EXCEPT ![q] = Tail(@)]
  /\ nextQueue' = (q + 1) % Cardinality(Queues)
  /\ processing' = TRUE /\ gpc' = "begin"
  /\ UNCHANGED <<commands, stopping, idlers, engine, fresh, guest, accepted, calls>>

\* Every head is blocked.
Nap ==
  /\ gpc = "select" /\ commands = <<>> /\ ~NoSubmissions /\ \A q \in Queues : ~Open(q)
  /\ processing' = FALSE /\ gpc' = "nap"
  /\ UNCHANGED <<queues, commands, nextQueue, stopping, idlers, task, engine, fresh, guest,
                 accepted, calls>>

\* Seeded defect: the heads stay blocked.
NapEndsBlocked ==
  /\ gpc = "nap" /\ gpc' = "select"
  /\ UNCHANGED <<locked, task, engine, fresh, guest, accepted, calls>>

\* The 100 microseconds are over, or somebody signalled m_work_available.
NapEnds ==
  /\ gpc = "nap" /\ gpc' = "select"
  /\ queues' = Unblocked(queues)
  /\ UNCHANGED <<commands, nextQueue, processing, stopping, idlers, task, engine, fresh, guest,
                 accepted, calls>>

-----------------------------------------------------------------------------
(* Work for the device.                                                    *)

Submitted == [recorded |-> FALSE, submitted |-> work.recorded \/ work.submitted]

\* BufferWait is over.  A slice that recorded something got on, and so ended
\* with a flush: BufferWait never finds anything left to submit.
Drained == ~work.recorded /\ ~work.submitted

DeviceFinishes ==
  /\ work.submitted /\ work' = [work EXCEPT !.submitted = FALSE]
  /\ UNCHANGED <<locked, gpc, task, run, labels, trace, fresh, guest, accepted, calls>>

-----------------------------------------------------------------------------
(* Commands and the end of the thread.                                     *)

\* The command runs and its sender is released; a Done then ends.  A fault or
\* an unmap submits and finishes what it records itself.
RunCommand ==
  /\ gpc = "command" /\ (task.kind = "flush" => Drained)
  /\ Goto(task.from, "free") /\ fresh' = (fresh \/ task.kind = "flush")
  /\ gpc' = "ran"
  /\ UNCHANGED <<locked, task, engine, accepted, calls>>

\* m_processing is cleared; m_idle.SignalAll when nothing is left.
Rested(noWork) ==
  /\ processing' = FALSE /\ idlers' = IF noWork THEN {} ELSE idlers

EndCommand ==
  /\ gpc = "ran" /\ Rested(NoWork)
  /\ gpc' = "select" /\ task' = Nothing
  /\ UNCHANGED <<queues, commands, nextQueue, stopping, engine, fresh, guest, accepted, calls>>

Exit ==
  /\ gpc = "stopping" /\ Drained /\ gpc' = "stopped"
  /\ UNCHANGED <<locked, task, engine, fresh, guest, accepted, calls>>

-----------------------------------------------------------------------------
(* A slice of a submission: GpuState::Process.                             *)

Type == Programs[task.prog].type

\* The first slice resets the processor if a Done came before it.
Begin ==
  /\ gpc = "begin" /\ (~task.started /\ task.reset => Drained)
  /\ task' = [task EXCEPT !.started = TRUE]
  /\ run' = NoRun
  /\ gpc' = IF Type = "flip" THEN "exec" ELSE "pass"
  /\ UNCHANGED <<locked, work, labels, trace, fresh, guest, accepted, calls>>

\* PrepareCpuFlip records, flushes and completes the flip.
PrepareCpuFlip ==
  /\ gpc = "exec" /\ IsSub(task) /\ Type = "flip"
  /\ work' = [recorded |-> FALSE, submitted |-> TRUE]
  /\ trace' = [trace EXCEPT ![0] = Append(@, FlipPacket(task.prog))]
  /\ gpc' = "finish"
  /\ UNCHANGED <<locked, task, run, labels, fresh, guest, accepted, calls>>

\* CommandProcessor::Process: the first pass enters the buffer.  base is the
\* cursor that the outer loop of ProcessPm4 works on; the cursors from there on
\* belong to calls of ProcessIndirectBuffer under way.
EnterPass ==
  /\ gpc = "pass"
  /\ LET stack == IF task.stack = <<>>
                  THEN <<[buf |-> Programs[task.prog].buf, pos |-> 1, deferred |-> FALSE]>>
                  ELSE task.stack
     IN  /\ task' = [task EXCEPT !.stack = stack]
         /\ run' = [run EXCEPT !.base = Len(stack), !.made = FALSE]
  /\ gpc' = "exec"
  /\ UNCHANGED <<locked, work, labels, trace, fresh, guest, accepted, calls>>

\* The loop's end after a pass: graphics goes round again while it gets on.
EndPass ==
  /\ gpc = "end"
  /\ run' = [run EXCEPT !.progressed = @ \/ run.made]
  /\ IF Type = "graphics" /\ task.stack # <<>> /\ run.made
     THEN gpc' = "pass" /\ work' = work
     ELSE gpc' = "finish" /\ work' = IF run.progressed \/ run.made THEN Submitted ELSE work
  /\ UNCHANGED <<locked, task, labels, trace, fresh, guest, accepted, calls>>

\* Back under m_queue_mutex: a submission that waits is blocked and put back in
\* front, a complete one lets every head try again.
EndSlice ==
  LET q == QueueOf(task) complete == task.stack = <<>> IN
  /\ gpc = "finish"
  /\ queues' = IF complete THEN Unblocked(queues)
               ELSE [queues EXCEPT ![q] = <<[task EXCEPT !.blocked = TRUE]>> \o @]
  /\ Rested(complete /\ NoWork)
  /\ gpc' = "select" /\ task' = Nothing
  /\ UNCHANGED <<commands, nextQueue, stopping, engine, fresh, guest, accepted, calls>>

-----------------------------------------------------------------------------
(* ProcessPm4, one iteration at a time.                                    *)

Depth  == Len(task.stack)
Top    == task.stack[Depth]
Packet == Buffers[Top.buf][Top.pos]
InLoop == gpc = "exec" /\ IsSub(task) /\ Type # "flip"

\* The cursor at i is past its packet.
Past(stack, i) ==
  LET c == stack[i] IN [stack EXCEPT ![i] = [c EXCEPT !.pos = c.pos + 1, !.deferred = FALSE]]

AtPacket(op) ==
  /\ InLoop /\ task.stack # <<>> /\ ~Top.deferred
  /\ Top.pos <= Len(Buffers[Top.buf]) /\ Packet.op = op

\* The packet takes effect and the loop goes on behind it.
Advance ==
  /\ task' = [task EXCEPT !.stack = Past(@, Depth)]
  /\ run' = [run EXCEPT !.made = TRUE]
  /\ trace' = [trace EXCEPT ![QueueOf(task)] = Append(@, Packet)]
  /\ gpc' = gpc

\* Seeded defect: the calls under way are forgotten.
SuspendBare(stack) == stack

\* Every call under way leaves its packet to be passed over later.
SuspendPm4(stack) ==
  [i \in DOMAIN stack |->
     IF run.base <= i /\ i < Len(stack) THEN [stack[i] EXCEPT !.deferred = TRUE] ELSE stack[i]]

Draw ==
  /\ AtPacket("draw") /\ Advance /\ work' = [work EXCEPT !.recorded = TRUE]
  /\ UNCHANGED <<locked, labels, fresh, guest, accepted, calls>>

WriteData ==
  /\ AtPacket("write") /\ Advance /\ labels' = labels \cup {Packet.arg}
  /\ UNCHANGED <<locked, work, fresh, guest, accepted, calls>>

WaitRegMem ==
  /\ AtPacket("wait")
  /\ IF Packet.arg \in labels
     THEN Advance
     ELSE task' = [task EXCEPT !.stack = SuspendPm4(@)] /\ gpc' = "end" /\ UNCHANGED <<run, trace>>
  /\ UNCHANGED <<locked, work, labels, fresh, guest, accepted, calls>>

ProcessIndirectBuffer ==
  /\ AtPacket("call")
  /\ task' = [task EXCEPT !.stack = Append(@, [buf |-> Packet.arg, pos |-> 1, deferred |-> FALSE])]
  /\ UNCHANGED <<locked, gpc, engine, fresh, guest, accepted, calls>>

\* A cursor left by a suspension is moved past its packet.
DeferredAdvance ==
  /\ InLoop /\ task.stack # <<>> /\ Top.deferred
  /\ task' = [task EXCEPT !.stack = Past(@, Depth)]
  /\ run' = [run EXCEPT !.made = TRUE]
  /\ UNCHANGED <<locked, gpc, work, labels, trace, fresh, guest, accepted, calls>>

\* The innermost buffer is exhausted.  A call under way returns and moves the
\* cursor it was made from; otherwise the outer loop turns to the cursor below.
PopBuffer ==
  /\ InLoop /\ task.stack # <<>> /\ ~Top.deferred /\ Top.pos > Len(Buffers[Top.buf])
  /\ IF Depth > run.base
     THEN /\ task' = [task EXCEPT !.stack = Past(Front(@), Depth - 1)]
          /\ run' = [run EXCEPT !.made = TRUE]
     ELSE /\ task' = [task EXCEPT !.stack = Front(@)]
          /\ run' = [run EXCEPT !.base = @ - 1]
  /\ UNCHANGED <<locked, gpc, work, labels, trace, fresh, guest, accepted, calls>>

\* The stack is empty.
Complete ==
  /\ InLoop /\ task.stack = <<>> /\ gpc' = "end"
  /\ UNCHANGED <<locked, task, engine, fresh, guest, accepted, calls>>

-----------------------------------------------------------------------------
Thread ==
  \/ Rest \/ Stop \/ TakeCommand \/ (\E q \in Queues : TakeSubmission(q)) \/ Nap \/ NapEnds
  \/ RunCommand \/ EndCommand \/ Exit
  \/ Begin \/ PrepareCpuFlip \/ EnterPass \/ EndPass \/ EndSlice
  \/ Draw \/ WriteData \/ WaitRegMem \/ ProcessIndirectBuffer
  \/ DeferredAdvance \/ PopBuffer \/ Complete

GpuNext ==
  \/ Thread \/ DeviceFinishes \/ GpuShutdown \/ \E l \in GuestLabels : WriteLabel(l)
  \/ \E g \in Guests :
       \/ \E p \in DOMAIN Programs : Enqueue(g, p)
       \/ SendCommandSync(g) \/ Done(g) \/ WaitForIdle(g) \/ SendFlush(g)

\* The thread is scheduled, its naps end, the device finishes, and a guest
\* thread in Done gets on.  Nothing is assumed of what the guest starts or writes.
GpuFairness ==
  /\ WF_gpuVars(Thread) /\ WF_gpuVars(DeviceFinishes)
  /\ \A g \in Guests : WF_gpuVars(WaitForIdle(g)) /\ WF_gpuVars(SendFlush(g))

GpuSpec == GpuInit /\ [][GpuNext]_gpuVars /\ GpuFairness

-----------------------------------------------------------------------------
(* Properties                                                              *)

\* Each queue's packets take effect once each and in the order in which they
\* were submitted, however often a wait suspended the interpreter inside nested
\* buffers, and none is left out by the time the queue is empty.
ExecutedInOrder ==
  \A q \in Queues :
    /\ IsPrefix(trace[q], Ordered(q))
    /\ (queues[q] = <<>> /\ ~(IsSub(task) /\ QueueOf(task) = q)) => trace[q] = Ordered(q)

\* When Done returns, all that was submitted before has been executed and the
\* device has finished it, although commands of other threads come between.
DoneCovers ==
  [][\A g \in Guests : guest[g] = "flush" /\ guest'[g] = "free" =>
       Drained /\ \A q \in Queues : trace[q] = Ordered(q)]_gpuVars

\* A command is run even while every queue waits for memory that the very
\* sender of the command may have to write.
CommandAnswered == \A g \in Guests : guest[g] = "answer" ~> guest[g] = "free"

\* Labels that a submitted program writes.
WrittenBy ==
  [p \in DOMAIN Programs |->
     {l \in Labels : [op |-> "write", arg |-> l] \in ToSet(FlatProgram[p])}]

Promised == UNION {WrittenBy[a.prog] : a \in UNION {ToSet(accepted[q]) : q \in Queues}}

\* Once every label is written, or a submitted program is to write it, all ends:
\* the queues empty, Done returns, the thread goes to sleep or has stopped.  The
\* programs must not wait for one another in a circle.
WorkEnds ==
  Labels = labels \cup Promised /\ GuestLabels \subseteq labels ~>
    NoWork /\ gpc \in {"asleep", "stopped"} /\ \A g \in Guests : guest[g] = "free"
=============================================================================
