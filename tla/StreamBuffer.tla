----------------------------- MODULE StreamBuffer -----------------------------
(***************************************************************************)
(* StreamBuffer: a ring of mapped memory the recording thread fills with   *)
(* data for the GPU, or lets the GPU fill for it.  Each Commit notes, as a *)
(* watch, up to where the tick being recorded uses the ring; Map hands out *)
(* the next range, after a wait for the watches of the previous lap that   *)
(* lie in it.                                                              *)
(*                                                                         *)
(* One thread calls Map and Commit; the GPU and, for a download buffer,    *)
(* the scheduler's priority thread go on beside it.  A range that is       *)
(* mapped and not committed is given up: ObtainBuffer does so when the     *)
(* guest memory cannot be read.                                            *)
(*                                                                         *)
(* The arrays of watches are sequences of the entries below their cursor   *)
(* or mark.  Not in the code are watched, used and committed.  The caller  *)
(* records the commands that use a range after its Commit (ObtainBuffer,   *)
(* UploadTransient and ObtainBufferForImage return first), in the tick     *)
(* that is then being recorded: other Maps and submissions may come in     *)
(* between.  RecordDownloads records them before, in the same tick.        *)
(***************************************************************************)
EXTENDS GpuTimeline, Sequences, FiniteSets

CONSTANTS
  Size,          \* Size() of the ring
  Sizes,         \* sizes asked of Map, after NormalizeReservation
  Alignments,    \* alignments asked of Map, after NormalizeReservation
  StreamTickMax, \* bound: ticks submitted
  UnrecordedMax  \* bound: ranges committed whose commands are to be recorded

ASSUME StreamAssumption ==
  /\ Size \in Nat \ {0}
  /\ Sizes \subseteq Nat
  /\ Alignments \subseteq Nat \ {0}
  /\ StreamTickMax \in Nat
  /\ UnrecordedMax \in Nat \ {0}

VARIABLES
  download,              \* Usage() == MemoryUsage::Download
  offset, mappedSize,    \* m_offset, m_mapped_size
  current,               \* m_current_watches below m_current_watch_cursor
  previous,              \* m_previous_watches below m_invalidation_mark
  waitCursor, waitBound, \* m_wait_cursor, m_wait_bound
  call,                  \* Map under way: its local variables
  mapped,                \* the last Map has been given a range, not committed
  served,                \* priority operations up to this tick have returned
  watched,               \* tick of the last Commit of each unit of the ring
  used,                  \* last tick whose commands use each unit
  committed              \* ranges committed whose commands are to be recorded

ring == <<offset, mappedSize, current, previous, waitCursor, waitBound>>
uses == <<watched, used, committed>>
streamVars == <<timeline, download, ring, call, mapped, served, uses>>

Units == 0..(Size - 1)
Watch == [tick : Nat, upper : 0..Size]
Use == [tick : Nat, first : 0..Size, end : 0..Size]

NoCall == [pc |-> "none", wrap |-> FALSE, at |-> 0, size |-> 0,
           cursor |-> 0, bound |-> 0, mayWait |-> FALSE]

StreamTypeOK ==
  /\ TimelineType
  /\ download \in BOOLEAN
  /\ offset \in 0..Size /\ mappedSize \in 0..Size
  /\ current \in Seq(Watch) /\ previous \in Seq(Watch)
  /\ waitCursor \in 0..Len(previous) /\ waitBound \in 0..Size
  /\ call \in [pc : {"none", "wait", "served"}, wrap : BOOLEAN, at : 0..Size,
               size : 0..Size, cursor : Nat, bound : 0..Size, mayWait : BOOLEAN]
  /\ mapped \in BOOLEAN
  /\ served \in Nat
  /\ watched \in [Units -> Nat] /\ used \in [Units -> Nat]
  /\ committed \subseteq Use

StreamInit ==
  /\ TimelineInit
  /\ download \in BOOLEAN
  /\ offset = 0 /\ mappedSize = 0
  /\ current = <<>> /\ previous = <<>>
  /\ waitCursor = 0 /\ waitBound = 0
  /\ call = NoCall /\ mapped = FALSE
  /\ served = 0
  /\ watched = [i \in Units |-> 0] /\ used = [i \in Units |-> 0]
  /\ committed = {}

-----------------------------------------------------------------------------
AlignUp(value, alignment) == ((value + alignment - 1) \div alignment) * alignment

\* CommandScheduler::IsFree reads the counter again before it says no.
Passed(t) == gpu >= t

\* The units of a range committed, and of the range handed out.
UnitsOf(r) == r.first..(r.end - 1)
MappedUnits == offset..(offset + mappedSize - 1)

\* The watches a Map has to look at: those of the lap it leaves if it wraps.
Pending == IF call.wrap THEN current ELSE previous

\* The loop of WaitPendingOperations has another watch to wait for.
More == call.at + call.size > call.bound /\ call.cursor < Len(Pending)

\* Map computes the range and starts WaitPendingOperations with copies of the
\* cursor and the bound.
Map(size, alignment, mayWait) ==
  /\ call.pc = "none" /\ size <= Size
  /\ tick < StreamTickMax /\ Cardinality(committed) < UnrecordedMax
  /\ LET aligned == AlignUp(offset, alignment)
         wrap    == aligned > Size - size
     IN call' = [pc |-> "wait", wrap |-> wrap, at |-> IF wrap THEN 0 ELSE aligned,
                 size |-> size, mayWait |-> mayWait,
                 cursor |-> IF wrap THEN 0 ELSE waitCursor,
                 bound |-> IF wrap THEN 0 ELSE waitBound]
  /\ mapped' = FALSE
  /\ UNCHANGED <<timeline, ring, served, uses, download>>

\* Map refuses a size that does not fit into the ring at all.
MapRefused(size) == call.pc = "none" /\ size > Size /\ UNCHANGED streamVars

\* The watch at the cursor is not free and the caller does not want to wait:
\* Map returns nothing and keeps nothing.
MapFails ==
  /\ call.pc = "wait" /\ More /\ ~call.mayWait
  /\ ~Passed(Pending[call.cursor + 1].tick)
  /\ call' = NoCall
  /\ UNCHANGED <<timeline, ring, mapped, served, uses, download>>

\* Seeded defect: the tick being recorded is waited for and not submitted.
WaitSubmitsNot ==
  /\ call.pc = "wait" /\ More
  /\ call.mayWait /\ Pending[call.cursor + 1].tick = tick
  /\ UNCHANGED streamVars

\* Scheduler().Wait of the tick being recorded submits it (FinishCurrent).
WaitSubmits ==
  /\ call.pc = "wait" /\ More
  /\ call.mayWait /\ Pending[call.cursor + 1].tick = tick
  /\ NextTick
  /\ UNCHANGED <<ring, call, mapped, served, uses, download>>

\* The local cursor and bound move past the watch.
PassWatch ==
  call' = [call EXCEPT !.pc = "wait", !.cursor = @ + 1,
                       !.bound = Pending[call.cursor + 1].upper]

\* The GPU has passed the watch; for a download buffer its priority
\* operations have to return too.
WatchFree ==
  /\ call.pc = "wait" /\ More
  /\ Pending[call.cursor + 1].tick < tick
  /\ Passed(Pending[call.cursor + 1].tick)
  /\ IF download THEN call' = [call EXCEPT !.pc = "served"] ELSE PassWatch
  /\ UNCHANGED <<timeline, ring, mapped, served, uses, download>>

\* WaitPriorityOperations of the watch returns.
WatchServed ==
  /\ call.pc = "served"
  /\ served >= Pending[call.cursor + 1].tick
  /\ PassWatch
  /\ UNCHANGED <<timeline, ring, mapped, served, uses, download>>

\* Seeded defect: the watches of the lap that ends are forgotten at the wrap.
MapReturnsForgetful ==
  /\ call.pc = "wait" /\ ~More
  /\ previous' = IF call.wrap THEN <<>> ELSE previous
  /\ current' = IF call.wrap THEN <<>> ELSE current
  /\ waitCursor' = (IF call.wrap THEN 0 ELSE call.cursor) /\ waitBound' = call.bound
  /\ offset' = call.at /\ mappedSize' = call.size
  /\ call' = NoCall /\ mapped' = TRUE
  /\ UNCHANGED <<timeline, served, uses, download>>

\* Map stores its locals; at a wrap the lists of watches change places.
MapReturns ==
  /\ call.pc = "wait" /\ ~More
  /\ previous' = Pending
  /\ current' = IF call.wrap THEN <<>> ELSE current
  /\ waitCursor' = call.cursor /\ waitBound' = call.bound
  /\ offset' = call.at /\ mappedSize' = call.size
  /\ call' = NoCall /\ mapped' = TRUE
  /\ UNCHANGED <<timeline, served, uses, download>>

\* Commit: the watch of the range is for the tick being recorded; it joins the
\* last one if that has the same tick.
Commit ==
  /\ call.pc = "none" /\ mapped
  /\ LET end   == offset + mappedSize
         watch == [tick |-> tick, upper |-> end]
         merge == current # <<>> /\ current[Len(current)].tick = tick
     IN /\ current' = IF merge THEN [current EXCEPT ![Len(current)] = watch]
                               ELSE Append(current, watch)
        /\ watched' = [i \in Units |-> IF i \in MappedUnits THEN tick ELSE watched[i]]
        /\ committed' = committed \cup {[tick |-> tick, first |-> offset, end |-> end]}
        /\ offset' = end
  /\ mapped' = FALSE
  /\ UNCHANGED <<timeline, mappedSize, previous, waitCursor, waitBound, call, served, download, used>>

\* The caller records the commands that use a range it has committed.
RecordUse(r) ==
  /\ call.pc = "none" /\ r \in committed
  /\ used' = [i \in Units |-> IF i \in UnitsOf(r) THEN tick ELSE used[i]]
  /\ committed' = committed \ {r}
  /\ UNCHANGED <<timeline, ring, call, mapped, served, download, watched>>

\* Some other part of the renderer submits what is recorded.
SubmitElsewhere ==
  /\ call.pc = "none" /\ tick < StreamTickMax
  /\ NextTick
  /\ UNCHANGED <<ring, call, mapped, served, uses, download>>

DeviceSignals == GpuSignals /\ UNCHANGED <<ring, call, mapped, served, uses, download>>

\* The priority thread has run the operations of one more tick.
PriorityThread ==
  /\ served < gpu
  /\ served' = served + 1
  /\ UNCHANGED <<timeline, ring, call, mapped, uses, download>>

StreamNext ==
  \/ \E s \in Sizes, a \in Alignments, w \in BOOLEAN : Map(s, a, w)
  \/ \E s \in Sizes : MapRefused(s)
  \/ MapFails \/ WaitSubmits \/ WatchFree \/ WatchServed \/ MapReturns
  \/ Commit \/ (\E r \in committed : RecordUse(r))
  \/ SubmitElsewhere \/ DeviceSignals \/ PriorityThread

StreamFairness ==
  /\ WF_streamVars(MapFails \/ WaitSubmits \/ WatchFree \/ WatchServed \/ MapReturns)
  /\ WF_streamVars(DeviceSignals)
  /\ WF_streamVars(PriorityThread)

StreamSpec == StreamInit /\ [][StreamNext]_streamVars /\ StreamFairness

-----------------------------------------------------------------------------
\* A tick after which nobody uses a range that the tick used.
Finished(t) == t <= gpu /\ (download => t <= served)

\* The range Map has handed out is not used by commands the GPU has still to
\* finish, nor read by a download's callback, nor about to be used by commands
\* of the tick being recorded, whatever laps, failed maps and ranges given up
\* came before (Map, WaitPendingOperations).  Excepted is a range committed in
\* a tick before the one its commands were recorded in: its watch is for the
\* tick of the Commit, and the code has no other (ObtainBuffer returns, then
\* CommandScheduler::Wait moves the tick, then the draw is recorded).
MappedRangeIsFree ==
  mapped => /\ \A i \in MappedUnits : Finished(used[i]) \/ used[i] > watched[i]
            /\ \A r \in committed : r.tick = tick => UnitsOf(r) \cap MappedUnits = {}

\* A Map that may wait comes back, also one that has to submit the commands
\* it is called for (WaitPendingOperations, CommandScheduler::Wait).
MapReturnsEventually == (call.pc # "none") ~> (call.pc = "none")
=============================================================================
