------------------------------ MODULE FlipService ------------------------------
(***************************************************************************)
(* What the flip queue of a video-out port promises its callers.  A flip   *)
(* is reserved, takes its place in one queue, and is shown from the front  *)
(* of that queue, at most once and only while the port it was reserved on  *)
(* stays open; closing the port drops every flip that was not shown.       *)
(***************************************************************************)
EXTENDS Naturals, Sequences, FiniteSets

CONSTANTS Flips, Capacity

VARIABLES
  open,      \* the port is open
  reserved,  \* flips of the processor that have no place in the queue yet
  queue,     \* flips in the order in which they will be shown
  shown,     \* flips shown, in order
  issued     \* every flip reserved so far

vars == <<open, reserved, queue, shown, issued>>

Init ==
  /\ open = FALSE
  /\ reserved = {} /\ queue = <<>> /\ shown = <<>> /\ issued = {}

Open == ~open /\ open' = TRUE /\ UNCHANGED <<reserved, queue, shown, issued>>

Close ==
  /\ open /\ open' = FALSE
  /\ reserved' = {} /\ queue' = <<>>
  /\ UNCHANGED <<shown, issued>>

\* A new flip, within the capacity: queued at once or only reserved.
Reserve(f) ==
  /\ open /\ f \notin issued /\ issued' = issued \union {f}
  /\ Len(queue) + Cardinality(reserved) < Capacity
  /\ \/ queue' = Append(queue, f) /\ UNCHANGED reserved
     \/ reserved' = reserved \union {f} /\ UNCHANGED queue
  /\ UNCHANGED <<open, shown>>

Place(f) ==
  /\ f \in reserved
  /\ reserved' = reserved \ {f} /\ queue' = Append(queue, f)
  /\ UNCHANGED <<open, shown, issued>>

Show ==
  /\ queue # <<>>
  /\ shown' = Append(shown, Head(queue)) /\ queue' = Tail(queue)
  /\ UNCHANGED <<open, reserved, issued>>

Next == Open \/ Close \/ Show \/ \E f \in Flips : Reserve(f) \/ Place(f)

Spec == Init /\ [][Next]_vars
=============================================================================
