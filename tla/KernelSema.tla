----------------------------- MODULE KernelSema -----------------------------
(***************************************************************************)
(* The kernel counting semaphore, KernelSemaPrivate in                     *)
(* kernel/semaphore.cpp, with the sceKernel*Sema calls on top of it.       *)
(*                                                                         *)
(* Every method runs under m_mutex.  The mutex is given up only while a    *)
(* waiter sleeps in WaitFor or dispatches guest signals, and while the     *)
(* destructor spins, so one action is one critical section.  Sleeping is   *)
(* bounded (10 ms for an infinite wait, the time left for a timed one),    *)
(* hence a queued thread may look at its record again at any moment; a     *)
(* look that finds nothing to do is a stuttering step.                     *)
(*                                                                         *)
(* A guest thread calls a semaphore only between its creation and the end  *)
(* of its deletion: the handle is a plain pointer.                         *)
(***************************************************************************)
EXTENDS Integers, Sequences, FiniteSets, SequencesExt

CONSTANTS
  Threads,        \* guest threads
  Counts,         \* <<initial, maximum>> pairs passed to KernelCreateSema
  NeedCounts,     \* arguments of KernelWaitSema and KernelPollSema
  SignalCounts,   \* arguments of KernelSignalSema, of either sign
  CancelCounts,   \* arguments of KernelCancelSema
  Priorities,     \* guest thread priorities; a smaller value is more urgent
  CountFloor      \* bound: the lowest count negative signals may reach

\* Counts are C ints and the sums the code forms stay in their range.
ASSUME SemaAssumption ==
  /\ Counts \subseteq Int \X Int
  /\ NeedCounts \subseteq Int /\ SignalCounts \subseteq Int
  /\ CancelCounts \subseteq Int /\ Priorities \subseteq Int
  /\ CountFloor \in Int

VARIABLES
  status,         \* m_status, or "None" while no object exists
  fifo,           \* m_fifo_order
  count,          \* m_count
  initCount,      \* m_init_count
  maxCount,       \* m_max_count
  queue,          \* m_waiting_threads
  waiter,         \* the WaitingThread record on each waiting thread's stack
  pc,             \* where each guest thread is
  ret,            \* code returned by the call that ended last
  ledger,         \* history: units supplied less units reported as taken
  owed            \* history: cancelled waits reported less ECANCELED returns

object  == <<status, fifo, initCount, maxCount>>
threads == <<queue, waiter, pc>>
vars    == <<object, count, threads, ret, ledger, owed>>

Results == {"Ok", "TimedOut", "Canceled", "Deleted", "InvalCount"}
Codes   == {"OK", "EINVAL", "ETIMEDOUT", "ECANCELED", "EACCES", "EBUSY"}

\* How long a call may block: KernelPollSema, a zero time, a time, no time.
Modes == {"poll", "zero", "timed", "infinite"}

Waiter == [need : NeedCounts \cup {0}, prio : Priorities \cup {0},
           ready : BOOLEAN, result : Results, timed : BOOLEAN]
NoWaiter == [need |-> 0, prio |-> 0, ready |-> FALSE,
             result |-> "TimedOut", timed |-> FALSE]

TypeOK ==
  /\ status \in {"None", "Set", "Deleted"}
  /\ fifo \in BOOLEAN
  /\ count \in Int /\ initCount \in Int /\ maxCount \in Int
  /\ queue \in Seq(Threads)
  /\ waiter \in [Threads -> Waiter]
  /\ pc \in [Threads -> {"run", "queued", "deleting"}]
  /\ ret \in Codes
  /\ ledger \in Int /\ owed \in Int

Init ==
  /\ status = "None" /\ fifo = FALSE
  /\ count = 0 /\ initCount = 0 /\ maxCount = 0
  /\ queue = <<>>
  /\ waiter = [t \in Threads |-> NoWaiter]
  /\ pc = [t \in Threads |-> "run"]
  /\ ret = "OK" /\ ledger = 0 /\ owed = 0

-----------------------------------------------------------------------------
(* Results and return codes                                                *)

\* KernelWaitSema's translation of a Result.
WaitCode(r) ==
  CASE r = "Ok"         -> "OK"
    [] r = "InvalCount" -> "EINVAL"
    [] r = "TimedOut"   -> "ETIMEDOUT"
    [] r = "Canceled"   -> "ECANCELED"
    [] r = "Deleted"    -> "EACCES"

\* KernelPollSema's translation: every refusal but a bad count is EBUSY.
PollCode(r) ==
  CASE r = "Ok" -> "OK" [] r = "InvalCount" -> "EINVAL" [] OTHER -> "EBUSY"

\* KernelSignalSema's and KernelCancelSema's translation.
UpdateCode(r) == IF r = "Ok" THEN "OK" ELSE "EINVAL"

CallCode(mode, r) == IF mode = "poll" THEN PollCode(r) ELSE WaitCode(r)

-----------------------------------------------------------------------------
(* The waiting queue                                                       *)

\* Seeded defect: the scan for the place compares the wrong way round.
InsertPosReversed(p) ==
  IF fifo
  THEN Len(queue) + 1
  ELSE CHOOSE k \in 1..Len(queue) + 1 :
         /\ \A i \in 1..k - 1 : waiter[queue[i]].prio >= p
         /\ k <= Len(queue) => waiter[queue[k]].prio < p

\* AddWaiter: at the end, or after every waiter at least as urgent.
InsertPos(p) ==
  IF fifo
  THEN Len(queue) + 1
  ELSE CHOOSE k \in 1..Len(queue) + 1 :
         /\ \A i \in 1..k - 1 : waiter[queue[i]].prio <= p
         /\ k <= Len(queue) => waiter[queue[k]].prio > p

\* RemoveWaiter.
QueueWithout(t) == RemoveAt(queue, CHOOSE k \in 1..Len(queue) : queue[k] = t)

\* The waiters not yet granted, cancelled or told of the deletion.
Pending == {t \in ToSet(queue) : ~waiter[t].ready}

\* The record of every thread of S is made ready with result r.
Mark(S, r) ==
  [t \in Threads |-> IF t \in S
                     THEN [waiter[t] EXCEPT !.ready = TRUE, !.result = r]
                     ELSE waiter[t]]

\* WakeWaiters serves the i-th waiter when left[i - 1] units remain before it.
Grants(left, i) ==
  /\ queue[i] \in Pending
  /\ waiter[queue[i]].need <= left[i - 1]

\* left[i] is m_count after the i-th iteration of WakeWaiters, started with c.
WakePass(left, c) ==
  /\ left[0] = c
  /\ \A i \in 1..Len(queue) :
       left[i] = IF Grants(left, i) THEN left[i - 1] - waiter[queue[i]].need
                                    ELSE left[i - 1]

\* The values m_count may take during a pass started with c.
PassRange(c) == (IF c < 0 THEN c ELSE 0)..(IF c < 0 THEN 0 ELSE c)

-----------------------------------------------------------------------------
(* Calls                                                                   *)

Calling(t) == pc[t] = "run" /\ status # "None"

\* KernelCreateSema: attribute 1 is first-come first-served.
Create(t, c, first) ==
  /\ pc[t] = "run" /\ status = "None"
  /\ IF c[1] < 0 \/ c[2] <= 0 \/ c[1] > c[2]
     THEN /\ ret' = "EINVAL"
          /\ UNCHANGED <<object, count, threads, ledger, owed>>
     ELSE /\ status' = "Set" /\ fifo' = first
          /\ count' = c[1] /\ initCount' = c[1] /\ maxCount' = c[2]
          /\ ret' = "OK" /\ ledger' = c[1] /\ owed' = 0
          /\ UNCHANGED threads

\* A Wait or Poll that returns without blocking.
Refuse(t, n, mode) ==
  /\ Calling(t)
  /\ \/ /\ n < 1 \/ n > maxCount
        /\ ret' = CallCode(mode, "InvalCount")
     \/ /\ n \in 1..maxCount /\ status = "Deleted"
        /\ ret' = CallCode(mode, "Deleted")
     \/ /\ n \in 1..maxCount /\ status = "Set"
        /\ count < n /\ mode \in {"poll", "zero"}
        /\ ret' = CallCode(mode, "TimedOut")
  /\ UNCHANGED <<object, count, threads, ledger, owed>>

\* The fast path: enough units, whoever else may be queued.
Take(t, n, mode) ==
  /\ Calling(t) /\ status = "Set" /\ n \in 1..maxCount /\ count >= n
  /\ count' = count - n
  /\ ledger' = ledger - n
  /\ ret' = CallCode(mode, "Ok")
  /\ UNCHANGED <<object, threads, owed>>

\* Not enough units: queue a record and sleep.
Enqueue(t, n, p, mode) ==
  /\ Calling(t) /\ status = "Set" /\ n \in 1..maxCount /\ count < n
  /\ mode \in {"timed", "infinite"}
  /\ LET prio == IF fifo THEN 0 ELSE p
     IN  /\ queue' = InsertAt(queue, InsertPos(prio), t)
         /\ waiter' = [waiter EXCEPT ![t] =
              [need |-> n, prio |-> prio, ready |-> FALSE,
               result |-> "TimedOut", timed |-> (mode = "timed")]]
  /\ pc' = [pc EXCEPT ![t] = "queued"]
  /\ UNCHANGED <<object, count, ret, ledger, owed>>

\* The record leaves the queue and the call returns r.
Leave(t, r) ==
  /\ queue' = QueueWithout(t)
  /\ waiter' = [waiter EXCEPT ![t] = NoWaiter]
  /\ pc' = [pc EXCEPT ![t] = "run"]
  /\ ret' = WaitCode(r)
  /\ ledger' = IF r = "Ok" THEN ledger - waiter[t].need ELSE ledger
  /\ owed' = IF r = "Canceled" THEN owed - 1 ELSE owed
  /\ UNCHANGED <<object, count>>

\* Seeded defect: the loop is left for a grant or a cancel only.
ResumeUnlessDeleted(t) ==
  /\ pc[t] = "queued" /\ waiter[t].ready /\ waiter[t].result # "Deleted"
  /\ Leave(t, waiter[t].result)

\* The waiter finds its record ready.
Resume(t) ==
  /\ pc[t] = "queued" /\ waiter[t].ready
  /\ Leave(t, waiter[t].result)

\* Seeded defect: the deadline is looked at before the record.
TimeOutFirst(t) ==
  /\ pc[t] = "queued" /\ waiter[t].timed
  /\ Leave(t, "TimedOut")

\* The waiter finds its time used up and its record not ready.
TimeOut(t) ==
  /\ pc[t] = "queued" /\ waiter[t].timed /\ ~waiter[t].ready
  /\ Leave(t, "TimedOut")

\* Seeded defect: units are added and nobody in the queue is served.
SignalNoWake(t, n) ==
  /\ Calling(t) /\ status = "Set" /\ count + n \in CountFloor..maxCount
  /\ count' = count + n
  /\ ret' = "OK" /\ ledger' = ledger + n
  /\ UNCHANGED <<object, threads, owed>>

Signal(t, n) ==
  /\ Calling(t)
  /\ IF status = "Deleted" \/ count + n > maxCount
     THEN /\ ret' = UpdateCode(IF status = "Deleted" THEN "Deleted"
                                                     ELSE "InvalCount")
          /\ UNCHANGED <<object, count, threads, ledger, owed>>
     ELSE /\ count + n >= CountFloor
          /\ \E left \in [0..Len(queue) -> PassRange(count + n)] :
               /\ WakePass(left, count + n)
               /\ count' = left[Len(queue)]
               /\ waiter' = Mark({queue[i] : i \in {j \in 1..Len(queue) :
                                                      Grants(left, j)}}, "Ok")
          /\ ret' = UpdateCode("Ok") /\ ledger' = ledger + n
          /\ UNCHANGED <<object, queue, pc, owed>>

\* Seeded defect: the number reported includes waiters already released.
CanceledAll == Len(queue)

\* What KernelCancelSema stores through num_waiting_threads.
CanceledCount == Cardinality(Pending)

Cancel(t, n) ==
  /\ Calling(t)
  /\ IF n > maxCount \/ status = "Deleted"
     THEN /\ ret' = UpdateCode(IF n > maxCount THEN "InvalCount" ELSE "Deleted")
          /\ UNCHANGED <<object, count, threads, ledger, owed>>
     ELSE /\ count' = (IF n < 0 THEN initCount ELSE n)
          /\ waiter' = Mark(Pending, "Canceled")
          /\ owed' = owed + CanceledCount
          /\ ledger' = ledger + (count' - count)
          /\ ret' = UpdateCode("Ok")
          /\ UNCHANGED <<object, queue, pc>>

\* KernelDeleteSema up to the destructor's second spin.
DeleteBegin(t) ==
  /\ Calling(t) /\ status = "Set"
  /\ status' = "Deleted"
  /\ waiter' = Mark(Pending, "Deleted")
  /\ pc' = [pc EXCEPT ![t] = "deleting"]
  /\ UNCHANGED <<fifo, initCount, maxCount, count, queue, ret, ledger, owed>>

\* The second spin ends: the queue is empty and the object is freed.
DeleteEnd(t) ==
  /\ pc[t] = "deleting" /\ queue = <<>>
  /\ status' = "None"
  /\ pc' = [pc EXCEPT ![t] = "run"]
  /\ ret' = "OK"
  /\ UNCHANGED <<fifo, initCount, maxCount, count, queue, waiter, ledger, owed>>

Next ==
  \E t \in Threads :
    \/ \E c \in Counts, first \in BOOLEAN : Create(t, c, first)
    \/ \E n \in NeedCounts, mode \in Modes : Refuse(t, n, mode)
    \/ \E n \in NeedCounts, mode \in Modes : Take(t, n, mode)
    \/ \E n \in NeedCounts, p \in Priorities, mode \in Modes :
         Enqueue(t, n, p, mode)
    \/ Resume(t)
    \/ TimeOut(t)
    \/ \E n \in SignalCounts : Signal(t, n)
    \/ \E n \in CancelCounts : Cancel(t, n)
    \/ DeleteBegin(t)
    \/ DeleteEnd(t)

\* The 10 ms poll and the timed sleeps end; the destructor's spin looks again.
Fairness ==
  \A t \in Threads : WF_vars(Resume(t)) /\ WF_vars(TimeOut(t))
                     /\ WF_vars(DeleteEnd(t))

Spec == Init /\ [][Next]_vars /\ Fairness

-----------------------------------------------------------------------------
(* Properties                                                              *)

\* No lost wakeup: while the semaphore lives, every waiter still pending in
\* m_waiting_threads asks for more units than m_count holds, so no thread
\* sleeps beside units it could have (WakeWaiters against AddWaiter, the fast
\* path and Cancel's reset of the count).
NoLostWakeup ==
  \A t \in Pending : status = "Set" /\ waiter[t].need > count

\* The sum of a sequence of integers.
Total(s) ==
  LET sum[i \in 0..Len(s)] == IF i = 0 THEN 0 ELSE sum[i - 1] + s[i]
  IN  sum[Len(s)]

\* What each waiter in the queue has been granted and has yet to take away.
Promises ==
  [i \in 1..Len(queue) |->
     LET w == waiter[queue[i]]
     IN  IF w.ready /\ w.result = "Ok" THEN w.need ELSE 0]

\* Units are conserved: what creation, signals and cancels put in is in
\* m_count, promised to a waiter that has not returned yet, or was reported
\* taken by a call that returned OK.  A timeout racing a grant, or a cancel
\* or deletion that rewrites a granted record, would break it.
UnitsConserved == status # "None" => ledger = count + Total(Promises)

\* The number KernelCancelSema reports is the number of waits that come back
\* ECANCELED on its account, however timeouts and grants interleave.
CancelTally ==
  owed = Cardinality({t \in Threads : pc[t] = "queued" /\ waiter[t].ready
                                      /\ waiter[t].result = "Canceled"})

\* The destructor frees the object only when no thread still has a record in
\* its queue: the wait loop of a sleeping thread touches freed memory otherwise.
NoWaiterOutlives ==
  status = "None" => \A t \in Threads : pc[t] # "queued"

\* The step grants t's queued wait.
Granted(t) ==
  /\ pc[t] = "queued" /\ ~waiter[t].ready
  /\ waiter'[t].ready /\ waiter'[t].result = "Ok"

\* With priority order, a waiter is passed over in favour of a less urgent one
\* only when it asks for strictly more units.
NoPriorityInversion ==
  [][\A t, u \in Threads :
       /\ Granted(t) /\ ~fifo
       /\ u \in Pending /\ u \in Pending'
       /\ waiter[u].prio < waiter[t].prio
       => waiter[u].need > waiter[t].need]_vars

\* Deletion ends: the destructor's spin is left by every waiter it released.
DeletionEnds == status = "Deleted" ~> status = "None"

=============================================================================
