-------------------------- MODULE KernelEventFlag ---------------------------
(***************************************************************************)
(* The kernel event flag: KernelEventFlagPrivate and its registry in       *)
(* kernel/eventFlag.cpp.  The module follows one flag and its name.        *)
(*                                                                         *)
(* Every method is a critical section of m_mutex, given up while Wait      *)
(* sleeps and while Set, Clear, Cancel and the destructor spin.  A thread  *)
(* asleep in the condition variable is told apart from one that has left   *)
(* it and has yet to take the mutex.  A sleep also ends by itself: after   *)
(* the time left, or after 10 ms, the poll of CondVar::Wait.               *)
(*                                                                         *)
(* A Cancel in progress holds the status Canceled until every waiter has   *)
(* left; Set, Clear, other Cancels and the destructor spin meanwhile, so   *)
(* they are actions of the status Set only.  A deletion may come during a  *)
(* Cancel.  Set, Clear and Cancel abort the emulator when the status is    *)
(* Deleted, so a guest does not call them once the flag is unregistered,   *)
(* nor unregister it while one of them spins to begin.                     *)
(***************************************************************************)
EXTENDS Integers, FiniteSets

CONSTANTS
  Threads,        \* guest threads
  InitPatterns,   \* bits a flag is created with
  WaitPatterns,   \* bits a thread may wait for
  SetPatterns,    \* arguments of KernelSetEventFlag
  KeepPatterns,   \* arguments of KernelClearEventFlag: the bits kept
  CancelPatterns, \* arguments of KernelCancelEventFlag
  MaxRefs         \* bound: references held at once

Bits == UNION (InitPatterns \cup WaitPatterns \cup SetPatterns \cup CancelPatterns)

ASSUME EventFlagAssumption ==
  /\ IsFiniteSet(Threads)
  /\ MaxRefs \in Nat \ {0}
  /\ \A w \in WaitPatterns : w # {}   \* else KernelWaitEventFlag says EINVAL

VARIABLES
  registered,     \* the flag is in g_event_flags and its name published
  refs,           \* m_open_references
  single,         \* m_single_thread
  status,         \* m_status, or "None" while no object exists
  bits,           \* m_bits, as the set of bits that are one
  pc,             \* where each guest thread is
  req,            \* the arguments of each thread's Wait
  due,            \* history: the code a waiter must come back with
  ret             \* code returned by the call that ended last

vars == <<registered, refs, single, status, bits, pc, req, due, ret>>

Codes == {"OK", "EPERM", "ETIMEDOUT", "ECANCELED", "EACCES",
          "ESRCH", "EBUSY"}
Clears == {"None", "All", "Bits"}
Request == [want : WaitPatterns, all : BOOLEAN, clear : Clears, timed : BOOLEAN]
NoRequest == [want |-> {}, all |-> FALSE, clear |-> "None", timed |-> FALSE]

Asleep  == {t \in Threads : pc[t] = "asleep"}
Waiting == {t \in Threads : pc[t] \in {"asleep", "awake"}}   \* m_waiting_threads

TypeOK ==
  /\ registered \in BOOLEAN /\ refs \in 0..MaxRefs /\ single \in BOOLEAN
  /\ status \in {"None", "Set", "Canceled", "Deleted"}
  /\ bits \subseteq Bits
  /\ pc \in [Threads -> {"run", "asleep", "awake",
                         "canceling", "closing", "deleting"}]
  /\ req \in [Threads -> Request \cup {NoRequest}]
  /\ due \in [Threads -> {"none", "ECANCELED", "EACCES"}]
  /\ ret \in Codes

Init ==
  /\ registered = FALSE /\ refs = 0 /\ single = FALSE
  /\ status = "None" /\ bits = {}
  /\ pc = [t \in Threads |-> "run"]
  /\ req = [t \in Threads |-> NoRequest]
  /\ due = [t \in Threads |-> "none"]
  /\ ret = "OK"

Goto(t, where) == pc' = [pc EXCEPT ![t] = where]
object  == <<registered, refs, single>>
waits   == <<req, due>>

-----------------------------------------------------------------------------
(* The registry                                                            *)

Create(t, one, pattern) ==
  /\ pc[t] = "run" /\ status = "None"
  /\ registered' = TRUE /\ refs' = 1 /\ single' = one
  /\ status' = "Set" /\ bits' = pattern /\ ret' = "OK"
  /\ UNCHANGED <<pc, waits>>

Open(t) ==
  /\ pc[t] = "run" /\ refs < MaxRefs
  /\ IF registered THEN refs' = refs + 1 /\ ret' = "OK"
                   ELSE refs' = refs /\ ret' = "ESRCH"
  /\ UNCHANGED <<registered, single, status, bits, pc, waits>>

\* KernelCloseEventFlag by a holder: the last one out destroys the object.
Close(t) ==
  /\ pc[t] = "run" /\ registered
  /\ refs' = refs - 1
  /\ registered' = (refs > 1)
  /\ Goto(t, IF refs = 1 THEN "closing" ELSE "run")
  /\ ret' = "OK"
  /\ UNCHANGED <<single, status, bits, waits>>

\* KernelDeleteEventFlag destroys it whatever references are left.
Delete(t) ==
  /\ pc[t] = "run" /\ registered
  /\ registered' = FALSE
  /\ Goto(t, "closing")
  /\ UNCHANGED <<refs, single, status, bits, waits, ret>>

\* Close or Delete of a flag already unregistered.
NotFound(t) ==
  /\ pc[t] = "run" /\ ~registered
  /\ ret' = "ESRCH"
  /\ UNCHANGED <<object, status, bits, pc, waits>>

\* The destructor past its first spin, which waits for a Cancel to end.
Destroy(t) ==
  /\ pc[t] = "closing" /\ status = "Set"
  /\ status' = "Deleted"
  /\ due' = [u \in Threads |-> IF u \in Waiting THEN "EACCES" ELSE due[u]]
  /\ pc' = [u \in Threads |-> IF u = t THEN "deleting"
                              ELSE IF u \in Asleep THEN "awake" ELSE pc[u]]
  /\ UNCHANGED <<object, bits, req, ret>>

\* The destructor past its second spin: the object is freed.
DestroyEnd(t) ==
  /\ pc[t] = "deleting" /\ Waiting = {}
  /\ status' = "None" /\ refs' = 0 /\ bits' = {} /\ ret' = "OK"
  /\ Goto(t, "run")
  /\ UNCHANGED <<registered, single, waits>>

-----------------------------------------------------------------------------
(* Waiting                                                                 *)

\* The loop condition of Wait for the request r and the bits b.
Satisfied(r, b) == IF r.all THEN r.want \subseteq b ELSE r.want \cap b # {}

\* The bits left when a wait ends with success.
Cleared(r, b) ==
  CASE r.clear = "All" -> {} [] r.clear = "Bits" -> b \ r.want [] OTHER -> b

\* A single-thread flag somebody already waits on.
SingleBusy == single /\ Waiting # {}

\* Poll, or Wait with or without time, that returns at once.
WaitReturns(t, r, how) ==
  /\ pc[t] = "run" /\ status # "None"
  /\ \/ SingleBusy /\ ret' = "EPERM" /\ bits' = bits
     \/ ~SingleBusy /\ Satisfied(r, bits) /\ ret' = "OK" /\ bits' = Cleared(r, bits)
     \/ ~SingleBusy /\ ~Satisfied(r, bits) /\ bits' = bits
        /\ \/ how = "poll" /\ ret' = "EBUSY"
           \/ how = "zero" /\ ret' = "ETIMEDOUT"
  /\ UNCHANGED <<object, status, pc, waits>>

WaitSleeps(t, r) ==
  /\ pc[t] = "run" /\ status # "None" /\ ~SingleBusy /\ ~Satisfied(r, bits)
  /\ Goto(t, "asleep")
  /\ req' = [req EXCEPT ![t] = r]
  /\ UNCHANGED <<object, status, bits, due, ret>>

\* Seeded defect: a sleep without limit is not cut into polls.
WakeTimed(t) ==
  /\ pc[t] = "asleep" /\ req[t].timed /\ Goto(t, "awake")
  /\ UNCHANGED <<object, status, bits, waits, ret>>

\* The sleep ends by itself.
Wake(t) ==
  /\ pc[t] = "asleep" /\ Goto(t, "awake")
  /\ UNCHANGED <<object, status, bits, waits, ret>>

Return(t, code) ==
  /\ pc[t] = "awake" /\ Goto(t, "run")
  /\ req' = [req EXCEPT ![t] = NoRequest]
  /\ due' = [due EXCEPT ![t] = "none"]
  /\ ret' = code
  /\ UNCHANGED <<object, status>>

\* Back under the mutex during a Cancel or a deletion.
Interrupted(t) ==
  /\ status # "Set" /\ bits' = bits
  /\ Return(t, IF status = "Canceled" THEN "ECANCELED" ELSE "EACCES")

Succeed(t) ==
  /\ status = "Set" /\ Satisfied(req[t], bits)
  /\ bits' = Cleared(req[t], bits)
  /\ Return(t, "OK")

TimeOut(t) ==
  /\ status = "Set" /\ req[t].timed /\ ~Satisfied(req[t], bits)
  /\ bits' = bits
  /\ Return(t, "ETIMEDOUT")

\* The bits are still missing and there is time: sleep again.
Again(t) ==
  /\ pc[t] = "awake" /\ status = "Set" /\ ~Satisfied(req[t], bits)
  /\ Goto(t, "asleep")
  /\ UNCHANGED <<object, status, bits, waits, ret>>

-----------------------------------------------------------------------------
(* Changing the bits                                                       *)

\* Seeded defect: the sleepers are not signalled.
SetSilent(t, b) ==
  /\ pc[t] = "run" /\ status = "Set" /\ registered
  /\ bits' = bits \cup b /\ pc' = pc /\ ret' = "OK"
  /\ UNCHANGED <<object, status, waits>>

SetFlag(t, b) ==
  /\ pc[t] = "run" /\ status = "Set" /\ registered
  /\ bits' = bits \cup b
  /\ pc' = [u \in Threads |-> IF u \in Asleep THEN "awake" ELSE pc[u]]
  /\ ret' = "OK"
  /\ UNCHANGED <<object, status, waits>>

ClearFlag(t, b) ==
  /\ pc[t] = "run" /\ status = "Set" /\ registered
  /\ bits' = bits \cap b /\ ret' = "OK"
  /\ UNCHANGED <<object, status, pc, waits>>

CancelBegin(t, b) ==
  /\ pc[t] = "run" /\ status = "Set" /\ registered
  /\ status' = "Canceled" /\ bits' = b
  /\ due' = [u \in Threads |-> IF u \in Waiting THEN "ECANCELED" ELSE due[u]]
  /\ pc' = [u \in Threads |-> IF u = t THEN "canceling"
                              ELSE IF u \in Asleep THEN "awake" ELSE pc[u]]
  /\ UNCHANGED <<object, req, ret>>

\* Seeded defect: Cancel does not wait for the waiters to leave.
CancelEndEarly(t) ==
  /\ pc[t] = "canceling"
  /\ status' = "Set" /\ ret' = "OK" /\ Goto(t, "run")
  /\ UNCHANGED <<object, bits, waits>>

\* The spin of Cancel ends: nobody waits any more.
CancelEnd(t) ==
  /\ pc[t] = "canceling" /\ Waiting = {}
  /\ status' = "Set" /\ ret' = "OK" /\ Goto(t, "run")
  /\ UNCHANGED <<object, bits, waits>>

Next ==
  \E t \in Threads :
    \/ \E one \in BOOLEAN, b \in InitPatterns : Create(t, one, b)
    \/ Open(t) \/ Close(t) \/ Delete(t) \/ NotFound(t)
    \/ Destroy(t) \/ DestroyEnd(t)
    \/ \E r \in Request, how \in {"poll", "zero", "time"} : WaitReturns(t, r, how)
    \/ \E r \in Request : WaitSleeps(t, r)
    \/ Wake(t) \/ Interrupted(t) \/ Succeed(t) \/ TimeOut(t) \/ Again(t)
    \/ \E b \in SetPatterns : SetFlag(t, b)
    \/ \E b \in KeepPatterns : ClearFlag(t, b)
    \/ \E b \in CancelPatterns : CancelBegin(t, b)
    \/ CancelEnd(t)

\* Sleeps end, a thread out of its sleep gets the mutex and looks, and the
\* spins look again.
Fairness ==
  \A t \in Threads :
    /\ WF_vars(Wake(t))
    /\ WF_vars(Interrupted(t) \/ Succeed(t) \/ TimeOut(t) \/ Again(t))
    /\ WF_vars(CancelEnd(t)) /\ WF_vars(Destroy(t)) /\ WF_vars(DestroyEnd(t))

Spec == Init /\ [][Next]_vars /\ Fairness

-----------------------------------------------------------------------------
(* Properties                                                              *)

\* No lost wakeup: a thread asleep in the condition variable lacks the bits
\* it waits for, so no wakeup but that of Set is ever needed while the status
\* is Set (Set against Clear, Cancel and the clearing of other waiters).
NoLostWakeup == \A t \in Asleep : ~Satisfied(req[t], bits)

\* A thread that waited when Cancel began comes back ECANCELED, and one that
\* waited when the deletion began comes back EACCES: never OK on the new bits,
\* never a timeout, and never back to sleep on a flag that is Set again.
InterruptionReported ==
  [][\A t \in Threads : due[t] # "none" /\ pc'[t] = "run" => ret' = due[t]]_vars

\* No further thread goes to sleep on the flag.
NoNewSleeper == [][\A t \in Threads : pc'[t] = "asleep" => pc[t] # "run"]_vars

\* The spins of Cancel and both spins of the destructor, the first of which
\* waits for a Cancel that was under way, end provided threads stop arriving.
\* A thread that arrives while the status is Canceled or Deleted is counted and
\* not signalled: only the 10 ms poll frees it, and the spin with it.
SpinsEnd ==
  <>NoNewSleeper => /\ status = "Canceled" ~> status = "Set"
                    /\ (\E t \in Threads : pc[t] = "closing") ~> status = "None"

=============================================================================
