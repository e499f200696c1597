------------------------------ MODULE PosixSem ------------------------------
(***************************************************************************)
(* The POSIX semaphore, PosixSemPrivate in kernel/semaphore.cpp, behind    *)
(* sem_* and scePthreadSem*, with the copy of its state that SyncGuest     *)
(* keeps in guest memory and the registry entry of its address.            *)
(*                                                                         *)
(* Each method is one critical section of m_mutex, except Wait, which      *)
(* gives the mutex up to sleep and to dispatch guest signals.  Post wakes  *)
(* with notify_one, so a thread asleep in WaitFor is told apart from one   *)
(* that has left it and has yet to take the mutex.                         *)
(*                                                                         *)
(* As POSIX asks, a guest does not destroy or re-initialise a semaphore    *)
(* some thread is using: the object is found by GetSem and then used       *)
(* without a reference.                                                    *)
(***************************************************************************)
EXTENDS Integers, FiniteSets

CONSTANTS
  Threads,        \* guest threads
  Values,         \* arguments of sem_init
  ValueMax        \* POSIX_SEM_VALUE_MAX

ASSUME PosixSemAssumption ==
  /\ IsFiniteSet(Threads)
  /\ Values \subseteq Nat
  /\ ValueMax \in Nat \ {0}

VARIABLES
  live,           \* the guest address is a key of g_posix_sems
  count,          \* m_count
  waiters,        \* m_waiters
  guest,          \* the PosixSemGuest fields SyncGuest writes
  pc,             \* "run", "asleep" in WaitFor, or "awake" out of it
  timed,          \* the thread's wait has a time limit
  ret             \* result of the call that ended last

vars == <<live, count, waiters, guest, pc, timed, ret>>

Codes == {"OK", "ETIMEDOUT", "EAGAIN", "EOVERFLOW", "EINVAL"}

Waiting == {t \in Threads : pc[t] # "run"}
Asleep  == {t \in Threads : pc[t] = "asleep"}
Awake   == {t \in Threads : pc[t] = "awake"}

TypeOK ==
  /\ live \in BOOLEAN
  /\ count \in 0..ValueMax /\ waiters \in 0..Cardinality(Threads)
  /\ guest \in [count : 0..ValueMax, has_waiters : BOOLEAN]
  /\ pc \in [Threads -> {"run", "asleep", "awake"}]
  /\ timed \in [Threads -> BOOLEAN]
  /\ ret \in Codes

Init ==
  /\ live = FALSE /\ count = 0 /\ waiters = 0
  /\ guest = [count |-> 0, has_waiters |-> FALSE]
  /\ pc = [t \in Threads |-> "run"]
  /\ timed = [t \in Threads |-> FALSE]
  /\ ret = "OK"

-----------------------------------------------------------------------------
\* What SyncGuest stores for a count c and a number w of waiters.
SyncGuest(c, w) == [count |-> c, has_waiters |-> w > 0]

\* SemInitImpl: a new object takes the place of one left at the same address.
SemInit(t, v) ==
  /\ pc[t] = "run" /\ Waiting = {}
  /\ IF v > ValueMax
     THEN ret' = "EINVAL" /\ UNCHANGED <<live, count, waiters, guest>>
     ELSE /\ live' = TRUE /\ count' = v /\ waiters' = 0
          /\ guest' = SyncGuest(v, 0)
          /\ ret' = "OK"
  /\ UNCHANGED <<pc, timed>>

\* SemDestroyImpl.
SemDestroy(t) ==
  /\ pc[t] = "run" /\ Waiting = {}
  /\ IF live
     THEN /\ live' = FALSE /\ count' = 0 /\ waiters' = 0
          /\ guest' = [count |-> 0, has_waiters |-> FALSE]
          /\ ret' = "OK"
     ELSE ret' = "EINVAL" /\ UNCHANGED <<live, count, waiters, guest>>
  /\ UNCHANGED <<pc, timed>>

\* Any operation on an address GetSem does not find.
NotFound(t) ==
  /\ pc[t] = "run" /\ ~live
  /\ ret' = "EINVAL"
  /\ UNCHANGED <<live, count, waiters, guest, pc, timed>>

\* Wait or TryWait finds a unit at once.
Take(t) ==
  /\ pc[t] = "run" /\ live /\ count > 0
  /\ count' = count - 1
  /\ guest' = SyncGuest(count - 1, waiters)
  /\ ret' = "OK"
  /\ UNCHANGED <<live, waiters, pc, timed>>

\* TryWait, or Wait with no time left at all, finds none.
Fail(t, code) ==
  /\ pc[t] = "run" /\ live /\ count <= 0
  /\ guest' = SyncGuest(count, waiters)
  /\ ret' = code
  /\ UNCHANGED <<live, count, waiters, pc, timed>>

\* Wait registers the thread and sleeps.
Sleep(t, limit) ==
  /\ pc[t] = "run" /\ live /\ count <= 0
  /\ waiters' = waiters + 1
  /\ guest' = SyncGuest(count, waiters + 1)
  /\ pc' = [pc EXCEPT ![t] = "asleep"]
  /\ timed' = [timed EXCEPT ![t] = limit]
  /\ UNCHANGED <<live, count, ret>>

\* WaitFor ends by itself: the 10 ms poll, or the time left.
Wake(t) ==
  /\ pc[t] = "asleep"
  /\ pc' = [pc EXCEPT ![t] = "awake"]
  /\ UNCHANGED <<live, count, waiters, guest, timed, ret>>

\* Seeded defect: the loop waits for a second unit.
ResumeLate(t) ==
  /\ pc[t] = "awake" /\ count > 1
  /\ waiters' = waiters - 1 /\ count' = count - 1
  /\ guest' = SyncGuest(count - 1, waiters - 1)
  /\ pc' = [pc EXCEPT ![t] = "run"]
  /\ timed' = [timed EXCEPT ![t] = FALSE]
  /\ ret' = "OK"
  /\ UNCHANGED live

\* Back under the mutex with a unit to take.
Resume(t) ==
  /\ pc[t] = "awake" /\ count > 0
  /\ waiters' = waiters - 1 /\ count' = count - 1
  /\ guest' = SyncGuest(count - 1, waiters - 1)
  /\ pc' = [pc EXCEPT ![t] = "run"]
  /\ timed' = [timed EXCEPT ![t] = FALSE]
  /\ ret' = "OK"
  /\ UNCHANGED live

\* Back under the mutex with none and time left: the loop goes round.
Again(t) ==
  /\ pc[t] = "awake" /\ count <= 0
  /\ waiters' = (waiters - 1) + 1
  /\ guest' = SyncGuest(count, waiters)
  /\ pc' = [pc EXCEPT ![t] = "asleep"]
  /\ UNCHANGED <<live, count, timed, ret>>

\* Seeded defect: the waiter that gives up stays counted.
TimeOutCounted(t) ==
  /\ pc[t] = "awake" /\ timed[t] /\ count <= 0
  /\ guest' = SyncGuest(count, waiters - 1)
  /\ pc' = [pc EXCEPT ![t] = "run"]
  /\ timed' = [timed EXCEPT ![t] = FALSE]
  /\ ret' = "ETIMEDOUT"
  /\ UNCHANGED <<live, count, waiters>>

\* Back under the mutex with none and no time left.
TimeOut(t) ==
  /\ pc[t] = "awake" /\ timed[t] /\ count <= 0
  /\ waiters' = waiters - 1
  /\ guest' = SyncGuest(count, waiters - 1)
  /\ pc' = [pc EXCEPT ![t] = "run"]
  /\ timed' = [timed EXCEPT ![t] = FALSE]
  /\ ret' = "ETIMEDOUT"
  /\ UNCHANGED <<live, count>>

\* Seeded defect: only the first unit is announced.
NotifyFirst(c) ==
  IF Asleep = {} \/ c > 0
  THEN pc' = pc
  ELSE \E u \in Asleep : pc' = [pc EXCEPT ![u] = "awake"]

\* notify_one with c units there before: some sleeper, if there is one.
Notify(c) ==
  IF Asleep = {}
  THEN pc' = pc
  ELSE \E u \in Asleep : pc' = [pc EXCEPT ![u] = "awake"]

\* The count cannot go further.
AtMax == count = ValueMax

Post(t) ==
  /\ pc[t] = "run" /\ live
  /\ IF AtMax
     THEN ret' = "EOVERFLOW" /\ UNCHANGED <<count, guest, pc>>
     ELSE /\ count' = count + 1
          /\ guest' = SyncGuest(count + 1, waiters)
          /\ Notify(count)
          /\ ret' = "OK"
  /\ UNCHANGED <<live, waiters, timed>>

Next ==
  \E t \in Threads :
    \/ \E v \in Values : SemInit(t, v)
    \/ SemDestroy(t)
    \/ NotFound(t)
    \/ Take(t)
    \/ \E code \in {"EAGAIN", "ETIMEDOUT"} : Fail(t, code)
    \/ \E limit \in BOOLEAN : Sleep(t, limit)
    \/ Wake(t)
    \/ Resume(t)
    \/ Again(t)
    \/ TimeOut(t)
    \/ Post(t)

\* Sleeps end, and a thread out of its sleep gets the mutex and looks.
Fairness ==
  \A t \in Threads : /\ WF_vars(Wake(t))
                     /\ WF_vars(Resume(t) \/ Again(t) \/ TimeOut(t))

Spec == Init /\ [][Next]_vars /\ Fairness

-----------------------------------------------------------------------------
\* Units and wakeups match: while a thread sleeps, every unit in m_count is
\* covered by a thread already on its way to take it, although Post wakes one
\* sleeper only, timeouts overlap posts and TryWait may take the unit first.
UnitsAreCovered == Asleep # {} => count <= Cardinality(Awake)

\* The guest's copy is exact whenever m_mutex is free: the count it shows is
\* m_count, and has_waiters tells whether a thread is inside Wait's loop.
GuestCopyExact ==
  live => /\ guest.count = count
          /\ guest.has_waiters <=> Waiting # {}

\* A unit somebody waits for does not stay: it is taken, by a waiter or by a
\* thread that came later, or the waiters give up.
UnitIsTaken == (count > 0 /\ Waiting # {}) ~> (count = 0 \/ Waiting = {})

=============================================================================
